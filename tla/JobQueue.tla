------------------------------ MODULE JobQueue ------------------------------
(***************************************************************************)
(* The in-process job queue of pkg/orchestration/jobqueue/jobqueue.go:     *)
(* submitters, a pool of workers fed by a priority heap and a bounded      *)
(* wake-up channel, the scheduler that makes delayed jobs ready, Cancel,   *)
(* Pause/Resume over a condition variable, and Stop.                       *)
(*                                                                         *)
(* Steps that hold q.mu are atomic.  The fields of a Job are written by    *)
(* execute without the mutex, so those writes are steps of their own.      *)
(* pauseMu is not modelled: only workers take it, and only to read.        *)
(* Time is abstracted: a delayed job becomes due at some later tick.       *)
(* Panics, errors and timeouts of a job's Fn are one outcome, "it fails".  *)
(***************************************************************************)
EXTENDS Integers, FiniteSets

CONSTANTS
    Jobs,        \* the jobs clients may submit (with distinct non-empty IDs)
    Priority,    \* Priority[j]: Job.Priority, smaller runs first
    Deferred,    \* the jobs submitted with Job.Delay > 0
    MaxRetries,  \* Job.MaxRetries
    Workers,     \* Config.Workers goroutines
    QueueSize,   \* Config.QueueSize, the capacity of the wake-up channel
    MaxPauses,   \* bound: how often clients call Pause
    NoJob        \* a worker without a job

ASSUME ConstantsAssumption ==
    /\ Priority \in [Jobs -> Int]
    /\ Deferred \subseteq Jobs
    /\ MaxRetries \in Nat
    /\ QueueSize \in Nat \ {0}
    /\ MaxPauses \in Nat
    /\ NoJob \notin Jobs
    /\ IsFiniteSet(Workers)

VARIABLES
    submit,    \* submit[j]: where the call of Submit for j is
    state,     \* Job.State ("none" before Submit)
    attempts,  \* Job.Attempts
    canceled,  \* the jobs whose Job.Err is context.Canceled
    pq,        \* the ready heap
    delayed,   \* Queue.delayed
    byID,      \* the jobs that Queue.byID maps to
    signal,    \* tokens in the wake-up channel
    wpc,       \* wpc[w]: where worker w is
    wjob,      \* wjob[w]: the job in its hands
    token,     \* the workers that consumed a token and have not dequeued yet
    sched,     \* the delayScheduler goroutine
    paused,    \* {} or {"paused"}
    pauses,    \* number of calls of Pause so far
    resumer,   \* where the client's call of Resume is
    stop       \* where the first call of Stop is

vars == <<submit, state, attempts, canceled, pq, delayed, byID, signal, wpc,
          wjob, token, sched, paused, pauses, resumer, stop>>

jobVars    == <<submit, state, attempts, canceled>>
queueVars  == <<pq, delayed, byID>>
workerVars == <<wpc, wjob, token>>
pauseVars  == <<paused, pauses, resumer>>

SubmitPC == {"idle", "refused", "accepted", "pushed", "returned"}
JobState == {"none", "waiting", "delayed", "active", "completed", "failed"}
WorkerPC == {"off", "gate", "loop", "cond", "parked", "check", "select",
             "dequeue", "run", "requeue", "forget", "exited"}
StopPC   == {"idle", "resume", "broadcast", "close", "join", "done"}

TypeOK ==
    /\ submit \in [Jobs -> SubmitPC]
    /\ state \in [Jobs -> JobState]
    /\ attempts \in [Jobs -> 0..(MaxRetries + 1)]
    /\ canceled \subseteq Jobs
    /\ pq \subseteq Jobs
    /\ delayed \subseteq Jobs
    /\ byID \subseteq Jobs
    /\ signal \in 0..QueueSize
    /\ wpc \in [Workers -> WorkerPC]
    /\ wjob \in [Workers -> Jobs \cup {NoJob}]
    /\ token \subseteq Workers
    /\ sched \in {"off", "run", "exited"}
    /\ paused \subseteq {"paused"}
    /\ pauses \in 0..MaxPauses
    /\ resumer \in {"idle", "broadcast"}
    /\ stop \in StopPC

\* New.
Init ==
    /\ submit = [j \in Jobs |-> "idle"]
    /\ state = [j \in Jobs |-> "none"]
    /\ attempts = [j \in Jobs |-> 0]
    /\ canceled = {}
    /\ pq = {}
    /\ delayed = {}
    /\ byID = {}
    /\ signal = 0
    /\ wpc = [w \in Workers |-> "off"]
    /\ wjob = [w \in Workers |-> NoJob]
    /\ token = {}
    /\ sched = "off"
    /\ paused = {}
    /\ pauses = 0
    /\ resumer = "idle"
    /\ stop = "idle"

stopped      == stop # "idle"                 \* q.stopped
stopChClosed == stop \in {"join", "done"}     \* q.stopCh
Paused       == paused # {}                   \* q.paused

SetState(j, s) == state' = [state EXCEPT ![j] = s]
Goto(w, pc)    == wpc' = [wpc EXCEPT ![w] = pc]

\* The non-blocking send: a token is dropped when the channel is full.
Notified == IF signal < QueueSize THEN signal + 1 ELSE signal

-----------------------------------------------------------------------------
(* Submit *)

\* The stopped check, and the state written before the job is visible.
SubmitCheck(j) ==
    /\ submit[j] = "idle"
    /\ IF stopped
       THEN /\ submit' = [submit EXCEPT ![j] = "refused"]
            /\ UNCHANGED state
       ELSE /\ submit' = [submit EXCEPT ![j] = "accepted"]
            /\ SetState(j, IF j \in Deferred THEN "delayed" ELSE "waiting")
    /\ UNCHANGED <<attempts, canceled, queueVars, signal, workerVars, sched,
                   pauseVars, stop>>

\* Under q.mu: append to the delayed list, or enqueue's push on the heap.
SubmitPush(j) ==
    /\ submit[j] = "accepted"
    /\ IF j \in Deferred
       THEN /\ delayed' = delayed \cup {j}
            /\ submit' = [submit EXCEPT ![j] = "returned"]
            /\ UNCHANGED <<pq, state>>
       ELSE /\ pq' = pq \cup {j}
            /\ submit' = [submit EXCEPT ![j] = "pushed"]
            /\ SetState(j, "waiting")
            /\ UNCHANGED delayed
    /\ byID' = byID \cup {j}
    /\ UNCHANGED <<attempts, canceled, signal, workerVars, sched, pauseVars,
                   stop>>

\* enqueue's select after the unlock.
SubmitSignal(j) ==
    /\ submit[j] = "pushed"
    /\ signal' = Notified
    /\ submit' = [submit EXCEPT ![j] = "returned"]
    /\ UNCHANGED <<state, attempts, canceled, queueVars, workerVars, sched,
                   pauseVars, stop>>

\* Mutant of Cancel: a job that a worker is executing can be cancelled.
CancelActive(j) ==
    /\ j \in byID
    /\ state[j] \in {"waiting", "delayed", "active"}
    /\ byID' = byID \ {j}
    /\ SetState(j, "failed")
    /\ canceled' = canceled \cup {j}
    /\ UNCHANGED <<submit, attempts, pq, delayed, signal, workerVars, sched,
                   pauseVars, stop>>

\* Cancel of a job that is still waiting or delayed (otherwise: no effect).
Cancel(j) ==
    /\ j \in byID
    /\ state[j] \in {"waiting", "delayed"}
    /\ byID' = byID \ {j}
    /\ SetState(j, "failed")
    /\ canceled' = canceled \cup {j}
    /\ UNCHANGED <<submit, attempts, pq, delayed, signal, workerVars, sched,
                   pauseVars, stop>>

-----------------------------------------------------------------------------
(* Workers *)

\* waitIfPaused: the unlocked test, ...
Gate(w) ==
    /\ wpc[w] = "gate"
    /\ Goto(w, IF Paused THEN "loop" ELSE "check")
    /\ UNCHANGED <<jobVars, queueVars, signal, wjob, token, sched, pauseVars,
                   stop>>

\* ... the loop condition, tested with pauseMu held, ...
Loop(w) ==
    /\ wpc[w] = "loop"
    /\ Goto(w, IF Paused /\ ~stopped THEN "cond" ELSE "check")
    /\ UNCHANGED <<jobVars, queueVars, signal, wjob, token, sched, pauseVars,
                   stop>>

\* ... and pauseCond.Wait, which joins the waiters only now.
CondWait(w) ==
    /\ wpc[w] = "cond"
    /\ Goto(w, "parked")
    /\ UNCHANGED <<jobVars, queueVars, signal, wjob, token, sched, pauseVars,
                   stop>>

\* The stopped check after each waitIfPaused.
Check(w) ==
    /\ wpc[w] = "check"
    /\ Goto(w, IF stopped THEN "exited"
               ELSE IF w \in token THEN "dequeue" ELSE "select")
    /\ UNCHANGED <<jobVars, queueVars, signal, wjob, token, sched, pauseVars,
                   stop>>

TakeSignal(w) ==
    /\ wpc[w] = "select"
    /\ signal > 0
    /\ signal' = signal - 1
    /\ token' = token \cup {w}
    /\ Goto(w, "gate")
    /\ UNCHANGED <<jobVars, queueVars, wjob, sched, pauseVars, stop>>

\* Mutant of TakeStop: a worker notices stopCh only when a token wakes it.
TakeStopOnSignal(w) ==
    /\ wpc[w] = "select"
    /\ stopChClosed
    /\ signal > 0
    /\ Goto(w, "exited")
    /\ UNCHANGED <<jobVars, queueVars, signal, wjob, token, sched, pauseVars,
                   stop>>

TakeStop(w) ==
    /\ wpc[w] = "select"
    /\ stopChClosed
    /\ Goto(w, "exited")
    /\ UNCHANGED <<jobVars, queueVars, signal, wjob, token, sched, pauseVars,
                   stop>>

\* dequeue pops until it meets a waiting job: the cancelled jobs that precede
\* it are dropped, those of equal priority may be.
Ready == {j \in pq : state[j] = "waiting"}

DequeueJob(w) ==
    /\ wpc[w] = "dequeue"
    /\ \E j \in Ready :
          /\ \A k \in Ready : Priority[j] <= Priority[k]
          /\ \E drop \in SUBSET (pq \ Ready) :
                /\ \A k \in pq \ Ready :
                      /\ Priority[k] < Priority[j] => k \in drop
                      /\ k \in drop => Priority[k] <= Priority[j]
                /\ pq' = pq \ (drop \cup {j})
          /\ SetState(j, "active")
          /\ attempts' = [attempts EXCEPT ![j] = @ + 1]
          /\ wjob' = [wjob EXCEPT ![w] = j]
    /\ token' = token \ {w}
    /\ Goto(w, "run")
    /\ UNCHANGED <<submit, canceled, delayed, byID, signal, sched, pauseVars,
                   stop>>

DequeueNothing(w) ==
    /\ wpc[w] = "dequeue"
    /\ Ready = {}
    /\ pq' = {}
    /\ token' = token \ {w}
    /\ Goto(w, "gate")
    /\ UNCHANGED <<jobVars, delayed, byID, signal, wjob, sched, pauseVars,
                   stop>>

\* execute after a successful Fn.
Succeed(w) ==
    /\ wpc[w] = "run"
    /\ SetState(wjob[w], "completed")
    /\ Goto(w, "forget")
    /\ UNCHANGED <<submit, attempts, canceled, queueVars, signal, wjob, token,
                   sched, pauseVars, stop>>

\* execute after a failed Fn: retry while attempts are left.
FnFails(w) ==
    /\ wpc[w] = "run"
    /\ IF attempts[wjob[w]] <= MaxRetries
       THEN SetState(wjob[w], "delayed") /\ Goto(w, "requeue")
       ELSE SetState(wjob[w], "failed") /\ Goto(w, "forget")
    /\ canceled' = canceled \ {wjob[w]}
    /\ UNCHANGED <<submit, attempts, queueVars, signal, wjob, token, sched,
                   pauseVars, stop>>

\* The locked append to the delayed list, after the state was written.
Requeue(w) ==
    /\ wpc[w] = "requeue"
    /\ delayed' = delayed \cup {wjob[w]}
    /\ wjob' = [wjob EXCEPT ![w] = NoJob]
    /\ Goto(w, "gate")
    /\ UNCHANGED <<jobVars, pq, byID, signal, token, sched, pauseVars, stop>>

\* The locked delete of the ID of a finished job.
Forget(w) ==
    /\ wpc[w] = "forget"
    /\ byID' = byID \ {wjob[w]}
    /\ wjob' = [wjob EXCEPT ![w] = NoJob]
    /\ Goto(w, "gate")
    /\ UNCHANGED <<jobVars, pq, delayed, signal, token, sched, pauseVars, stop>>

-----------------------------------------------------------------------------
(* delayScheduler: one job of a tick per step *)

\* A job that was cancelled meanwhile is dropped.
SchedDrop(j) ==
    /\ sched = "run"
    /\ j \in delayed
    /\ state[j] \in {"failed", "completed"}
    /\ delayed' = delayed \ {j}
    /\ UNCHANGED <<jobVars, pq, byID, signal, workerVars, sched, pauseVars,
                   stop>>

\* Mutants of SchedReady: the job stays in the delayed list; no token is sent.
SchedReadyKeeps(j) ==
    /\ sched = "run"
    /\ j \in delayed
    /\ state[j] \notin {"failed", "completed"}
    /\ SetState(j, "waiting")
    /\ pq' = pq \cup {j}
    /\ signal' = Notified
    /\ UNCHANGED <<submit, attempts, canceled, delayed, byID, workerVars, sched,
                   pauseVars, stop>>

SchedReadySilent(j) ==
    /\ sched = "run"
    /\ j \in delayed
    /\ state[j] \notin {"failed", "completed"}
    /\ SetState(j, "waiting")
    /\ delayed' = delayed \ {j}
    /\ pq' = pq \cup {j}
    /\ UNCHANGED <<submit, attempts, canceled, byID, signal, workerVars, sched,
                   pauseVars, stop>>

SchedReady(j) ==
    /\ sched = "run"
    /\ j \in delayed
    /\ state[j] \notin {"failed", "completed"}
    /\ SetState(j, "waiting")
    /\ delayed' = delayed \ {j}
    /\ pq' = pq \cup {j}
    /\ signal' = Notified
    /\ UNCHANGED <<submit, attempts, canceled, byID, workerVars, sched,
                   pauseVars, stop>>

\* Mutant of SchedStop: the goroutine ends before the queue is stopped.
SchedStopEarly ==
    /\ sched = "run"
    /\ sched' = "exited"
    /\ UNCHANGED <<jobVars, queueVars, signal, workerVars, pauseVars, stop>>

SchedStop ==
    /\ sched = "run"
    /\ stopChClosed
    /\ sched' = "exited"
    /\ UNCHANGED <<jobVars, queueVars, signal, workerVars, pauseVars, stop>>

-----------------------------------------------------------------------------
(* Start, Pause, Resume, Stop *)

\* startOnce: spawns the workers and the scheduler, even after a Stop.
StartQueue ==
    /\ sched = "off"
    /\ sched' = "run"
    /\ wpc' = [w \in Workers |-> "gate"]
    /\ UNCHANGED <<jobVars, queueVars, signal, wjob, token, pauseVars, stop>>

Pause ==
    /\ pauses < MaxPauses
    /\ pauses' = pauses + 1
    /\ paused' = {"paused"}
    /\ UNCHANGED <<jobVars, queueVars, signal, workerVars, sched, resumer, stop>>

WakeAll == [w \in Workers |-> IF wpc[w] = "parked" THEN "loop" ELSE wpc[w]]

\* Resume: the compare-and-swap true -> false, ...
Resume ==
    /\ resumer = "idle"
    /\ Paused
    /\ paused' = {}
    /\ resumer' = "broadcast"
    /\ UNCHANGED <<jobVars, queueVars, signal, workerVars, sched, pauses, stop>>

\* ... then the broadcast, without pauseMu.
ResumeBroadcast ==
    /\ resumer = "broadcast"
    /\ resumer' = "idle"
    /\ wpc' = WakeAll
    /\ UNCHANGED <<jobVars, queueVars, signal, wjob, token, sched, paused,
                   pauses, stop>>

\* Stop, called by a client or when the ctx given to Start is cancelled: only
\* the call whose compare-and-swap succeeds goes on.
StopBegin ==
    /\ stop = "idle"
    /\ stop' = "resume"
    /\ UNCHANGED <<jobVars, queueVars, signal, workerVars, sched, pauseVars>>

\* Stop's own call of Resume: it broadcasts only if the queue was paused.
StopResume ==
    /\ stop = "resume"
    /\ stop' = IF Paused THEN "broadcast" ELSE "close"
    /\ paused' = {}
    /\ UNCHANGED <<jobVars, queueVars, signal, workerVars, sched, pauses,
                   resumer>>

StopBroadcast ==
    /\ stop = "broadcast"
    /\ stop' = "close"
    /\ wpc' = WakeAll
    /\ UNCHANGED <<jobVars, queueVars, signal, wjob, token, sched, pauseVars>>

StopClose ==
    /\ stop = "close"
    /\ stop' = "join"
    /\ UNCHANGED <<jobVars, queueVars, signal, workerVars, sched, pauseVars>>

\* Mutant of StopJoin: only the scheduler is waited for.
StopJoinScheduler ==
    /\ stop = "join"
    /\ sched \in {"off", "exited"}
    /\ stop' = "done"
    /\ UNCHANGED <<jobVars, queueVars, signal, workerVars, sched, pauseVars>>

\* wg.Wait() returned; cancel() and close(done), on which Start returns.
StopJoin ==
    /\ stop = "join"
    /\ \A w \in Workers : wpc[w] \in {"off", "exited"}
    /\ sched \in {"off", "exited"}
    /\ stop' = "done"
    /\ UNCHANGED <<jobVars, queueVars, signal, workerVars, sched, pauseVars>>

-----------------------------------------------------------------------------

WorkerStep(w) ==
    \/ Gate(w) \/ Loop(w) \/ CondWait(w) \/ Check(w)
    \/ TakeSignal(w) \/ TakeStop(w) \/ DequeueJob(w) \/ DequeueNothing(w)
    \/ Succeed(w) \/ FnFails(w) \/ Requeue(w) \/ Forget(w)

SubmitStep(j) == SubmitPush(j) \/ SubmitSignal(j)
SchedStep(j)  == SchedDrop(j) \/ SchedReady(j)
StopStep == StopResume \/ StopBroadcast \/ StopClose \/ StopJoin

Next ==
    \/ \E w \in Workers : WorkerStep(w)
    \/ \E j \in Jobs : SubmitCheck(j) \/ SubmitStep(j) \/ Cancel(j) \/ SchedStep(j)
    \/ SchedStop \/ StartQueue \/ Pause \/ Resume \/ ResumeBroadcast
    \/ StopBegin \/ StopStep

\* Goroutines that can run eventually do, a job's Fn returns, a delayed job
\* becomes due, and a call of Submit, Resume or Stop in progress goes on.
\* Clients need not submit, pause, resume or stop, but the queue is started.
Fairness ==
    /\ \A w \in Workers : WF_vars(WorkerStep(w))
    /\ \A j \in Jobs : WF_vars(SubmitStep(j)) /\ WF_vars(SchedStep(j))
    /\ WF_vars(SchedStop) /\ WF_vars(StartQueue) /\ WF_vars(ResumeBroadcast)
    /\ WF_vars(StopStep)

Spec == Init /\ [][Next]_vars

FairSpec == Spec /\ Fairness

-----------------------------------------------------------------------------
(* Properties *)

Holds(w, j) == wjob[w] = j
InHand(j)   == \E w \in Workers : Holds(w, j)

\* An accepted job is in exactly one place until it ends: with its submitter,
\* in the heap, in the delayed list or in the hands of one worker; so no race
\* of Submit, Cancel, retry and scheduler runs a job twice at once or loses it.
OnePlace ==
    /\ \A j \in Jobs :
        /\ state[j] \in {"waiting", "delayed", "active"} =>
              submit[j] = "accepted" \/ j \in pq \/ j \in delayed \/ InHand(j)
        /\ submit[j] \in {"idle", "refused", "accepted"} =>
              j \notin pq \cup delayed \cup byID /\ ~InHand(j)
        /\ InHand(j) => j \notin pq \cup delayed
    /\ pq \cap delayed = {}
    /\ \A v, w \in Workers : wjob[v] = wjob[w] /\ wjob[v] # NoJob => v = w

\* enqueue and delayScheduler send one token per ready job and a worker takes
\* one job per token: while the queue runs, the ready jobs never outnumber the
\* tokens that are in the channel, held by a worker or about to be sent,
\* provided the channel has room for a token of every job.
TokensCoverReadyJobs ==
    ~stopped =>
        Cardinality(Ready) <= signal + Cardinality(token)
                                + Cardinality({j \in Jobs : submit[j] = "pushed"})

\* jobqueue.go:343-354: when Stop has returned no worker is executing a job and
\* none will, even if Start comes late.
QuietAfterStop ==
    stop = "done" =>
        \A w \in Workers : wpc[w] \in {"off", "gate", "loop", "cond", "check", "exited"}
                           /\ wjob[w] = NoJob

\* jobqueue.go:15 "queued, executed, completed or failed": an accepted job ends
\* unless the queue is stopped.
AcceptedJobsEnd ==
    \A j \in Jobs :
        submit[j] = "accepted" ~> (state[j] \in {"completed", "failed"} \/ stopped)

\* jobqueue.go:254 "graceful stop when ctx is cancelled": Stop, and with it
\* Start, returns.
StopCompletes == stopped ~> stop = "done"

-----------------------------------------------------------------------------
(* The abstract life of a job that the queue implements. *)

Status(j) ==
    CASE submit[j] = "idle" -> "new"
      [] submit[j] = "refused" -> "refused"
      [] j \in canceled -> "cancelled"
      [] state[j] = "active" -> "running"
      [] state[j] \in {"waiting", "delayed"} -> "pending"
      [] OTHER -> state[j]

Board == INSTANCE JobBoard WITH
    Capacity <- Cardinality(Workers),
    status <- [j \in Jobs |-> Status(j)],
    runs <- attempts

\* Every step of the queue is a step of the abstract life of one job.
ImplementsBoard == Board!Spec

-----------------------------------------------------------------------------
(* The inductive invariant *)

\* A worker has a job exactly while it executes, requeues or forgets it, and a
\* token only between the wake-up and the end of dequeue; once Stop has
\* returned a worker can only find out that it has to exit.
WorkerInv ==
    \A w \in Workers :
        /\ wjob[w] # NoJob <=> wpc[w] \in {"run", "requeue", "forget"}
        /\ wpc[w] = "run" => state[wjob[w]] = "active"
        /\ wpc[w] = "requeue" => state[wjob[w]] \in {"delayed", "failed"}
        /\ wpc[w] = "forget" => state[wjob[w]] \in {"completed", "failed"}
        /\ w \in token => wpc[w] \notin {"off", "select", "run", "requeue", "forget"}
        /\ wpc[w] = "dequeue" => w \in token
        /\ sched = "off" => wpc[w] = "off"
        /\ stop = "done" => wpc[w] \in {"off", "gate", "loop", "check", "exited"}

\* What the state of a job says about the place where it is, and the reverse;
\* a job that may run again has a retry left, and a cancelled one is over.
JobInv ==
    \A j \in Jobs :
        /\ submit[j] \in {"idle", "refused"} <=> state[j] = "none"
        /\ submit[j] = "accepted" => state[j] = IF j \in Deferred THEN "delayed" ELSE "waiting"
        /\ state[j] \in {"none", "waiting", "delayed"} => attempts[j] <= MaxRetries
        /\ state[j] = "active" => \E w \in Workers : Holds(w, j) /\ wpc[w] = "run"
        /\ j \in pq => state[j] \in {"waiting", "failed"}
        /\ j \in delayed => state[j] \in {"delayed", "failed"}
        /\ j \in canceled => state[j] = "failed"

IInv == TypeOK /\ OnePlace /\ WorkerInv /\ JobInv
=============================================================================
