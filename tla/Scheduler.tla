----------------------------- MODULE Scheduler ------------------------------
(***************************************************************************)
(* pkg/orchestration/scheduler: a worker pool over a bounded channel.      *)
(* Submit blocks on a full queue with queueMu read-locked; Stop closes the *)
(* queue under the write lock, so that nobody sends on a closed channel,   *)
(* and waits for the workers to drain it.  Pause makes the workers wait on *)
(* a condition variable, which Resume signals without its mutex.           *)
(***************************************************************************)
EXTENDS Naturals, Sequences, FiniteSets

CONSTANTS
    Tasks, Workers, None,
    QueueSize,
    MaxPauses  \* bound on the calls of Pause

VARIABLES
    queue,   \* s.queue
    closed,  \* it is closed
    caller,  \* caller[t]: where the Submit (or TrySubmit) of t is
    worker,  \* worker[w]: place and task
    paused,  \* s.paused; pauses: the calls of Pause left
    stop,    \* where Stop is: stopped is set from "resume" on
    ran      \* history: the tasks that were executed

vars == <<queue, closed, caller, worker, paused, stop, ran>>

Places == {"check", "test", "wait", "asleep", "take", "exec", "exited"}

TypeOK ==
    /\ queue \in Seq(Tasks) /\ Len(queue) <= QueueSize /\ closed \in BOOLEAN
    /\ caller \in [Tasks -> {"none", "locked", "select", "true", "false"}]
    /\ worker \in [Workers -> [at : Places, task : Tasks \cup {None}]]
    /\ stop \in {"no", "resume", "broadcast", "signal", "lock", "join", "done"}
    /\ ran \subseteq Tasks

Init ==
    /\ queue = <<>> /\ closed = FALSE
    /\ caller = [t \in Tasks |-> "none"]
    /\ worker = [w \in Workers |-> [at |-> "check", task |-> None]]
    /\ paused = [on |-> FALSE, left |-> MaxPauses, waking |-> FALSE]
    /\ stop = "no"
    /\ ran = {}

Stopped == stop # "no"
StopChClosed == stop \in {"lock", "join", "done"}
ReadLocked == \E t \in Tasks : caller[t] \in {"locked", "select"}

\* Submit and TrySubmit: RLock, look at stopped, then the select, which only
\* TrySubmit leaves because the queue is full.  A waiting writer keeps new
\* readers out.
Enter(t) ==
    /\ caller[t] = "none" /\ stop # "lock"
    /\ caller' = [caller EXCEPT ![t] = "locked"]
    /\ UNCHANGED <<queue, closed, worker, paused, stop, ran>>
Look(t) ==
    /\ caller[t] = "locked"
    /\ caller' = [caller EXCEPT ![t] = IF Stopped THEN "false" ELSE "select"]
    /\ UNCHANGED <<queue, closed, worker, paused, stop, ran>>
Send(t) ==
    /\ caller[t] = "select" /\ Len(queue) < QueueSize
    /\ queue' = Append(queue, t)
    /\ caller' = [caller EXCEPT ![t] = "true"]
    /\ UNCHANGED <<closed, worker, paused, stop, ran>>
GiveUp(t) ==
    /\ caller[t] = "select" /\ (StopChClosed \/ Len(queue) = QueueSize)
    /\ caller' = [caller EXCEPT ![t] = "false"]
    /\ UNCHANGED <<queue, closed, worker, paused, stop, ran>>

Pause ==
    /\ paused.left > 0
    /\ paused' = [paused EXCEPT !.on = TRUE, !.left = @ - 1]
    /\ UNCHANGED <<queue, closed, caller, worker, stop, ran>>

\* Resume: the swap, then Broadcast to those already asleep, without pauseMu.
Broadcast ==
    worker' = [w \in Workers |->
        IF worker[w].at = "asleep" THEN [worker[w] EXCEPT !.at = "test"] ELSE worker[w]]
Resume ==
    /\ \/ /\ paused.on /\ ~paused.waking
          /\ paused' = [paused EXCEPT !.on = FALSE, !.waking = TRUE] /\ UNCHANGED worker
       \/ /\ paused.waking
          /\ paused' = [paused EXCEPT !.waking = FALSE] /\ Broadcast
    /\ UNCHANGED <<queue, closed, caller, stop, ran>>

\* Mutant of Stop: the queue is closed without waiting for the submitters.
StopWithoutLock ==
    /\ \/ stop = "no" /\ stop' = "resume" /\ UNCHANGED <<closed, paused, worker>>
       \/ /\ stop = "resume"
          /\ stop' = IF paused.on THEN "broadcast" ELSE "signal"
          /\ paused' = [paused EXCEPT !.on = FALSE] /\ UNCHANGED <<closed, worker>>
       \/ stop = "broadcast" /\ stop' = "signal" /\ Broadcast /\ UNCHANGED <<closed, paused>>
       \/ stop = "signal" /\ stop' = "lock" /\ UNCHANGED <<closed, paused, worker>>
       \/ stop = "lock" /\ stop' = "join" /\ closed' = TRUE /\ UNCHANGED <<paused, worker>>
       \/ /\ stop = "join" /\ \A w \in Workers : worker[w].at = "exited"
          /\ stop' = "done" /\ UNCHANGED <<closed, paused, worker>>
    /\ UNCHANGED <<queue, caller, ran>>

\* Stop, step by step: the swap of stopped, Resume, close(stopCh), close(queue)
\* under the write lock, wg.Wait.
Stop ==
    /\ \/ stop = "no" /\ stop' = "resume" /\ UNCHANGED <<closed, paused, worker>>
       \/ /\ stop = "resume"
          /\ stop' = IF paused.on THEN "broadcast" ELSE "signal"
          /\ paused' = [paused EXCEPT !.on = FALSE] /\ UNCHANGED <<closed, worker>>
       \/ stop = "broadcast" /\ stop' = "signal" /\ Broadcast /\ UNCHANGED <<closed, paused>>
       \/ stop = "signal" /\ stop' = "lock" /\ UNCHANGED <<closed, paused, worker>>
       \/ /\ stop = "lock" /\ ~ReadLocked
          /\ stop' = "join" /\ closed' = TRUE /\ UNCHANGED <<paused, worker>>
       \/ /\ stop = "join" /\ \A w \in Workers : worker[w].at = "exited"
          /\ stop' = "done" /\ UNCHANGED <<closed, paused, worker>>
    /\ UNCHANGED <<queue, caller, ran>>

\* worker: the pause check with its condition loop, then the queue, then exec.
Move(w, from, to) == worker[w].at = from /\ worker' = [worker EXCEPT ![w].at = to]
PauseCheck(w) ==
    /\ \/ Move(w, "check", IF paused.on THEN "test" ELSE "take")
       \/ Move(w, "test", IF paused.on /\ ~Stopped THEN "wait" ELSE "take")
       \/ Move(w, "wait", "asleep")
    /\ UNCHANGED <<queue, closed, caller, paused, stop, ran>>
Take(w) ==
    /\ worker[w].at = "take"
    /\ \/ /\ queue # <<>>
          /\ worker' = [worker EXCEPT ![w] = [at |-> "exec", task |-> Head(queue)]]
          /\ queue' = Tail(queue)
       \/ /\ queue = <<>> /\ closed
          /\ worker' = [worker EXCEPT ![w].at = "exited"] /\ UNCHANGED queue
    /\ UNCHANGED <<closed, caller, paused, stop, ran>>
Exec(w) ==
    /\ worker[w].at = "exec"
    /\ ran' = ran \cup {worker[w].task}
    /\ worker' = [worker EXCEPT ![w] = [at |-> "check", task |-> None]]
    /\ UNCHANGED <<queue, closed, caller, paused, stop>>

Work(w) == PauseCheck(w) \/ Take(w) \/ Exec(w)
Submitter(t) == Look(t) \/ Send(t) \/ (StopChClosed /\ GiveUp(t))

Next ==
    \/ \E t \in Tasks : Enter(t) \/ Look(t) \/ Send(t) \/ GiveUp(t)
    \/ Pause \/ Resume \/ Stop
    \/ \E w \in Workers : Work(w)

\* Goroutines run on, and calls that began return.
Fairness ==
    /\ \A t \in Tasks : WF_vars(Submitter(t))
    /\ \A w \in Workers : WF_vars(Work(w))
    /\ WF_vars(stop # "no" /\ Stop) /\ WF_vars(paused.waking /\ Resume)

Spec == Init /\ [][Next]_vars /\ Fairness

-----------------------------------------------------------------------------
(* Properties *)

\* scheduler.go:169: nobody is about to send on a closed queue (a panic), whether
\* its Submit came before, during or after Stop.
NoSendOnClosed == closed => \A t \in Tasks : caller[t] # "select"

\* scheduler.go:161-162: once Stop returns every accepted task has run, unless
\* the scheduler only queues (scheduler.go:64, no workers).
DrainedAtStop ==
    stop = "done" /\ Workers # {} => \A t \in Tasks : caller[t] = "true" => t \in ran

\* A worker that tested paused before a Resume and went to sleep after its
\* broadcast, with no other on the way.
MissedWakeup ==
    /\ \E w \in Workers : worker[w].at = "asleep"
    /\ ~paused.on /\ ~paused.waking /\ stop # "broadcast"

\* scheduler.go:161: Stop returns unless a worker missed the broadcast.
Returned == stop \in {"no", "done"} \/ MissedWakeup
StopReturns == []<>Returned

-----------------------------------------------------------------------------
(* The inductive invariant behind NoSendOnClosed and DrainedAtStop. *)

\* The queue is closed by the end of Stop; a worker leaves a closed and empty
\* queue; and an accepted task is in the queue, in the hands of a worker, or ran.
DrainInv ==
    /\ closed <=> stop \in {"join", "done"}
    /\ \A w \in Workers :
          /\ worker[w].at = "exited" => closed /\ queue = <<>>
          /\ worker[w].at = "exec" => worker[w].task \in Tasks
          /\ stop = "done" => worker[w].at = "exited"
    /\ \A t \in Tasks : caller[t] = "true" =>
          \/ t \in ran
          \/ \E i \in DOMAIN queue : queue[i] = t
          \/ \E w \in Workers : worker[w].at = "exec" /\ worker[w].task = t

IInv == TypeOK /\ DrainInv /\ NoSendOnClosed
=============================================================================
