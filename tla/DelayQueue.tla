----------------------------- MODULE DelayQueue -----------------------------
(***************************************************************************)
(* pkg/orchestration/delayqueue: callbacks that fire once, at a time, and  *)
(* can be cancelled or rescheduled by key.  One driver goroutine pops due  *)
(* tasks under the mutex, starts them outside it and sleeps until the next *)
(* is due; callers wake it, after they unlock, through a one-slot channel. *)
(* A task is numbered by the call of Schedule that made it.                *)
(***************************************************************************)
EXTENDS Naturals, FiniteSets

CONSTANTS
    Keys, None,
    MaxTasks,  \* bound on the calls of Schedule
    MaxTime    \* bound on the clock

Never == MaxTime + 1  \* the hour's sleep with nothing to do

VARIABLES
    task,    \* task[n]: key, fireAt and whether it is marked dead
    heap,    \* the numbers of the tasks in the heap
    byKey,   \* byKey[k]: the number of the key's task
    driver,  \* the goroutine: its place, the tasks it has to start, its timer
    wake,    \* ch: wakeCh holds a token; callers: those about to send one
    stop,    \* "no", "marked" (stopped is set), "closed" (stopCh too)
    now,
    fired,   \* history: the tasks that were started
    revoked  \* history: the tasks a call reported as cancelled or replaced

vars == <<task, heap, byKey, driver, wake, stop, now, fired, revoked>>

Tasks == 1..MaxTasks
Made == DOMAIN task

TypeOK ==
    /\ Made \subseteq Tasks /\ heap \subseteq Made
    /\ task \in [Made -> [key : Keys, at : 0..MaxTime, dead : BOOLEAN]]
    /\ byKey \in [Keys -> Made \cup {None}]
    /\ driver \in [at : {"collect", "start", "sleep", "exited"}, ready : SUBSET Made, timer : 0..Never]
    /\ wake \in [ch : BOOLEAN, callers : Nat]
    /\ stop \in {"no", "marked", "closed"} /\ now \in 0..MaxTime
    /\ fired \subseteq Made /\ revoked \subseteq Made

Init ==
    /\ task = [n \in {} |-> 0]
    /\ heap = {}
    /\ byKey = [k \in Keys |-> None]
    /\ driver = [at |-> "collect", ready |-> {}, timer |-> Never]
    /\ wake = [ch |-> FALSE, callers |-> 0]
    /\ stop = "no"
    /\ now = 0
    /\ fired = {} /\ revoked = {}

Kill(n) == IF n = None THEN task ELSE [task EXCEPT ![n].dead = TRUE]
Revoke(n) == revoked' = revoked \cup ({n} \ {None})
Waking == wake' = [wake EXCEPT !.callers = @ + 1]

\* Schedule, up to the unlock: the key's old task is marked dead, not removed.
Schedule(k, at) ==
    LET n == Cardinality(Made) + 1 IN
    /\ stop = "no" /\ n \in Tasks
    /\ task' = [m \in Made \cup {n} |->
                   IF m = n THEN [key |-> k, at |-> at, dead |-> FALSE] ELSE Kill(byKey[k])[m]]
    /\ heap' = heap \cup {n}
    /\ byKey' = [byKey EXCEPT ![k] = n]
    /\ Revoke(byKey[k])
    /\ Waking
    /\ UNCHANGED <<driver, stop, now, fired>>

Cancel(k) ==
    /\ byKey[k] # None
    /\ task' = Kill(byKey[k])
    /\ byKey' = [byKey EXCEPT ![k] = None]
    /\ Revoke(byKey[k])
    /\ Waking
    /\ UNCHANGED <<heap, driver, stop, now, fired>>

\* Mutant of Wake: the token is only kept while the driver sleeps.
WakeOnlySleeper ==
    /\ wake.callers > 0
    /\ wake' = [ch |-> wake.ch \/ driver.at = "sleep", callers |-> wake.callers - 1]
    /\ UNCHANGED <<task, heap, byKey, driver, stop, now, fired, revoked>>

\* wake(): the token is dropped when there is one.
Wake ==
    /\ wake.callers > 0
    /\ wake' = [ch |-> TRUE, callers |-> wake.callers - 1]
    /\ UNCHANGED <<task, heap, byKey, driver, stop, now, fired, revoked>>

\* Stop: mark, then close stopCh.  Tasks already collected still start.
Stop ==
    /\ stop # "closed"
    /\ stop' = IF stop = "no" THEN "marked" ELSE "closed"
    /\ UNCHANGED <<task, heap, byKey, driver, wake, now, fired, revoked>>

\* run, under the mutex: pop dead and due tasks off the top of the heap until
\* a live task that is not due, whose time the timer will be set to.
Later == {n \in heap : ~task[n].dead /\ task[n].at > now}
NextAt == IF Later = {} THEN Never
          ELSE CHOOSE t \in {task[n].at : n \in Later} : \A n \in Later : t <= task[n].at
Popped == {n \in heap : task[n].at <= now \/ (task[n].dead /\ task[n].at < NextAt)}
Due == {n \in Popped : ~task[n].dead}

\* Mutant of Collect: the key of a due task keeps pointing at it.
CollectKeepsKey ==
    /\ driver.at = "collect"
    /\ heap' = heap \ Popped
    /\ task' = [n \in Made |-> IF n \in Due THEN [task[n] EXCEPT !.dead = TRUE] ELSE task[n]]
    /\ driver' = [at |-> "start", ready |-> Due, timer |-> NextAt]
    /\ UNCHANGED <<byKey, wake, stop, now, fired, revoked>>

Collect ==
    /\ driver.at = "collect"
    /\ heap' = heap \ Popped
    /\ task' = [n \in Made |-> IF n \in Due THEN [task[n] EXCEPT !.dead = TRUE] ELSE task[n]]
    /\ byKey' = [k \in Keys |-> IF \E n \in Due : task[n].key = k THEN None ELSE byKey[k]]
    /\ driver' = [at |-> "start", ready |-> Due, timer |-> NextAt]
    /\ UNCHANGED <<wake, stop, now, fired, revoked>>

\* run, outside the mutex: start the callbacks and set the timer.
StartReady ==
    /\ driver.at = "start"
    /\ fired' = fired \cup driver.ready
    /\ driver' = [driver EXCEPT !.at = "sleep", !.ready = {}]
    /\ UNCHANGED <<task, heap, byKey, wake, stop, now, revoked>>

\* The select: the timer, a token, or the end.
Awake ==
    /\ driver.at = "sleep"
    /\ \/ /\ driver.timer <= now
          /\ driver' = [driver EXCEPT !.at = "collect"] /\ UNCHANGED wake
       \/ /\ wake.ch
          /\ driver' = [driver EXCEPT !.at = "collect"]
          /\ wake' = [wake EXCEPT !.ch = FALSE]
       \/ /\ stop = "closed"
          /\ driver' = [driver EXCEPT !.at = "exited"] /\ UNCHANGED wake
    /\ UNCHANGED <<task, heap, byKey, stop, now, fired, revoked>>

Tick ==
    /\ now < MaxTime
    /\ now' = now + 1
    /\ UNCHANGED <<task, heap, byKey, driver, wake, stop, fired, revoked>>

Drive == Collect \/ StartReady \/ Awake

Next ==
    \/ \E k \in Keys : Cancel(k) \/ \E at \in now..MaxTime : Schedule(k, at)
    \/ Wake \/ Stop \/ Drive \/ Tick

\* The driver runs on, a woken caller sends its token and time passes.
Fairness == WF_vars(Wake) /\ WF_vars(Drive) /\ WF_vars(Tick)

Spec == Init /\ [][Next]_vars /\ Fairness

-----------------------------------------------------------------------------
(* Properties *)

\* delayqueue.go:100, 123: a task that Cancel or Schedule reported as cancelled
\* or replaced never runs, also when the driver was collecting it; and no task
\* runs twice.
RevokedNeverFires == (fired \cup driver.ready) \cap revoked = {} /\ fired \cap driver.ready = {}

\* delayqueue.go:98-99: a scheduled task fires unless it is cancelled, replaced
\* or the queue stopped, however the calls race with the sleeping driver.
Served(n) == n \in Made /\ stop = "no" => n \in fired \cup revoked
TasksFire == \A n \in Tasks : []<>Served(n)

-----------------------------------------------------------------------------
(* The inductive invariant behind RevokedNeverFires. *)

\* Tasks are numbered in turn; a key points at a live task of its own in the
\* heap; and a task that was started or revoked is dead and out of reach.
TaskInv ==
    /\ Made = 1..Cardinality(Made)
    /\ \A k \in Keys : byKey[k] # None =>
          byKey[k] \in heap /\ ~task[byKey[k]].dead /\ task[byKey[k]].key = k
    /\ \A n \in revoked : task[n].dead
    /\ (fired \cup driver.ready) \cap heap = {}

IInv == TypeOK /\ TaskInv /\ RevokedNeverFires
=============================================================================
