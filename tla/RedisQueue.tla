----------------------------- MODULE RedisQueue -----------------------------
(***************************************************************************)
(* contrib/redisqueue: a job queue kept in Redis.  Each process runs a     *)
(* consumer, a delay scheduler and a stalled-job checker, and may clean    *)
(* up; every Redis command is a step of its own, since only Submit groups  *)
(* them.  A job is moved by removing it from one set and then adding it to *)
(* another, so it can get lost in between: with a process that stops (by a *)
(* crash, or because its ctx is cancelled, after which every command       *)
(* fails), or by a command that fails, since no command is retried and the *)
(* errors of most are not even looked at.  redisqueue.go:5-7 and 17        *)
(* promise more: no loss by a crash, and a Lua script for every move.      *)
(* Times are left to chance: a delayed job may be due, a lock run out, at  *)
(* any moment.                                                             *)
(* Of the stored Job only Attempts matters to the control.                 *)
(***************************************************************************)
EXTENDS Integers

CONSTANTS
    Jobs, Procs, None,
    Loops,        \* the processes whose two background loops are not idle
    Cleaners,     \* the processes that call Clean
    MaxRetries,   \* Job.MaxRetries
    MaxStops,     \* bound on the stops of processes
    MaxErrors,    \* bound on the commands that fail
    MaxExpiries   \* bound on the locks that run out under a live worker

VARIABLES
    db,     \* the keys in Redis: sets of job ids, the locks, the job data
    go,     \* go[p][g]: goroutine g of process p
    fate,   \* fate[j]: history: "open" from Submit until it ended or was lost, or
            \* "reset" when an old Attempts was written over a newer one
    budget  \* the stops, errors and expiries left

vars == <<db, go, fate, budget>>

Sets == {"waiting", "delayed", "active", "completed", "failed"}
Goroutines == {"worker", "scheduler", "checker", "cleaner"}

\* A goroutine has a place in its code, a job, the Attempts it read, and those
\* that ReportProgress read, the ids it has yet to go through and the set its
\* job is to be put into; a worker is bare when its job was not added to active.
Idle == [at |-> "idle", job |-> None, copy |-> 0, seen |-> 0, ids |-> {}, to |-> None,
         bare |-> FALSE]

Places == {"idle", "popped", "listed", "locked", "read", "run", "report", "reported", "ran", "place",
           "save", "next", "removed", "saved", "stalled", "remove", "spopped"}
Routine == [at : Places, job : Jobs \cup {None}, copy : 0..MaxRetries, seen : 0..MaxRetries,
            ids : SUBSET Jobs, to : Sets \cup {None}, bare : BOOLEAN]
Keys == Sets \cup {"lock"}
Redis ==
    /\ DOMAIN db = Keys \cup {"data"}
    /\ \A k \in Keys : db[k] \subseteq Jobs
    /\ db.data \in [Jobs -> 0..MaxRetries \cup {None}]
TypeOK ==
    /\ Redis
    /\ go \in [Procs -> [Goroutines -> Routine]]
    /\ fate \in [Jobs -> {"none", "open", "reset", "ended", "lost"}]
    /\ budget \in [stops : 0..MaxStops, errors : 0..MaxErrors, expiries : 0..MaxExpiries]

Init ==
    /\ db = [k \in Keys \cup {"data"} |->
                IF k = "data" THEN [j \in Jobs |-> None] ELSE {}]
    /\ go = [p \in Procs |-> [g \in Goroutines |-> Idle]]
    /\ fate = [j \in Jobs |-> "none"]
    /\ budget = [stops |-> MaxStops, errors |-> MaxErrors, expiries |-> MaxExpiries]

\* ZADD or SADD; ZREM, ZPOPMIN, SREM or DEL of a lock; SET of the job's data.
Add(k, j) == db' = [db EXCEPT ![k] = @ \cup {j}]
Rem(k, j) == db' = [db EXCEPT ![k] = @ \ {j}]
Save(j, n) ==
    /\ db' = [db EXCEPT !.data[j] = n]
    /\ fate' = IF fate[j] = "open" /\ db.data[j] # None /\ n < db.data[j]
               THEN [fate EXCEPT ![j] = "reset"] ELSE fate
NoCommand == db' = db

Move(p, g, next) == go' = [go EXCEPT ![p][g] = next] /\ UNCHANGED budget
Goto(p, g, next) == Move(p, g, next) /\ UNCHANGED fate

\* Submit of a new ID, in one pipeline.  One that fails is the caller's affair: it
\* leaves the data behind at most, or is as good as one that succeeded.
Submit(j, k) ==
    /\ fate[j] = "none"
    /\ db' = [db EXCEPT !.data[j] = 0, ![k] = @ \cup {j}]
    /\ fate' = [fate EXCEPT ![j] = "open"]
    /\ UNCHANGED <<go, budget>>

\* Attempts + 1; once it has reached MaxRetries, all numbers are alike.
Count(n) == IF n < MaxRetries THEN n + 1 ELSE n

\* dequeue: ZPOPMIN, then SADD active, then SET lock.
Dequeue(p) ==
    LET w == go[p]["worker"] IN
    \/ /\ w.at = "idle"
       /\ \E j \in db.waiting :
             Goto(p, "worker", [Idle EXCEPT !.at = "popped", !.job = j]) /\ Rem("waiting", j)
    \/ w.at = "popped" /\ Goto(p, "worker", [w EXCEPT !.at = "listed"]) /\ Add("active", w.job)
    \/ w.at = "listed" /\ Goto(p, "worker", [w EXCEPT !.at = "locked"]) /\ Add("lock", w.job)

\* Where the job of a worker goes when the handler succeeds, or fails.
Outcomes(w) == {"completed", IF w.copy < MaxRetries THEN "delayed" ELSE "failed"}

\* processJob: read the data (a job cleaned meanwhile is left as it is), count
\* and save the attempt, run the handler, whose panic is an error, and delete
\* the lock; then move the job from active to where its outcome says, and save.
ProcessJob(p) ==
    LET w == go[p]["worker"] IN
    \/ /\ w.at = "locked" /\ NoCommand
       /\ Goto(p, "worker", IF db.data[w.job] = None THEN Idle
                            ELSE [w EXCEPT !.at = "read", !.copy = db.data[w.job]])
    \/ w.at = "read" /\ Move(p, "worker", [w EXCEPT !.at = "run"]) /\ Save(w.job, Count(w.copy))
    \/ /\ w.at \in {"run", "reported"} /\ Rem("lock", w.job)
       /\ \E k \in Outcomes(w) :
             Goto(p, "worker", [w EXCEPT !.at = "ran", !.to = k, !.seen = 0])
    \/ w.at = "ran" /\ Goto(p, "worker", [w EXCEPT !.at = "place"]) /\ Rem("active", w.job)
    \/ /\ w.at = "place" /\ Add(w.to, w.job)
       /\ go' = [go EXCEPT ![p]["worker"].at = "save"]
       /\ fate' = IF w.to = "delayed" THEN fate ELSE [fate EXCEPT ![w.job] = "ended"]
       /\ UNCHANGED budget
    \/ w.at = "save" /\ Move(p, "worker", Idle) /\ Save(w.job, Count(w.copy))

\* ReportProgress, called by the handler (once a run): the job is read and written
\* back with its new progress, over whatever was saved or cleaned in between.
ReportProgress(p) ==
    LET w == go[p]["worker"] IN
    \/ /\ w.at = "run" /\ db.data[w.job] # None /\ NoCommand
       /\ Goto(p, "worker", [w EXCEPT !.at = "report", !.seen = db.data[w.job]])
    \/ w.at = "report" /\ Move(p, "worker", [w EXCEPT !.at = "reported"]) /\ Save(w.job, w.seen)

\* The loop over the ids that were listed.
Pick(p, g, j, place) ==
    /\ j \in go[p][g].ids
    /\ Goto(p, g, [go[p][g] EXCEPT !.at = place, !.job = j, !.ids = @ \ {j}])
After(ids) == IF ids = {} THEN Idle ELSE [Idle EXCEPT !.at = "next", !.ids = ids]
Continue(p, g, ids) == Goto(p, g, After(ids))

\* What the two loops do with a job: read it (skipping one without data), save
\* it and add it to waiting.
Read(p, g, next) ==
    LET s == go[p][g] IN
    IF db.data[s.job] = None THEN Continue(p, g, s.ids)
    ELSE Goto(p, g, [s EXCEPT !.at = next, !.copy = db.data[s.job]])
Requeue(p, g) ==
    LET s == go[p][g] IN
    \/ s.at = "read" /\ Move(p, g, [s EXCEPT !.at = "saved"]) /\ Save(s.job, s.copy)
    \/ s.at = "saved" /\ Continue(p, g, s.ids) /\ Add("waiting", s.job)

\* Mutant of DelayScheduler: the job is taken out and never added to waiting.
SchedulerOnlyRemoves(p) ==
    LET s == go[p]["scheduler"] IN
    \/ /\ s.at = "idle" /\ NoCommand
       /\ \E due \in (SUBSET db.delayed) \ {{}} :
             Goto(p, "scheduler", [Idle EXCEPT !.at = "next", !.ids = due])
    \/ s.at = "next" /\ \E j \in Jobs : Pick(p, "scheduler", j, "removed") /\ Rem("delayed", j)
    \/ s.at = "removed" /\ Continue(p, "scheduler", s.ids) /\ NoCommand

\* delayScheduler: list the due jobs and remove each from delayed first.
DelayScheduler(p) ==
    LET s == go[p]["scheduler"] IN
    \/ /\ s.at = "idle" /\ NoCommand
       /\ \E due \in (SUBSET db.delayed) \ {{}} :
             Goto(p, "scheduler", [Idle EXCEPT !.at = "next", !.ids = due])
    \/ s.at = "next" /\ \E j \in Jobs : Pick(p, "scheduler", j, "removed") /\ Rem("delayed", j)
    \/ s.at = "removed" /\ Read(p, "scheduler", "read") /\ NoCommand
    \/ Requeue(p, "scheduler")

\* stalledChecker: list the active jobs; one whose lock is gone is read and
\* removed from active.
StalledChecker(p) ==
    LET c == go[p]["checker"] IN
    \/ /\ c.at = "idle" /\ db.active # {} /\ NoCommand
       /\ Goto(p, "checker", [Idle EXCEPT !.at = "next", !.ids = db.active])
    \/ /\ c.at = "next" /\ NoCommand
       /\ \E j \in c.ids :
             IF j \in db.lock THEN Continue(p, "checker", c.ids \ {j})
             ELSE Pick(p, "checker", j, "stalled")
    \/ c.at = "stalled" /\ Read(p, "checker", "remove") /\ NoCommand
    \/ c.at = "remove" /\ Goto(p, "checker", [c EXCEPT !.at = "read"]) /\ Rem("active", c.job)
    \/ Requeue(p, "checker")

\* Clean: SPOP a finished job, then DEL its data.
Clean(p) ==
    LET c == go[p]["cleaner"] IN
    \/ /\ c.at = "idle"
       /\ \E k \in {"completed", "failed"} : \E j \in db[k] :
             Goto(p, "cleaner", [Idle EXCEPT !.at = "spopped", !.job = j]) /\ Rem(k, j)
    \/ /\ c.at = "spopped" /\ Goto(p, "cleaner", Idle)
       /\ db' = [db EXCEPT !.data[c.job] = None]

\* VisibilityTime passes: nothing renews the lock of a slow handler.  Only the
\* expiries that overtake a live worker are counted.
Orphaned(j) == \A p \in Procs : go[p]["worker"].job # j
LockExpires(j) ==
    /\ j \in db.lock
    /\ Orphaned(j) \/ budget.expiries > 0
    /\ budget' = IF Orphaned(j) THEN budget ELSE [budget EXCEPT !.expiries = @ - 1]
    /\ Rem("lock", j)
    /\ UNCHANGED <<go, fate>>

\* The jobs that p has taken from one set and not yet put into another.
Holding(g) ==
    CASE g = "worker" -> {"popped", "place"}
      [] g = "scheduler" -> {"removed", "read", "saved"}
      [] g = "checker" -> {"read", "saved"}
      [] g = "cleaner" -> {}
Working == {"listed", "locked", "read", "run", "report", "reported", "ran"}
Holds(g, s) == s.at \in Holding(g) \/ (g = "worker" /\ s.bare /\ s.at \in Working)
InHand(p) == {go[p][g].job : g \in {g \in Goroutines : Holds(g, go[p][g])}}

\* Whether j is in a set or in the hands of one of the processes.
Placed(j, procs) == (\E k \in Sets : j \in db[k]) \/ \E p \in procs : j \in InHand(p)

\* The process stops and is started again.
Stop(p) ==
    /\ budget.stops > 0
    /\ budget' = [budget EXCEPT !.stops = @ - 1]
    /\ fate' = [j \in Jobs |->
          IF fate[j] \in {"open", "reset"} /\ j \in InHand(p) /\ ~Placed(j, Procs \ {p})
          THEN "lost" ELSE fate[j]]
    /\ go' = [go EXCEPT ![p] = [g \in Goroutines |-> Idle]]
    /\ UNCHANGED db

\* A command of goroutine g fails, and it goes on as next.
Fail(p, g, next) ==
    /\ budget.errors > 0
    /\ budget' = [budget EXCEPT !.errors = @ - 1]
    /\ go' = [go EXCEPT ![p][g] = next]

\* The commands whose failure leaves every job where it is: the error is not
\* looked at and the code goes on as if the command had done its work (EXISTS: as
\* if there were no lock), or it is, and the iteration or the call ends.  A command
\* that has done its work and whose answer is lost is then no different.
ErrorIgnored(p) ==
    LET w == go[p]["worker"]
        s == go[p]["scheduler"]
        c == go[p]["checker"]
    IN
    /\ NoCommand /\ UNCHANGED fate
    /\ \/ w.at = "popped" /\ Fail(p, "worker", [w EXCEPT !.at = "listed", !.bare = TRUE])
       \/ w.at = "listed" /\ Fail(p, "worker", [w EXCEPT !.at = "locked"])
       \/ w.at = "read" /\ Fail(p, "worker", [w EXCEPT !.at = "run"])
       \/ w.at = "report" /\ Fail(p, "worker", [w EXCEPT !.at = "reported"])
       \/ /\ w.at \in {"run", "reported"}
          /\ \E k \in Outcomes(w) :
                Fail(p, "worker", [w EXCEPT !.at = "ran", !.to = k, !.seen = 0])
       \/ w.at = "ran" /\ Fail(p, "worker", [w EXCEPT !.at = "place"])
       \/ w.at = "save" /\ Fail(p, "worker", Idle)
       \/ /\ s.at = "next"
          /\ \E j \in s.ids :
                Fail(p, "scheduler", [s EXCEPT !.at = "removed", !.job = j, !.ids = @ \ {j}])
       \/ s.at = "read" /\ Fail(p, "scheduler", [s EXCEPT !.at = "saved"])
       \/ /\ c.at = "next"
          /\ \E j \in c.ids :
                Fail(p, "checker", [c EXCEPT !.at = "stalled", !.job = j, !.ids = @ \ {j}])
       \/ c.at = "stalled" /\ Fail(p, "checker", After(c.ids))
       \/ c.at = "remove" /\ Fail(p, "checker", [c EXCEPT !.at = "read"])
       \/ c.at = "read" /\ Fail(p, "checker", [c EXCEPT !.at = "saved"])
       \/ go[p]["cleaner"].at = "spopped" /\ Fail(p, "cleaner", Idle)

\* The commands whose failure takes job j along, if it is nowhere else: ZPOPMIN
\* when its answer is lost, GET when its caller has removed the job from its set
\* (or never added it to active), and the ZADD or SADD that ends a move.
Drop(p, g, j, next) ==
    /\ Fail(p, g, next)
    /\ fate' = IF fate[j] \in {"open", "reset"} /\ ~Placed(j, Procs)'
               THEN [fate EXCEPT ![j] = "lost"] ELSE fate
ErrorDrops(p, j) ==
    LET w == go[p]["worker"] IN
    \/ w.at = "idle" /\ j \in db.waiting /\ Rem("waiting", j) /\ Drop(p, "worker", j, w)
    \/ w.at = "locked" /\ w.job = j /\ NoCommand /\ Drop(p, "worker", j, Idle)
    \/ w.at = "place" /\ w.job = j /\ NoCommand /\ Drop(p, "worker", j, [w EXCEPT !.at = "save"])
    \/ \E g \in {"scheduler", "checker"} :
          /\ go[p][g].at = "saved" \/ (g = "scheduler" /\ go[p][g].at = "removed")
          /\ go[p][g].job = j /\ NoCommand /\ Drop(p, g, j, After(go[p][g].ids))

Consume(p) == Dequeue(p) \/ ProcessJob(p) \/ (go[p]["worker"].at = "report" /\ ReportProgress(p))

Next ==
    \/ \E j \in Jobs, k \in {"waiting", "delayed"} : Submit(j, k)
    \/ \E p \in Procs : Consume(p) \/ ReportProgress(p) \/ Stop(p) \/ ErrorIgnored(p)
    \/ \E p \in Procs, j \in Jobs : ErrorDrops(p, j)
    \/ \E p \in Loops : DelayScheduler(p) \/ StalledChecker(p)
    \/ \E p \in Cleaners : Clean(p)
    \/ \E j \in Jobs : LockExpires(j)

\* Processes run on, and the lock of a job nobody works on runs out.
Fairness ==
    /\ \A p \in Procs : WF_vars(Consume(p))
    /\ \A p \in Loops : WF_vars(DelayScheduler(p)) /\ WF_vars(StalledChecker(p))
    /\ \A j \in Jobs : WF_vars(Orphaned(j) /\ LockExpires(j))

Spec == Init /\ [][Next]_vars /\ Fairness

-----------------------------------------------------------------------------
(* Properties *)

\* redisqueue.go:241-416: a submitted job that has not ended is in one of the
\* sets or in the hands of a process, unless the process that had it in hand
\* stopped or one of the commands of ErrorDrops failed for it: no other failure,
\* no duplicate, no stalled re-delivery, no expiry and no cleaning loses a job.
Alive == {j \in Jobs : fate[j] \in {"open", "reset"}}
JobIsSomewhere == \A j \in Alive : Placed(j, Procs)

\* redisqueue.go:7: a submitted job that was not lost between two sets ends, also
\* when the process that ran it stopped; unless a loop or ReportProgress wrote
\* back an old Attempts, which can go on for ever.
JobEnds == \A j \in Jobs : []<>(fate[j] # "open")

-----------------------------------------------------------------------------
(* The inductive invariant behind JobIsSomewhere.  The loops skip a job without *)
(* data after they have removed it from its set: no job that is still the       *)
(* queue's may be without, and only Clean deletes data, of a job that ended.    *)

DataInv ==
    /\ \A j \in Alive : db.data[j] # None
    /\ \A j \in db.completed \cup db.failed : fate[j] \in {"ended", "lost"}

\* A goroutine that is not idle has a job, or ids to choose it from; only jobs
\* that ended are cleaned.
HandInv ==
    \A p \in Procs, g \in Goroutines :
        /\ go[p][g].at \notin {"idle", "next"} => go[p][g].job \in Jobs
        /\ go[p][g].at \in {"ran", "place"} => go[p][g].to \in {"completed", "delayed", "failed"}
        /\ go[p][g].at = "spopped" => fate[go[p][g].job] \in {"ended", "lost"}

IInv == TypeOK /\ DataInv /\ HandInv /\ JobIsSomewhere
=============================================================================
