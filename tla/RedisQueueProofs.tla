-------------------------- MODULE RedisQueueProofs --------------------------
(***************************************************************************)
(* Proof that contrib/redisqueue loses no job but those that a stop, or    *)
(* one of the failed commands of ErrorDrops, takes along while they are in *)
(* no set, for any number of jobs, processes, retries, stops, failed       *)
(* commands and expiries of locks.                                         *)
(*                                                                         *)
(* A step of a goroutine is a command of Redis and a change of its place.  *)
(* NoneDropped says when that keeps every job somewhere; GotoKeeps and     *)
(* SaveKeeps are the two kinds of steps, StillKeeps and DropKeeps the two  *)
(* kinds of failures; the other lemmas go through the code.                *)
(***************************************************************************)
EXTENDS RedisQueue, TLAPS

\* The loops and the cleaners are those of some of the processes, and no data is
\* not a number.
Bounds ==
    /\ Loops \subseteq Procs /\ Cleaners \subseteq Procs /\ None \notin 0..MaxRetries
    /\ MaxRetries \in Nat /\ MaxStops \in Nat /\ MaxErrors \in Nat /\ MaxExpiries \in Nat

\* A goroutine that takes a job from a set, or puts one into a set, loses none
\* that is alive: what leaves a set is in its hands afterwards, and what was in
\* its hands is there still or is in a set.
LEMMA NoneDropped ==
    ASSUME TypeOK, JobIsSomewhere, Alive' \subseteq Alive,
           NEW p \in Procs, NEW g \in Goroutines, NEW next \in Routine,
           go' = [go EXCEPT ![p][g] = next],
           \A j \in Alive', k \in Sets :
               j \in db[k] => \/ \E m \in Sets : j \in db'[m]
                              \/ next.job = j /\ Holds(g, next),
           go[p][g].job \in Alive' /\ Holds(g, go[p][g]) =>
               \/ \E m \in Sets : go[p][g].job \in db'[m]
               \/ next.job = go[p][g].job /\ Holds(g, next)
    PROVE  JobIsSomewhere'
<1> SUFFICES ASSUME NEW j \in Alive'
             PROVE  Placed(j, Procs)'
  BY DEF JobIsSomewhere
<1>0. go'[p][g] = next /\ \A q \in Procs, h \in Goroutines : ~(q = p /\ h = g) => go'[q][h] = go[q][h]
  BY DEF TypeOK
<1>1. CASE next.job = j /\ Holds(g, next)
  BY <1>0, <1>1 DEF Placed, InHand
<1>2. CASE ~(next.job = j /\ Holds(g, next))
  <2>1. CASE \E k \in Sets : j \in db[k]
    BY <1>2, <2>1 DEF Placed
  <2>2. ASSUME NEW q \in Procs, j \in InHand(q)
        PROVE  Placed(j, Procs)'
    <3>1. PICK h \in Goroutines : Holds(h, go[q][h]) /\ go[q][h].job = j
      BY <2>2 DEF InHand
    <3>2. CASE q = p /\ h = g
      BY <1>2, <3>1, <3>2 DEF Placed
    <3>3. CASE ~(q = p /\ h = g)
      BY <1>0, <3>1, <3>3 DEF Placed, InHand
    <3> QED BY <3>2, <3>3
  <2> QED BY <2>1, <2>2 DEF JobIsSomewhere, Placed
<1> QED BY <1>1, <1>2

\* Every command keeps the keys of Redis typed.
LEMMA CommandTypes ==
    ASSUME Bounds, Redis, NEW j \in Jobs, NEW k \in Keys
    PROVE  /\ Add(k, j) => /\ Redis' /\ db'.data = db.data
                           /\ \A m \in Keys : db'[m] = IF m = k THEN db[m] \cup {j} ELSE db[m]
           /\ Rem(k, j) => /\ Redis' /\ db'.data = db.data
                           /\ \A m \in Keys : db'[m] = IF m = k THEN db[m] \ {j} ELSE db[m]
           /\ NoCommand => Redis' /\ db'.data = db.data /\ \A m \in Keys : db'[m] = db[m]
<1> USE DEF Redis, Keys, Sets
<1>1. Add(k, j) => /\ Redis' /\ db'.data = db.data
                   /\ \A m \in Keys : db'[m] = IF m = k THEN db[m] \cup {j} ELSE db[m]
  <2> HAVE Add(k, j)
  <2>1. db'.data = db.data /\ \A m \in Keys : db'[m] = IF m = k THEN db[m] \cup {j} ELSE db[m]
    BY DEF Add
  <2>2. DOMAIN db' = Keys \cup {"data"}
    BY DEF Add
  <2> QED BY <2>1, <2>2
<1>2. Rem(k, j) => /\ Redis' /\ db'.data = db.data
                   /\ \A m \in Keys : db'[m] = IF m = k THEN db[m] \ {j} ELSE db[m]
  BY DEF Rem
<1>3. NoCommand => Redis' /\ db'.data = db.data /\ \A m \in Keys : db'[m] = db[m]
  BY DEF NoCommand
<1> QED BY <1>1, <1>2, <1>3

\* No step brings a job back that has ended or was lost.
Steady == \A j \in Jobs : fate[j] \in {"ended", "lost"} => fate'[j] \in {"ended", "lost"}

\* Save writes a number, and may find that a job has been set back.
LEMMA SaveTypes ==
    ASSUME Bounds, TypeOK, DataInv, NEW j \in Jobs, NEW n \in 0..MaxRetries, Save(j, n)
    PROVE  /\ Redis' /\ \A m \in Keys : db'[m] = db[m]
           /\ fate' \in [Jobs -> {"none", "open", "reset", "ended", "lost"}]
           /\ Alive' = Alive /\ DataInv' /\ Steady
BY DEF Bounds, TypeOK, Redis, DataInv, Save, Alive, Steady, Sets, Keys

\* What a goroutine may become.
Sane(next) ==
    /\ next \in Routine
    /\ next.at \notin {"idle", "next"} => next.job \in Jobs
    /\ next.at \in {"ran", "place"} => next.to \in {"completed", "delayed", "failed"}
    /\ next.at = "spopped" => fate[next.job] \in {"ended", "lost"}

\* A goroutine that moves to a sane place stays typed.
LEMMA MoveTypes ==
    ASSUME Bounds, TypeOK, HandInv, NEW p \in Procs, NEW g \in Goroutines, NEW next, Sane(next),
           Move(p, g, next) \/ Fail(p, g, next), Steady
    PROVE  /\ go' \in [Procs -> [Goroutines -> Routine]] /\ HandInv'
           /\ budget' \in [stops : 0..MaxStops, errors : 0..MaxErrors, expiries : 0..MaxExpiries]
           /\ go' = [go EXCEPT ![p][g] = next] /\ next \in Routine
<1>1. go' = [go EXCEPT ![p][g] = next] /\ next \in Routine
  BY DEF Move, Fail, Sane
<1>2. go'[p][g] = next /\ \A q \in Procs, h \in Goroutines : ~(q = p /\ h = g) => go'[q][h] = go[q][h]
  BY <1>1 DEF TypeOK
<1>3. go' \in [Procs -> [Goroutines -> Routine]]
  BY <1>1 DEF TypeOK
<1>4. HandInv'
  <2> SUFFICES ASSUME NEW q \in Procs, NEW h \in Goroutines
               PROVE  /\ go'[q][h].at \notin {"idle", "next"} => go'[q][h].job \in Jobs
                      /\ go'[q][h].at \in {"ran", "place"} =>
                            go'[q][h].to \in {"completed", "delayed", "failed"}
                      /\ go'[q][h].at = "spopped" => fate'[go'[q][h].job] \in {"ended", "lost"}
    BY DEF HandInv
  <2>1. CASE q = p /\ h = g
    BY <1>2, <2>1 DEF Sane, Steady
  <2>2. CASE ~(q = p /\ h = g)
    BY <1>2, <2>2 DEF HandInv, Steady
  <2> QED BY <2>1, <2>2
<1>5. budget' \in [stops : 0..MaxStops, errors : 0..MaxErrors, expiries : 0..MaxExpiries]
  BY DEF Move, Fail, TypeOK, Bounds
<1> QED BY <1>1, <1>3, <1>4, <1>5

\* A goroutine that issues a command other than a SET of data and goes on to next,
\* or does so because the command failed.
LEMMA GotoKeeps ==
    ASSUME Bounds, IInv, NEW p \in Procs, NEW g \in Goroutines, NEW next, Sane(next),
           Goto(p, g, next) \/ (Fail(p, g, next) /\ fate' = fate), Redis', db'.data = db.data,
           \A k \in {"completed", "failed"} : db'[k] \subseteq db[k],
           \A j \in Alive, k \in Sets :
               j \in db[k] => \/ \E m \in Sets : j \in db'[m]
                              \/ next.job = j /\ Holds(g, next),
           go[p][g].job \in Alive /\ Holds(g, go[p][g]) =>
               \/ \E m \in Sets : go[p][g].job \in db'[m]
               \/ next.job = go[p][g].job /\ Holds(g, next)
    PROVE  IInv'
<1>1. fate' = fate /\ Alive' = Alive /\ (Move(p, g, next) \/ Fail(p, g, next)) /\ Steady
  BY DEF Goto, Alive, Steady
<1>2. TypeOK' /\ HandInv'
  BY <1>1, MoveTypes DEF IInv, TypeOK
<1>3. DataInv'
  BY <1>1 DEF IInv, DataInv
<1>4. JobIsSomewhere'
  <2>1. go' = [go EXCEPT ![p][g] = next] /\ next \in Routine /\ TypeOK /\ JobIsSomewhere
    BY <1>1, MoveTypes DEF IInv
  <2> QED BY <1>1, <2>1, NoneDropped
<1> QED BY <1>2, <1>3, <1>4 DEF IInv

\* A goroutine that saves a job and goes on to next, holding the job as before.
LEMMA SaveKeeps ==
    ASSUME Bounds, IInv, NEW p \in Procs, NEW g \in Goroutines, NEW next, Sane(next),
           Move(p, g, next), NEW i \in Jobs, NEW n \in 0..MaxRetries, Save(i, n),
           Holds(g, go[p][g]) => next.job = go[p][g].job /\ Holds(g, next)
    PROVE  IInv'
<1>1. TypeOK' /\ HandInv' /\ DataInv'
  BY SaveTypes, MoveTypes DEF IInv, TypeOK
<1>2. JobIsSomewhere'
  <2>1. Alive' = Alive /\ \A k \in Sets : db'[k] = db[k]
    BY SaveTypes DEF IInv, Keys
  <2>2. go' = [go EXCEPT ![p][g] = next] /\ next \in Routine /\ TypeOK /\ JobIsSomewhere
    BY MoveTypes, SaveTypes DEF IInv
  <2> QED BY <2>1, <2>2, NoneDropped
<1> QED BY <1>1, <1>2 DEF IInv


\* A count starts at zero.
LEMMA ZeroTyped == Bounds => 0 \in 0..MaxRetries
BY DEF Bounds

\* A goroutine without a job.
LEMMA IdleSane == Bounds => Idle \in Routine /\ Sane(Idle)
<1>1. Bounds => Idle \in Routine
  BY DEF Bounds, Idle, Routine, Places
<1>2. Idle.at = "idle"
  BY DEF Idle
<1> QED BY <1>1, <1>2 DEF Sane

\* The worker of a process: every command of dequeue, processJob and ReportProgress.
LEMMA WorkerKeeps ==
    ASSUME Bounds, IInv, NEW p \in Procs, Dequeue(p) \/ ProcessJob(p) \/ ReportProgress(p)
    PROVE  IInv'
<1> DEFINE w == go[p]["worker"]
<1>0. /\ w \in Routine /\ w.copy \in 0..MaxRetries /\ w.seen \in 0..MaxRetries
      /\ Redis /\ "worker" \in Goroutines /\ Count(w.copy) \in 0..MaxRetries
      /\ \A s : Holds("worker", s) <=> s.at \in {"popped", "place"} \/ (s.bare /\ s.at \in Working)
      /\ w.at \notin {"idle", "next"} => w.job \in Jobs
      /\ w.at \in {"ran", "place"} => w.to \in {"completed", "delayed", "failed"}
  BY DEF IInv, TypeOK, HandInv, Routine, Goroutines, Bounds, Count, Holding, Holds
<1>1. ASSUME NEW j \in db.waiting, Rem("waiting", j),
             Goto(p, "worker", [Idle EXCEPT !.at = "popped", !.job = j]), w.at = "idle"
      PROVE  IInv'
  <2> DEFINE next == [Idle EXCEPT !.at = "popped", !.job = j]
  <2>1. j \in Jobs
    BY <1>0 DEF Redis, Keys, Sets
  <2>2. Sane(next) /\ next.job = j /\ next.at = "popped"
    BY <2>1, IdleSane DEF Sane, Routine, Places
  <2>3. /\ Redis' /\ db'.data = db.data
        /\ \A m \in Keys : db'[m] = IF m = "waiting" THEN db[m] \ {j} ELSE db[m]
    BY <1>0, <1>1, <2>1, CommandTypes DEF Keys, Sets
  <2>4. ~Holds("worker", w) /\ Holds("worker", next)
    BY <1>0, <1>1, <2>2 DEF Working
  <2>5. \A i \in Alive, k \in Sets :
           i \in db[k] => (\E m \in Sets : i \in db'[m]) \/ (next.job = i /\ Holds("worker", next))
    BY <2>2, <2>3, <2>4 DEF Keys
  <2>6. \A k \in {"completed", "failed"} : db'[k] \subseteq db[k]
    BY <2>3 DEF Keys, Sets
  <2> QED BY <1>0, <1>1, <2>2, <2>3, <2>4, <2>5, <2>6, GotoKeeps
<1>2. CASE w.at = "popped" /\ Goto(p, "worker", [w EXCEPT !.at = "listed"]) /\ Add("active", w.job)
  <2> DEFINE next == [w EXCEPT !.at = "listed"]
  <2>1. Sane(next) /\ next.job = w.job /\ next.at = "listed"
    BY <1>0, <1>2, IdleSane DEF Sane, Routine, Places
  <2>2. /\ Redis' /\ db'.data = db.data
        /\ \A m \in Keys : db'[m] = IF m = "active" THEN db[m] \cup {w.job} ELSE db[m]
    BY <1>0, <1>2, CommandTypes DEF Keys, Sets
  <2>3. Holds("worker", w) /\ w.job \in Alive =>
           (\E m \in Sets : w.job \in db'[m]) \/ Holds("worker", next)
    BY <1>0, <1>2, <2>1, <2>2 DEF Keys, Sets, Working
  <2>4. \A i \in Alive, k \in Sets :
           i \in db[k] => (\E m \in Sets : i \in db'[m]) \/ (next.job = i /\ Holds("worker", next))
    BY <1>0, <1>2, <2>1, <2>2 DEF Keys
  <2>5. \A k \in {"completed", "failed"} : db'[k] \subseteq db[k]
    BY <2>2 DEF Keys, Sets
  <2>6. Goto(p, "worker", next)
    BY <1>2
  <2> HIDE DEF next
  <2> QED BY <1>0, <2>1, <2>2, <2>3, <2>4, <2>5, <2>6, GotoKeeps
<1>3. CASE w.at = "listed" /\ Goto(p, "worker", [w EXCEPT !.at = "locked"]) /\ Add("lock", w.job)
  <2> DEFINE next == [w EXCEPT !.at = "locked"]
  <2>1. Sane(next) /\ next.job = w.job /\ next.at = "locked" /\ next.bare = w.bare
    BY <1>0, <1>3, IdleSane DEF Sane, Routine, Places
  <2>2. /\ Redis' /\ db'.data = db.data
        /\ \A m \in Keys : db'[m] = IF m = "lock" THEN db[m] \cup {w.job} ELSE db[m]
    BY <1>0, <1>3, CommandTypes DEF Keys, Sets
  <2>3. Holds("worker", w) => Holds("worker", next)
    BY <1>0, <1>3, <2>1 DEF Working
  <2>4. \A i \in Alive, k \in Sets : i \in db[k] => \E m \in Sets : i \in db'[m]
    BY <2>2 DEF Keys, Sets
  <2>5. \A k \in {"completed", "failed"} : db'[k] \subseteq db[k]
    BY <2>2 DEF Keys, Sets
  <2>6. Goto(p, "worker", next)
    BY <1>3
  <2> HIDE DEF next
  <2> QED BY <1>0, <2>1, <2>2, <2>3, <2>4, <2>5, <2>6, GotoKeeps
<1>4. CASE /\ w.at = "locked" /\ NoCommand
           /\ Goto(p, "worker", IF db.data[w.job] = None THEN Idle
                                ELSE [w EXCEPT !.at = "read", !.copy = db.data[w.job]])
  <2> DEFINE next == IF db.data[w.job] = None THEN Idle
                     ELSE [w EXCEPT !.at = "read", !.copy = db.data[w.job]]
  <2>1. Sane(next)
    <3>1. CASE db.data[w.job] = None
      BY <3>1, IdleSane
    <3>2. CASE db.data[w.job] # None
      <4>1. db.data[w.job] \in 0..MaxRetries
        BY <1>0, <1>4, <3>2 DEF Redis
      <4>2. [w EXCEPT !.at = "read", !.copy = db.data[w.job]] \in Routine
        BY <1>0, <4>1 DEF Routine, Places
      <4> QED BY <1>0, <1>4, <3>2, <4>2 DEF Sane, Routine
    <3> QED BY <3>1, <3>2
  <2>2. Redis' /\ db'.data = db.data /\ \A m \in Keys : db'[m] = db[m]
    BY <1>0, <1>4, CommandTypes DEF Keys, Sets
  <2>3. Holds("worker", w) /\ w.job \in Alive => next.job = w.job /\ Holds("worker", next)
    <3>1. w.job \in Alive => next = [w EXCEPT !.at = "read", !.copy = db.data[w.job]]
      BY DEF IInv, DataInv
    <3>2. /\ [w EXCEPT !.at = "read", !.copy = db.data[w.job]].at = "read"
          /\ [w EXCEPT !.at = "read", !.copy = db.data[w.job]].bare = w.bare
          /\ [w EXCEPT !.at = "read", !.copy = db.data[w.job]].job = w.job
      BY <1>0 DEF Routine
    <3> QED BY <1>0, <1>4, <3>1, <3>2 DEF Working
  <2> HIDE DEF next
  <2> QED BY <1>0, <1>4, <2>1, <2>2, <2>3, GotoKeeps DEF Keys, Sets, next
<1>5. CASE w.at = "read" /\ Move(p, "worker", [w EXCEPT !.at = "run"]) /\ Save(w.job, Count(w.copy))
  <2>1. Sane([w EXCEPT !.at = "run"])
    BY <1>0, <1>5, IdleSane DEF Sane, Routine, Places
  <2>2. [w EXCEPT !.at = "run"].job = w.job /\ [w EXCEPT !.at = "run"].at = "run"
        /\ [w EXCEPT !.at = "run"].bare = w.bare
    BY <1>0 DEF Routine
  <2>3. Holds("worker", w) => Holds("worker", [w EXCEPT !.at = "run"])
    BY <1>0, <1>5, <2>2 DEF Working
  <2>4. PICK i \in Jobs, n \in 0..MaxRetries : Save(i, n)
    BY <1>0, <1>5
  <2>5. PICK next : /\ Sane(next) /\ Move(p, "worker", next) /\ next.job = w.job
                    /\ Holds("worker", w) => Holds("worker", next)
    BY <1>5, <2>1, <2>2, <2>3
  <2> QED BY <1>0, <2>4, <2>5, SaveKeeps
<1>6. ASSUME NEW k \in {"completed", "delayed", "failed"}, w.at \in {"run", "reported"},
             Goto(p, "worker", [w EXCEPT !.at = "ran", !.to = k, !.seen = 0]), Rem("lock", w.job)
      PROVE  IInv'
  <2> DEFINE next == [w EXCEPT !.at = "ran", !.to = k, !.seen = 0]
  <2>0. k \in Sets \cup {None} /\ 0 \in 0..MaxRetries
    BY DEF Sets, Bounds
  <2>1. Sane(next) /\ next.job = w.job /\ next.at = "ran" /\ next.bare = w.bare
    <3>1. next \in Routine /\ next.at = "ran" /\ next.to = k /\ next.job = w.job
          /\ next.bare = w.bare
      BY <1>0, <2>0 DEF Routine, Places
    <3> QED BY <1>0, <1>6, <3>1 DEF Sane
  <2>2. /\ Redis' /\ db'.data = db.data
        /\ \A m \in Keys : db'[m] = IF m = "lock" THEN db[m] \ {w.job} ELSE db[m]
    BY <1>0, <1>6, CommandTypes DEF Keys, Sets
  <2>3. Holds("worker", w) => Holds("worker", next)
    BY <1>0, <1>6, <2>1 DEF Working
  <2>4. \A i \in Alive, n \in Sets : i \in db[n] => \E m \in Sets : i \in db'[m]
    BY <2>2 DEF Keys, Sets
  <2>5. \A n \in {"completed", "failed"} : db'[n] \subseteq db[n]
    BY <2>2 DEF Keys, Sets
  <2>6. Goto(p, "worker", next)
    BY <1>6
  <2> HIDE DEF next
  <2> QED BY <1>0, <2>1, <2>2, <2>3, <2>4, <2>5, <2>6, GotoKeeps
<1>7. CASE w.at = "ran" /\ Goto(p, "worker", [w EXCEPT !.at = "place"]) /\ Rem("active", w.job)
  <2> DEFINE next == [w EXCEPT !.at = "place"]
  <2>1. Sane(next) /\ next.job = w.job /\ next.at = "place"
    BY <1>0, <1>7, IdleSane DEF Sane, Routine, Places
  <2>2. /\ Redis' /\ db'.data = db.data
        /\ \A m \in Keys : db'[m] = IF m = "active" THEN db[m] \ {w.job} ELSE db[m]
    BY <1>0, <1>7, CommandTypes DEF Keys, Sets
  <2>3. Holds("worker", w) /\ w.job \in Alive =>
           (\E m \in Sets : w.job \in db'[m]) \/ Holds("worker", next)
    BY <1>0, <1>7, <2>1, <2>2 DEF Keys, Sets, Working
  <2>4. \A i \in Alive, k \in Sets :
           i \in db[k] => (\E m \in Sets : i \in db'[m]) \/ (next.job = i /\ Holds("worker", next))
    BY <1>0, <1>7, <2>1, <2>2 DEF Keys
  <2>5. \A k \in {"completed", "failed"} : db'[k] \subseteq db[k]
    BY <2>2 DEF Keys, Sets
  <2>6. Goto(p, "worker", next)
    BY <1>7
  <2> HIDE DEF next
  <2> QED BY <1>0, <2>1, <2>2, <2>3, <2>4, <2>5, <2>6, GotoKeeps
<1>8. CASE /\ w.at = "place" /\ Add(w.to, w.job)
           /\ go' = [go EXCEPT ![p]["worker"].at = "save"]
           /\ fate' = IF w.to = "delayed" THEN fate ELSE [fate EXCEPT ![w.job] = "ended"]
           /\ UNCHANGED budget
  <2> DEFINE next == [w EXCEPT !.at = "save"]
  <2>0. w.to \in Sets /\ w.to \in Keys /\ w.job \in Jobs /\ Add(w.to, w.job)
    BY <1>0, <1>8 DEF Keys, Sets
  <2>1. Sane(next) /\ next \in Routine
    BY <1>0, <1>8 DEF Sane, Routine, Places
  <2>2. go' = [go EXCEPT ![p]["worker"] = next]
    BY <1>0, <1>8 DEF IInv, TypeOK
  <2>3. /\ Redis' /\ db'.data = db.data
        /\ \A m \in Keys : db'[m] = IF m = w.to THEN db[m] \cup {w.job} ELSE db[m]
    <3>1. PICK k \in Keys, j \in Jobs : k = w.to /\ j = w.job
      BY <2>0
    <3>2. Add(k, j)
      BY <2>0, <3>1
    <3>3. /\ Redis' /\ db'.data = db.data
          /\ \A m \in Keys : db'[m] = IF m = k THEN db[m] \cup {j} ELSE db[m]
      BY <1>0, <3>2, CommandTypes
    <3> QED BY <3>1, <3>3
  <2>a. Move(p, "worker", next) /\ w.job \in db'[w.to]
    BY <1>8, <2>0, <2>2, <2>3 DEF Move
  <2>4. /\ fate' \in [Jobs -> {"none", "open", "reset", "ended", "lost"}]
        /\ \A i \in Jobs : fate'[i] = fate[i] \/ fate'[i] = "ended"
        /\ w.to # "delayed" => fate'[w.job] = "ended"
    BY <1>0, <1>8 DEF IInv, TypeOK
  <2>5. Alive' \subseteq Alive
    BY <2>4 DEF Alive
  <2>6. TypeOK' /\ HandInv'
    BY <1>0, <2>1, <2>a, <2>3, <2>4, MoveTypes DEF IInv, TypeOK, Steady
  <2>7. DataInv'
    BY <1>0, <1>8, <2>3, <2>4, <2>5 DEF IInv, DataInv, Keys, Sets, Alive, Redis
  <2>8. \A j \in Jobs, k \in Sets : j \in db[k] => j \in db'[k]
    BY <2>3 DEF Keys
  <2>9. JobIsSomewhere'
    <3>1. \A j \in Alive', k \in Sets : j \in db[k] => \E m \in Sets : j \in db'[m]
      BY <2>8 DEF Alive
    <3>2. TypeOK /\ JobIsSomewhere
      BY DEF IInv
    <3>3. \E m \in Sets : w.job \in db'[m]
      BY <2>0, <2>a
    <3> QED BY <1>0, <2>1, <2>2, <2>5, <3>1, <3>2, <3>3, NoneDropped
  <2> QED BY <2>6, <2>7, <2>9 DEF IInv
<1>9. CASE w.at = "save" /\ Move(p, "worker", Idle) /\ Save(w.job, Count(w.copy))
  <2>1. Sane(Idle)
    BY <1>0, <1>9, IdleSane DEF Sane, Routine, Places
  <2>2. ~Holds("worker", w) /\ w.job \in Jobs
    BY <1>0, <1>9 DEF Working
  <2> QED BY <1>0, <1>9, <2>1, <2>2, SaveKeeps
<1>10. CASE /\ w.at = "run" /\ db.data[w.job] # None /\ NoCommand
            /\ Goto(p, "worker", [w EXCEPT !.at = "report", !.seen = db.data[w.job]])
  <2> DEFINE next == [w EXCEPT !.at = "report", !.seen = db.data[w.job]]
  <2>1. Sane(next) /\ next.job = w.job /\ next.at = "report" /\ next.bare = w.bare
    BY <1>0, <1>10 DEF Sane, Routine, Places, Redis
  <2>2. Redis' /\ db'.data = db.data /\ \A m \in Keys : db'[m] = db[m]
    BY <1>0, <1>10, CommandTypes DEF Keys, Sets
  <2>3. Holds("worker", w) => Holds("worker", next)
    BY <1>0, <1>10, <2>1 DEF Working
  <2>4. \A i \in Alive, k \in Sets : i \in db[k] => \E m \in Sets : i \in db'[m]
    BY <2>2 DEF Keys, Sets
  <2>5. \A k \in {"completed", "failed"} : db'[k] \subseteq db[k]
    BY <2>2 DEF Keys, Sets
  <2>6. Goto(p, "worker", next)
    BY <1>10
  <2> HIDE DEF next
  <2> QED BY <1>0, <2>1, <2>2, <2>3, <2>4, <2>5, <2>6, GotoKeeps
<1>11. CASE w.at = "report" /\ Move(p, "worker", [w EXCEPT !.at = "reported"]) /\ Save(w.job, w.seen)
  <2>1. Sane([w EXCEPT !.at = "reported"])
    BY <1>0, <1>11, IdleSane DEF Sane, Routine, Places
  <2>2. [w EXCEPT !.at = "reported"].job = w.job /\ [w EXCEPT !.at = "reported"].at = "reported"
        /\ [w EXCEPT !.at = "reported"].bare = w.bare
    BY <1>0 DEF Routine
  <2>3. Holds("worker", w) => Holds("worker", [w EXCEPT !.at = "reported"])
    BY <1>0, <1>11, <2>2 DEF Working
  <2>4. PICK i \in Jobs, n \in 0..MaxRetries : Save(i, n)
    BY <1>0, <1>11
  <2>5. PICK next : /\ Sane(next) /\ Move(p, "worker", next) /\ next.job = w.job
                    /\ Holds("worker", w) => Holds("worker", next)
    BY <1>11, <2>1, <2>2, <2>3
  <2> QED BY <1>0, <2>4, <2>5, SaveKeeps
<1>12. ASSUME Dequeue(p) PROVE IInv'
  BY <1>12, <1>1, <1>2, <1>3 DEF Dequeue
<1>13. ASSUME ProcessJob(p) PROVE IInv'
  BY <1>13, <1>4, <1>5, <1>6, <1>7, <1>8, <1>9 DEF ProcessJob, Outcomes
<1>14. ASSUME ReportProgress(p) PROVE IInv'
  BY <1>14, <1>10, <1>11 DEF ReportProgress
<1> QED BY <1>12, <1>13, <1>14

\* The end of an iteration of the scheduler or the checker.
LEMMA AfterSane ==
    ASSUME Bounds, NEW ids \in SUBSET Jobs
    PROVE  Sane(After(ids))
<1>1. [Idle EXCEPT !.at = "next", !.ids = ids] \in Routine
  BY IdleSane DEF Routine, Places
<1>2. [Idle EXCEPT !.at = "next", !.ids = ids].at = "next"
  BY IdleSane DEF Routine
<1> QED BY <1>1, <1>2, IdleSane DEF Sane, After

\* ... and how it is reached.
LEMMA ContinueSane ==
    ASSUME Bounds, NEW p, NEW g, NEW ids \in SUBSET Jobs, Continue(p, g, ids)
    PROVE  \E next : Sane(next) /\ Goto(p, g, next)
BY AfterSane DEF Continue

\* The second half of an iteration: the job is saved and added to waiting.
LEMMA RequeueKeeps ==
    ASSUME Bounds, IInv, NEW p \in Procs, NEW g \in {"scheduler", "checker"}, Requeue(p, g)
    PROVE  IInv'
<1> DEFINE w == go[p][g]
<1>0. /\ w \in Routine /\ w.copy \in 0..MaxRetries /\ w.ids \in SUBSET Jobs
      /\ Redis /\ g \in Goroutines
      /\ \A s : s.at \in {"read", "saved"} => Holds(g, s)
      /\ w.at \notin {"idle", "next"} => w.job \in Jobs
  BY DEF IInv, TypeOK, HandInv, Routine, Goroutines, Holding, Holds
<1>1. CASE w.at = "read" /\ Move(p, g, [w EXCEPT !.at = "saved"]) /\ Save(w.job, w.copy)
  <2>1. PICK next : Sane(next) /\ Move(p, g, next) /\ next.job = w.job /\ Holds(g, next)
    BY <1>0, <1>1 DEF Sane, Routine, Places
  <2>2. PICK i \in Jobs, n \in 0..MaxRetries : Save(i, n)
    BY <1>0, <1>1
  <2> QED BY <1>0, <2>1, <2>2, SaveKeeps
<1>2. CASE w.at = "saved" /\ Continue(p, g, w.ids) /\ Add("waiting", w.job)
  <2>1. PICK next : Sane(next) /\ Goto(p, g, next)
    BY <1>0, <1>2, ContinueSane
  <2>2. /\ Redis' /\ db'.data = db.data
        /\ \A m \in Keys : db'[m] = IF m = "waiting" THEN db[m] \cup {w.job} ELSE db[m]
    BY <1>0, <1>2, CommandTypes DEF Keys, Sets
  <2> QED BY <1>0, <1>2, <2>1, <2>2, GotoKeeps DEF Keys, Sets
<1> QED BY <1>1, <1>2 DEF Requeue

\* The GET of an iteration: a job without data is not alive and may be dropped.
LEMMA ReadKeeps ==
    ASSUME Bounds, IInv, NEW p \in Procs, NEW g \in {"scheduler", "checker"}, NEW at \in {"read", "remove"},
           go[p][g].at \notin {"idle", "next"}, Holds(g, go[p][g]) => at \in Holding(g),
           Read(p, g, at), NoCommand
    PROVE  IInv'
<1> DEFINE w == go[p][g]
<1>0. /\ w \in Routine /\ w.ids \in SUBSET Jobs /\ Redis /\ g \in Goroutines /\ w.job \in Jobs
  BY DEF IInv, TypeOK, HandInv, Routine, Goroutines
<1>1. Redis' /\ db'.data = db.data /\ \A m \in Keys : db'[m] = db[m]
  BY <1>0, CommandTypes DEF Keys, Sets
<1>2. CASE db.data[w.job] = None
  <2>1. PICK next : Sane(next) /\ Goto(p, g, next)
    BY <1>0, <1>2, ContinueSane DEF Read
  <2>2. w.job \notin Alive
    BY <1>2 DEF IInv, DataInv
  <2> QED BY <1>0, <1>1, <2>1, <2>2, GotoKeeps DEF Keys, Sets
<1>3. CASE db.data[w.job] # None
  <2> DEFINE next == [w EXCEPT !.at = at, !.copy = db.data[w.job]]
  <2>1. Sane(next) /\ next.job = w.job /\ next.at = at
    BY <1>0, <1>3 DEF Sane, Routine, Places, Redis
  <2>2. Goto(p, g, next)
    BY <1>3 DEF Read
  <2> QED BY <1>0, <1>1, <2>1, <2>2, GotoKeeps DEF Keys, Sets, Holds
<1> QED BY <1>2, <1>3

\* The delay scheduler of a process.
LEMMA SchedulerKeeps ==
    ASSUME Bounds, IInv, NEW p \in Procs, DelayScheduler(p)
    PROVE  IInv'
<1> DEFINE w == go[p]["scheduler"]
<1>0. /\ w \in Routine /\ w.ids \in SUBSET Jobs /\ Redis /\ "scheduler" \in Goroutines
      /\ Holding("scheduler") = {"removed", "read", "saved"}
      /\ \A s : Holds("scheduler", s) <=> s.at \in {"removed", "read", "saved"}
  BY DEF IInv, TypeOK, Routine, Goroutines, Holding, Holds
<1>1. ASSUME NEW due \in SUBSET db.delayed, w.at = "idle", NoCommand,
             Goto(p, "scheduler", [Idle EXCEPT !.at = "next", !.ids = due])
      PROVE  IInv'
  <2>1. due \in SUBSET Jobs
    BY <1>0 DEF Redis, Keys, Sets
  <2>2. Sane([Idle EXCEPT !.at = "next", !.ids = due])
    BY <2>1, IdleSane DEF Sane, Routine, Places
  <2>3. Redis' /\ db'.data = db.data /\ \A m \in Keys : db'[m] = db[m]
    BY <1>0, <1>1, CommandTypes DEF Redis, NoCommand
  <2> QED BY <1>0, <1>1, <2>2, <2>3, GotoKeeps DEF Keys, Sets
<1>2. ASSUME NEW j \in Jobs, w.at = "next", Pick(p, "scheduler", j, "removed"), Rem("delayed", j)
      PROVE  IInv'
  <2> DEFINE next == [w EXCEPT !.at = "removed", !.job = j, !.ids = w.ids \ {j}]
  <2>1. Sane(next) /\ next.job = j /\ next.at = "removed"
    BY <1>0, <1>2 DEF Sane, Routine, Places
  <2>2. /\ Redis' /\ db'.data = db.data
        /\ \A m \in Keys : db'[m] = IF m = "delayed" THEN db[m] \ {j} ELSE db[m]
    BY <1>0, <1>2, CommandTypes DEF Keys, Sets
  <2>3. Goto(p, "scheduler", next)
    BY <1>2 DEF Pick
  <2>4. ~Holds("scheduler", w) /\ Holds("scheduler", next)
    BY <1>0, <1>2, <2>1
  <2>5. \A i \in Alive, k \in Sets :
           i \in db[k] => (\E m \in Sets : i \in db'[m]) \/ (next.job = i /\ Holds("scheduler", next))
    BY <2>1, <2>2, <2>4 DEF Keys
  <2>6. \A k \in {"completed", "failed"} : db'[k] \subseteq db[k]
    BY <2>2 DEF Keys, Sets
  <2> HIDE DEF next
  <2> QED BY <1>0, <2>1, <2>2, <2>3, <2>4, <2>5, <2>6, GotoKeeps
<1>3. CASE w.at = "removed" /\ Read(p, "scheduler", "read") /\ NoCommand
  BY <1>0, <1>3, ReadKeeps
<1>4. CASE Requeue(p, "scheduler")
  BY <1>4, RequeueKeeps
<1> QED BY <1>1, <1>2, <1>3, <1>4 DEF DelayScheduler

\* The stalled-job checker of a process.
LEMMA CheckerKeeps ==
    ASSUME Bounds, IInv, NEW p \in Procs, StalledChecker(p)
    PROVE  IInv'
<1> DEFINE w == go[p]["checker"]
<1>0. /\ w \in Routine /\ w.ids \in SUBSET Jobs /\ Redis /\ "checker" \in Goroutines
      /\ Holding("checker") = {"read", "saved"}
      /\ \A s : Holds("checker", s) <=> s.at \in {"read", "saved"}
      /\ w.at \notin {"idle", "next"} => w.job \in Jobs
  BY DEF IInv, TypeOK, HandInv, Routine, Goroutines, Holding, Holds
<1>a. NoCommand => Redis' /\ db'.data = db.data /\ \A m \in Keys : db'[m] = db[m]
  BY <1>0 DEF NoCommand, Redis
<1>1. CASE /\ w.at = "idle" /\ NoCommand
           /\ Goto(p, "checker", [Idle EXCEPT !.at = "next", !.ids = db.active])
  <2>1. db.active \in SUBSET Jobs
    BY <1>0 DEF Redis, Keys, Sets
  <2>2. Sane([Idle EXCEPT !.at = "next", !.ids = db.active])
    BY <2>1, IdleSane DEF Sane, Routine, Places
  <2> QED BY <1>0, <1>1, <1>a, <2>2, GotoKeeps DEF Keys, Sets
<1>2. ASSUME NEW j \in w.ids, w.at = "next", NoCommand, Continue(p, "checker", w.ids \ {j})
      PROVE  IInv'
  <2>1. PICK next : Sane(next) /\ Goto(p, "checker", next)
    BY <1>0, <1>2, ContinueSane
  <2> QED BY <1>0, <1>2, <1>a, <2>1, GotoKeeps DEF Keys, Sets
<1>3. ASSUME NEW j \in w.ids, w.at = "next", NoCommand, Pick(p, "checker", j, "stalled")
      PROVE  IInv'
  <2> DEFINE next == [w EXCEPT !.at = "stalled", !.job = j, !.ids = w.ids \ {j}]
  <2>1. Sane(next)
    BY <1>0, <1>3 DEF Sane, Routine, Places
  <2>2. Goto(p, "checker", next)
    BY <1>3 DEF Pick
  <2> QED BY <1>0, <1>3, <1>a, <2>1, <2>2, GotoKeeps DEF Keys, Sets
<1>4. CASE w.at = "stalled" /\ Read(p, "checker", "remove") /\ NoCommand
  BY <1>0, <1>4, ReadKeeps
<1>5. CASE w.at = "remove" /\ Goto(p, "checker", [w EXCEPT !.at = "read"]) /\ Rem("active", w.job)
  <2> DEFINE next == [w EXCEPT !.at = "read"]
  <2>1. Sane(next) /\ next.job = w.job /\ next.at = "read"
    BY <1>0, <1>5, IdleSane DEF Sane, Routine, Places
  <2>2. /\ Redis' /\ db'.data = db.data
        /\ \A m \in Keys : db'[m] = IF m = "active" THEN db[m] \ {w.job} ELSE db[m]
    BY <1>0, <1>5, CommandTypes DEF Keys, Sets
  <2>3. ~Holds("checker", w) /\ Holds("checker", next)
    BY <1>0, <1>5, <2>1
  <2>4. \A i \in Alive, k \in Sets :
           i \in db[k] => (\E m \in Sets : i \in db'[m]) \/ (next.job = i /\ Holds("checker", next))
    BY <2>1, <2>2, <2>3 DEF Keys
  <2>5. \A k \in {"completed", "failed"} : db'[k] \subseteq db[k]
    BY <2>2 DEF Keys, Sets
  <2> QED BY <1>0, <1>5, <2>1, <2>2, <2>3, <2>4, <2>5, GotoKeeps
<1>6. CASE Requeue(p, "checker")
  BY <1>6, RequeueKeeps
<1> QED BY <1>1, <1>2, <1>3, <1>4, <1>5, <1>6 DEF StalledChecker

\* Clean: what it pops has ended, and so the data it deletes is of no job alive.
LEMMA CleanKeeps ==
    ASSUME Bounds, IInv, NEW p \in Procs, Clean(p)
    PROVE  IInv'
<1> DEFINE c == go[p]["cleaner"]
<1>0. /\ c \in Routine /\ Redis /\ "cleaner" \in Goroutines
      /\ \A s : ~Holds("cleaner", s)
      /\ c.at = "spopped" => c.job \in Jobs /\ fate[c.job] \in {"ended", "lost"}
  BY DEF IInv, TypeOK, HandInv, Goroutines, Holding, Holds
<1>1. ASSUME NEW k \in {"completed", "failed"}, NEW j \in db[k], Rem(k, j),
             Goto(p, "cleaner", [Idle EXCEPT !.at = "spopped", !.job = j])
      PROVE  IInv'
  <2> DEFINE next == [Idle EXCEPT !.at = "spopped", !.job = j]
  <2>1. j \in Jobs /\ fate[j] \in {"ended", "lost"} /\ k \in Keys
    BY <1>0 DEF IInv, DataInv, Redis, Keys, Sets
  <2>2. Sane(next)
    <3>1. next \in Routine /\ next.at = "spopped" /\ next.job = j
      BY <2>1, IdleSane DEF Routine, Places
    <3> QED BY <2>1, <3>1 DEF Sane
  <2>3. /\ Redis' /\ db'.data = db.data
        /\ \A m \in Keys : db'[m] = IF m = k THEN db[m] \ {j} ELSE db[m]
    BY <1>0, <1>1, <2>1, CommandTypes
  <2>4. \A i \in Alive, m \in Sets : i \in db[m] => i \in db'[m]
    BY <2>1, <2>3 DEF Keys, Alive
  <2>5. \A m \in {"completed", "failed"} : db'[m] \subseteq db[m]
    BY <2>3 DEF Keys, Sets
  <2> HIDE DEF next
  <2> QED BY <1>0, <1>1, <2>2, <2>3, <2>4, <2>5, GotoKeeps DEF next
<1>2. CASE /\ c.at = "spopped" /\ Goto(p, "cleaner", Idle)
           /\ db' = [db EXCEPT !.data[c.job] = None]
  <2>1. /\ Redis' /\ \A m \in Keys : db'[m] = db[m]
        /\ \A i \in Jobs \ {c.job} : db'.data[i] = db.data[i]
    BY <1>0, <1>2 DEF Redis, Keys, Sets
  <2>2. fate' = fate /\ Alive' = Alive /\ Move(p, "cleaner", Idle) /\ Steady
    BY <1>2 DEF Goto, Alive, Steady
  <2>3. TypeOK' /\ HandInv' /\ go' = [go EXCEPT ![p]["cleaner"] = Idle]
    BY <1>0, <2>1, <2>2, IdleSane, MoveTypes DEF IInv, TypeOK
  <2>4. DataInv'
    BY <1>0, <1>2, <2>1, <2>2 DEF IInv, DataInv, Alive, Keys, Sets
  <2>5. JobIsSomewhere'
    <3>1. TypeOK /\ JobIsSomewhere
      BY DEF IInv
    <3>2. \A i \in Alive', k \in Sets : i \in db[k] => i \in db'[k]
      BY <2>1 DEF Keys
    <3> QED BY <1>0, <2>2, <2>3, <3>1, <3>2, IdleSane, NoneDropped
  <2> QED BY <2>3, <2>4, <2>5 DEF IInv
<1> QED BY <1>1, <1>2 DEF Clean

\* Submit and the expiry of locks leave the goroutines alone.
LEMMA ClientKeeps ==
    ASSUME Bounds, IInv, NEW j \in Jobs,
           \/ \E k \in {"waiting", "delayed"} : Submit(j, k)
           \/ LockExpires(j)
    PROVE  IInv'
<1> USE DEF Bounds, Keys, Sets
<1>1. ASSUME go' = go, TypeOK', DataInv',
             \A i \in Alive' : i \in Alive \/ \E k \in Sets : i \in db'[k],
             \A i \in Alive', k \in Sets : i \in db[k] => i \in db'[k], Steady
      PROVE  IInv'
  <2>1. HandInv'
    BY <1>1 DEF IInv, TypeOK, HandInv, Steady
  <2>2. \A q : InHand(q)' = InHand(q)
    BY <1>1 DEF InHand
  <2>3. JobIsSomewhere'
    BY <1>1, <2>2 DEF IInv, JobIsSomewhere, Placed
  <2> QED BY <1>1, <2>1, <2>3 DEF IInv
<1>2. ASSUME NEW k \in {"waiting", "delayed"}, Submit(j, k)
      PROVE  IInv'
  <2>1. /\ \A m \in Keys : db'[m] = IF m = k THEN db[m] \cup {j} ELSE db[m]
        /\ db'.data = [db.data EXCEPT ![j] = 0] /\ DOMAIN db' = Keys \cup {"data"}
    BY <1>2 DEF Submit, IInv, TypeOK, Redis
  <2>2. TypeOK'
    BY <1>2, <2>1 DEF Submit, IInv, TypeOK, Redis
  <2>3. Alive' = Alive \cup {j}
    BY <1>2 DEF Submit, Alive, IInv, TypeOK
  <2>4. DataInv'
    <3>1. \A i \in Alive' : db'.data[i] # None
      BY <2>1, <2>3 DEF IInv, TypeOK, Redis, DataInv, Alive
    <3>2. db'.completed = db.completed /\ db'.failed = db.failed
      BY <2>1
    <3>3. \A i \in db.completed \cup db.failed : i \in Jobs /\ fate[i] # "none" /\ fate'[i] = fate[i]
      BY <1>2 DEF Submit, IInv, TypeOK, Redis, DataInv
    <3> QED BY <3>1, <3>2, <3>3 DEF IInv, DataInv
  <2>5. Steady
    BY <1>2 DEF Submit, IInv, TypeOK, Steady
  <2> QED BY <1>1, <1>2, <2>1, <2>2, <2>3, <2>4, <2>5 DEF Submit
<1>3. CASE LockExpires(j)
  <2>1. /\ Redis' /\ db'.data = db.data
        /\ \A m \in Keys : db'[m] = IF m = "lock" THEN db[m] \ {j} ELSE db[m]
    BY <1>3, CommandTypes DEF LockExpires, IInv, TypeOK
  <2>2. TypeOK'
    BY <1>3, <2>1 DEF LockExpires, IInv, TypeOK
  <2>3. Alive' = Alive /\ DataInv'
    BY <1>3, <2>1 DEF LockExpires, Alive, IInv, DataInv
  <2> QED BY <1>1, <1>3, <2>1, <2>2, <2>3 DEF LockExpires, Steady
<1> QED BY <1>2, <1>3

\* A stop loses the jobs in the hands of the process that are nowhere else, and no
\* others.
LEMMA StopKeeps ==
    ASSUME Bounds, IInv, NEW p \in Procs, Stop(p)
    PROVE  IInv'
<1>1. go' \in [Procs -> [Goroutines -> Routine]] /\ HandInv'
  <2>1. \A g \in Goroutines : go'[p][g] = Idle /\ \A q \in Procs \ {p} : go'[q] = go[q]
    BY DEF Stop, IInv, TypeOK
  <2>2. Idle.at = "idle"
    BY DEF Idle
  <2>3. go' \in [Procs -> [Goroutines -> Routine]]
    BY IdleSane DEF Stop, IInv, TypeOK
  <2>4. \A j \in Jobs : fate[j] \in {"ended", "lost"} => fate'[j] = fate[j]
    BY DEF Stop
  <2>5. HandInv'
    BY <2>1, <2>2, <2>4 DEF IInv, HandInv
  <2> QED BY <2>3, <2>5
<1>2. TypeOK'
  BY <1>1 DEF Stop, IInv, TypeOK, Bounds, Redis
<1>3. Alive' \subseteq Alive /\ DataInv'
  BY DEF Stop, Alive, IInv, TypeOK, DataInv, Redis, Keys, Sets
<1>4. JobIsSomewhere'
  <2> SUFFICES ASSUME NEW j \in Alive' PROVE Placed(j, Procs)'
    BY DEF JobIsSomewhere
  <2>1. j \in Alive /\ (j \in InHand(p) => Placed(j, Procs \ {p}))
    BY <1>3 DEF Stop, Alive, IInv, TypeOK
  <2>2. \A q \in Procs \ {p} : InHand(q)' = InHand(q)
    BY DEF Stop, InHand, IInv, TypeOK
  <2>3. Placed(j, Procs \ {p})
    BY <2>1 DEF IInv, JobIsSomewhere, Placed
  <2> QED BY <2>2, <2>3 DEF Placed, Stop
<1> QED BY <1>1, <1>2, <1>3, <1>4 DEF IInv

\* A command fails whose goroutine goes on with the job it held.
LEMMA StillKeeps ==
    ASSUME Bounds, IInv, NEW p \in Procs, NEW g \in Goroutines, NEW next, Sane(next),
           Fail(p, g, next), fate' = fate, NoCommand,
           Holds(g, go[p][g]) => next.job = go[p][g].job /\ Holds(g, next)
    PROVE  IInv'
<1>1. Redis' /\ db'.data = db.data /\ \A k \in Sets : db'[k] = db[k]
  BY DEF NoCommand, IInv, TypeOK, Redis
<1>2. {"completed", "failed"} \subseteq Sets
  BY DEF Sets
<1> QED BY <1>1, <1>2, GotoKeeps

\* The failures of the worker's commands that leave its job where it is.
LEMMA WorkerErrorKeeps ==
    ASSUME Bounds, IInv, NEW p \in Procs, fate' = fate, NoCommand, NEW next, Fail(p, "worker", next),
           LET w == go[p]["worker"] IN
           \/ w.at = "popped" /\ next = [w EXCEPT !.at = "listed", !.bare = TRUE]
           \/ w.at = "listed" /\ next = [w EXCEPT !.at = "locked"]
           \/ w.at = "read" /\ next = [w EXCEPT !.at = "run"]
           \/ w.at = "report" /\ next = [w EXCEPT !.at = "reported"]
           \/ w.at \in {"run", "reported"} /\ \E k \in Outcomes(w) :
                 next = [w EXCEPT !.at = "ran", !.to = k, !.seen = 0]
           \/ w.at = "ran" /\ next = [w EXCEPT !.at = "place"]
           \/ w.at = "save" /\ next = Idle
    PROVE  IInv'
<1> DEFINE w == go[p]["worker"]
<1>0. /\ w \in Routine /\ "worker" \in Goroutines
      /\ \A s : Holds("worker", s) <=> s.at \in {"popped", "place"} \/ (s.bare /\ s.at \in Working)
      /\ w.at \notin {"idle", "next"} => w.job \in Jobs
      /\ w.at \in {"ran", "place"} => w.to \in {"completed", "delayed", "failed"}
  BY DEF IInv, TypeOK, HandInv, Goroutines, Holding, Holds
<1>1. CASE w.at = "popped" /\ next = [w EXCEPT !.at = "listed", !.bare = TRUE]
  <2>1. next \in Routine /\ next.at = "listed" /\ next.bare = TRUE /\ next.job = w.job
    BY <1>0, <1>1 DEF Routine, Places
  <2>2. Sane(next) /\ Holds("worker", next)
    BY <1>0, <1>1, <2>1 DEF Sane, Working
  <2> QED BY <1>0, <2>1, <2>2, StillKeeps
<1>2. ASSUME NEW at \in {"locked", "run", "reported", "place"}, next = [w EXCEPT !.at = at],
             w.at \in {"listed", "read", "report", "ran"},
             at = "place" => w.at = "ran"
      PROVE  IInv'
  <2>1. next \in Routine /\ next.at = at /\ next.bare = w.bare /\ next.job = w.job /\ next.to = w.to
    BY <1>0, <1>2 DEF Routine, Places
  <2>2. Sane(next) /\ (Holds("worker", w) => Holds("worker", next))
    BY <1>0, <1>2, <2>1 DEF Sane, Working
  <2> QED BY <1>0, <2>1, <2>2, StillKeeps
<1>3. ASSUME NEW k \in {"completed", "delayed", "failed"}, w.at \in {"run", "reported"},
             next = [w EXCEPT !.at = "ran", !.to = k, !.seen = 0]
      PROVE  IInv'
  <2>0. k \in Sets \cup {None} /\ 0 \in 0..MaxRetries
    BY ZeroTyped DEF Sets
  <2>1. next \in Routine /\ next.at = "ran" /\ next.bare = w.bare /\ next.job = w.job /\ next.to = k
    BY <1>0, <1>3, <2>0 DEF Routine, Places
  <2>2. Sane(next) /\ (Holds("worker", w) => Holds("worker", next))
    BY <1>0, <1>3, <2>1 DEF Sane, Working
  <2> QED BY <1>0, <2>1, <2>2, StillKeeps
<1>4. CASE w.at = "save" /\ next = Idle
  <2>1. ~Holds("worker", w)
    BY <1>0, <1>4 DEF Working
  <2> QED BY <1>0, <1>4, <2>1, IdleSane, StillKeeps
<1> QED BY <1>1, <1>2, <1>3, <1>4 DEF Outcomes

\* ... and those of the other goroutines.
LEMMA ErrorIgnoredKeeps ==
    ASSUME Bounds, IInv, NEW p \in Procs, ErrorIgnored(p)
    PROVE  IInv'
<1> DEFINE s == go[p]["scheduler"]
           c == go[p]["checker"]
<1>0. /\ s \in Routine /\ c \in Routine /\ s.ids \in SUBSET Jobs /\ c.ids \in SUBSET Jobs
      /\ {"scheduler", "checker", "cleaner"} \subseteq Goroutines
      /\ \A x : Holds("scheduler", x) <=> x.at \in {"removed", "read", "saved"}
      /\ \A x : Holds("checker", x) <=> x.at \in {"read", "saved"}
      /\ \A x : ~Holds("cleaner", x)
      /\ s.at \notin {"idle", "next"} => s.job \in Jobs
      /\ c.at \notin {"idle", "next"} => c.job \in Jobs
  BY DEF IInv, TypeOK, HandInv, Routine, Goroutines, Holding, Holds
<1>a. fate' = fate /\ NoCommand
  BY DEF ErrorIgnored
<1>1. ASSUME NEW j \in s.ids, s.at = "next",
             Fail(p, "scheduler", [s EXCEPT !.at = "removed", !.job = j, !.ids = @ \ {j}])
      PROVE  IInv'
  <2> DEFINE next == [s EXCEPT !.at = "removed", !.job = j, !.ids = @ \ {j}]
  <2>1. Sane(next) /\ ~Holds("scheduler", s)
    BY <1>0, <1>1 DEF Sane, Routine, Places
  <2> HIDE DEF next
  <2> QED BY <1>0, <1>a, <1>1, <2>1, StillKeeps DEF next
<1>2. CASE s.at = "read" /\ Fail(p, "scheduler", [s EXCEPT !.at = "saved"])
  <2>1. Sane([s EXCEPT !.at = "saved"]) /\ [s EXCEPT !.at = "saved"].at = "saved"
        /\ [s EXCEPT !.at = "saved"].job = s.job
    BY <1>0, <1>2 DEF Sane, Routine, Places
  <2> QED BY <1>0, <1>a, <1>2, <2>1, StillKeeps
<1>3. ASSUME NEW j \in c.ids, c.at = "next",
             Fail(p, "checker", [c EXCEPT !.at = "stalled", !.job = j, !.ids = @ \ {j}])
      PROVE  IInv'
  <2> DEFINE next == [c EXCEPT !.at = "stalled", !.job = j, !.ids = @ \ {j}]
  <2>1. Sane(next) /\ ~Holds("checker", c)
    BY <1>0, <1>3 DEF Sane, Routine, Places
  <2> HIDE DEF next
  <2> QED BY <1>0, <1>a, <1>3, <2>1, StillKeeps DEF next
<1>4. CASE c.at = "stalled" /\ Fail(p, "checker", After(c.ids))
  <2>1. Sane(After(c.ids)) /\ ~Holds("checker", c)
    BY <1>0, <1>4, AfterSane
  <2> QED BY <1>0, <1>a, <1>4, <2>1, StillKeeps
<1>5. ASSUME NEW at \in {"read", "saved"}, c.at \in {"remove", "read"},
             Fail(p, "checker", [c EXCEPT !.at = at])
      PROVE  IInv'
  <2>1. Sane([c EXCEPT !.at = at]) /\ [c EXCEPT !.at = at].at = at
        /\ [c EXCEPT !.at = at].job = c.job
    BY <1>0, <1>5 DEF Sane, Routine, Places
  <2> QED BY <1>0, <1>a, <1>5, <2>1, StillKeeps
<1>6. CASE Fail(p, "cleaner", Idle)
  BY <1>0, <1>a, <1>6, IdleSane, StillKeeps
<1> QED BY <1>a, <1>1, <1>2, <1>3, <1>4, <1>5, <1>6, WorkerErrorKeeps DEF ErrorIgnored

\* A command fails that takes job j along: j is lost if it is nowhere else, and no
\* other job is touched.
LEMMA DropKeeps ==
    ASSUME Bounds, IInv, NEW p \in Procs, NEW g \in Goroutines, NEW j \in Jobs, NEW next, Sane(next),
           Drop(p, g, j, next), Redis', db'.data = db.data,
           \A k \in {"completed", "failed"} : db'[k] \subseteq db[k],
           \A i \in Alive \ {j}, k \in Sets : i \in db[k] => i \in db'[k],
           Holds(g, go[p][g]) => go[p][g].job = j
    PROVE  IInv'
<1>1. /\ fate' \in [Jobs -> {"none", "open", "reset", "ended", "lost"}]
      /\ \A i \in Jobs : fate'[i] = fate[i] \/ fate'[i] = "lost"
      /\ j \in Alive /\ ~Placed(j, Procs)' => fate'[j] = "lost"
  BY DEF Drop, Alive, IInv, TypeOK
<1>2. Alive' \subseteq Alive /\ Steady /\ Fail(p, g, next)
  BY <1>1 DEF Alive, Steady, Drop
<1>3. TypeOK' /\ HandInv' /\ go' = [go EXCEPT ![p][g] = next]
  BY <1>1, <1>2, MoveTypes DEF IInv, TypeOK
<1>4. DataInv'
  BY <1>1, <1>2 DEF IInv, TypeOK, Redis, DataInv, Keys, Sets
<1>5. JobIsSomewhere'
  <2> SUFFICES ASSUME NEW i \in Alive' PROVE Placed(i, Procs)'
    BY DEF JobIsSomewhere
  <2>1. CASE i = j
    BY <1>1, <1>2, <2>1 DEF Alive
  <2>2. CASE i # j
    <3>1. \A q \in Procs, h \in Goroutines : ~(q = p /\ h = g) => go'[q][h] = go[q][h]
      BY <1>3 DEF IInv, TypeOK
    <3>2. CASE \E k \in Sets : i \in db[k]
      BY <1>2, <2>2, <3>2 DEF Placed
    <3>3. ASSUME NEW q \in Procs, i \in InHand(q) PROVE Placed(i, Procs)'
      <4>1. PICK h \in Goroutines : Holds(h, go[q][h]) /\ go[q][h].job = i
        BY <3>3 DEF InHand
      <4> QED BY <2>2, <3>1, <4>1 DEF Placed, InHand
    <3> QED BY <1>2, <3>2, <3>3 DEF IInv, JobIsSomewhere, Placed
  <2> QED BY <2>1, <2>2
<1> QED BY <1>3, <1>4, <1>5 DEF IInv

\* The failures that may lose the job they are about.
LEMMA ErrorDropsKeeps ==
    ASSUME Bounds, IInv, NEW p \in Procs, NEW j \in Jobs, ErrorDrops(p, j)
    PROVE  IInv'
<1> DEFINE w == go[p]["worker"]
<1>0. /\ go[p] \in [Goroutines -> Routine] /\ Redis
      /\ {"worker", "scheduler", "checker"} \subseteq Goroutines
      /\ \A s : Holds("worker", s) => s.at \in {"popped", "place"} \/ s.at \in Working
      /\ \A g \in Goroutines : go[p][g].ids \in SUBSET Jobs
      /\ w.at \notin {"idle", "next"} => w.job \in Jobs
      /\ w.at \in {"ran", "place"} => w.to \in {"completed", "delayed", "failed"}
  BY DEF IInv, TypeOK, HandInv, Routine, Goroutines, Holding, Holds
<1>1. ASSUME NEW g \in {"worker", "scheduler", "checker"}, NEW next, Sane(next), NoCommand, go[p][g].job = j,
             Drop(p, g, j, next)
      PROVE  IInv'
  <2>1. Redis' /\ db'.data = db.data /\ \A k \in Sets : db'[k] = db[k]
    BY <1>0, <1>1 DEF NoCommand, Redis
  <2>2. {"completed", "failed"} \subseteq Sets
    BY DEF Sets
  <2> QED BY <1>0, <1>1, <2>1, <2>2, DropKeeps
<1>2. CASE w.at = "idle" /\ Rem("waiting", j) /\ Drop(p, "worker", j, w)
  <2>1. /\ Redis' /\ db'.data = db.data
        /\ \A m \in Keys : db'[m] = IF m = "waiting" THEN db[m] \ {j} ELSE db[m]
    BY <1>0, <1>2, CommandTypes DEF Keys, Sets
  <2>2. Sane(w) /\ ~Holds("worker", w)
    BY <1>0, <1>2 DEF Sane, Working
  <2>3. \A i \in Alive \ {j}, k \in Sets : i \in db[k] => i \in db'[k]
    BY <2>1 DEF Keys
  <2>4. \A k \in {"completed", "failed"} : db'[k] \subseteq db[k]
    BY <2>1 DEF Keys, Sets
  <2> QED BY <1>0, <1>2, <2>1, <2>2, <2>3, <2>4, DropKeeps
<1>3. CASE w.at = "locked" /\ w.job = j /\ NoCommand /\ Drop(p, "worker", j, Idle)
  BY <1>1, <1>3, IdleSane
<1>4. CASE w.at = "place" /\ w.job = j /\ NoCommand /\ Drop(p, "worker", j, [w EXCEPT !.at = "save"])
  <2>1. Sane([w EXCEPT !.at = "save"])
    BY <1>0, <1>4 DEF Sane, Routine, Places
  <2> QED BY <1>1, <1>4, <2>1
<1>5. ASSUME NEW g \in {"scheduler", "checker"}, go[p][g].job = j, NoCommand,
             Drop(p, g, j, After(go[p][g].ids))
      PROVE  IInv'
  <2>1. Sane(After(go[p][g].ids))
    BY <1>0, AfterSane
  <2> QED BY <1>1, <1>5, <2>1
<1> QED BY <1>2, <1>3, <1>4, <1>5 DEF ErrorDrops

\* Every step of the queue keeps the invariant.
LEMMA QueueKeeps ==
    ASSUME Bounds, IInv, [Next]_vars
    PROVE  IInv'
<1>1. CASE UNCHANGED vars
  BY <1>1 DEF vars, IInv, TypeOK, Redis, DataInv, HandInv, JobIsSomewhere, Alive, Placed, InHand
<1>2. ASSUME NEW p \in Procs, Consume(p) \/ ReportProgress(p)
      PROVE  IInv'
  BY <1>2, WorkerKeeps DEF Consume
<1>3. ASSUME NEW p \in Loops, DelayScheduler(p) \/ StalledChecker(p)
      PROVE  IInv'
  BY <1>3, SchedulerKeeps, CheckerKeeps DEF Bounds
<1>4. ASSUME NEW p \in Cleaners, Clean(p)
      PROVE  IInv'
  BY <1>4, CleanKeeps DEF Bounds
<1> QED BY <1>1, <1>2, <1>3, <1>4, ClientKeeps, StopKeeps, ErrorIgnoredKeeps, ErrorDropsKeeps DEF Next

\* The queue starts empty.
LEMMA QueueInit == Bounds /\ Init => IInv
<1> SUFFICES ASSUME Bounds, Init PROVE IInv
  OBVIOUS
<1>1. Redis /\ DataInv
  BY DEF Init, Redis, Keys, Sets, DataInv, Alive
<1>2. TypeOK /\ HandInv
  <2>1. Idle.at = "idle"
    BY DEF Idle
  <2> QED BY <1>1, <2>1, IdleSane DEF Init, TypeOK, HandInv, Bounds
<1> QED BY <1>1, <1>2 DEF Init, IInv, JobIsSomewhere, Alive

\* redisqueue.go:241-416: for any number of jobs, processes, retries, stops,
\* failed commands and expiries of locks, a job that has not ended is in one of
\* the sets or in the hands of a process, unless its last holder stopped between
\* two sets or a command of ErrorDrops failed for it there: the losses of the
\* code, which redisqueue.go:5-7 rules out, have no other source.
THEOREM JobIsSomewhereThm ==
    ASSUME Bounds
    PROVE  Spec => []JobIsSomewhere
<1>1. IInv => JobIsSomewhere
  BY DEF IInv
<1> QED BY <1>1, QueueInit, QueueKeeps, PTL DEF Spec

=============================================================================
