---------------------------- MODULE MCPrimitives ----------------------------
(***************************************************************************)
(* Instances of the in-process primitives for TLC.  They share nothing, so *)
(* a behaviour is one of a single primitive, chosen at the start; the      *)
(* others stay in their initial states.                                    *)
(***************************************************************************)
EXTENDS KeyedMutex

CONSTANTS
    MaxTasks, MaxTime,                  \* delayqueue
    TimerIds, ChanSize, MaxAdds, MaxClock,  \* timerqueue
    Workers, QueueSize, MaxPauses,      \* scheduler
    Total, Delay,                       \* hedge
    Capacity, Costs,                    \* semaphore
    NNodes, MaxParallel,                \* dag
    Publishers, BufSize, MaxValues,     \* stream
    InputQueue, CallQueue, MaxEmptyTicks,  \* match
    MaxSize,                            \* party
    Owners, TxIds, Half, MaxLedgers,    \* wallet
    Cap, ScaleThreshold,                \* xgo
    Buffer, Size, MaxBatch,             \* mq and syncx
    Limits                              \* group

ASSUME BoundsAssumption ==
    /\ None \notin Nat \cup TimerIds \cup TxIds
    /\ MaxTasks \in Nat /\ MaxTime \in Nat
    /\ ChanSize \in Nat /\ MaxAdds \in Nat /\ MaxClock \in Nat /\ QueueSize \in Nat
    /\ Total \in Nat \ {0} /\ Delay \in BOOLEAN /\ Capacity \in Nat /\ Costs \subseteq Nat /\ NNodes \in Nat
    /\ BufSize \in Nat \ {0} /\ MaxValues \in Nat /\ MaxSize \in Nat
    /\ Half \in Nat \ {0} /\ MaxLedgers \in Nat
    /\ Buffer \in Nat /\ Size \in Nat \ {0} /\ MaxBatch \in Nat \ {0} /\ Limits \subseteq Nat

VARIABLES
    which,  \* the primitive of this behaviour
    task, heap, byKey, driver, wake, stop, now, fired, revoked,
    timer, cmdCh, pending, idIndex, running, clock, called, dropped,
    queue, closed, caller, worker, paused, schedStop, ran,
    attempt, results, main, ctx,
    used, user,
    dependsOn, failFast, level, node, outcome, dagCtx,
    subQueue, subscribed, publish, dropOldest, received, before, returned,
    input, sub, callCh, signaller, empty, halt, loop,
    leader, members, joinOrder, requests, reserved, stopped, openParty,
    accounts, ledgers, txIndex, loaded,
    tasks, taskCh, submit, gopher, group, closing, ended,
    competing, subs, rr, broker, pub, ch, subscription, handled,
    batchBuf, batchTimer, alarm, batchFlushed,
    in, adder, buf, timerOn, run, closer, flushed, early,
    role, ownerID, banned, maxMembers, overbooked

AKey == CHOOSE k \in Keys : TRUE
AnEntry == CHOOSE e \in Entries : TRUE
Leaver == CHOOSE e \in Entries : e # AnEntry
AThread == CHOOSE t \in Threads : TRUE

Delayed == INSTANCE DelayQueue
Timed == INSTANCE TimerQueue WITH Ids <- TimerIds
Pool == INSTANCE Scheduler WITH stop <- schedStop, Tasks <- Keys
Hedged == INSTANCE Hedge
Sem == INSTANCE Semaphore WITH Clients <- Threads, MayWait <- TRUE
Graph == INSTANCE Dag
Stream == INSTANCE Broadcaster
Session == INSTANCE Match WITH Inputs <- Keys, Subscribers <- {AKey}
Team == INSTANCE Party WITH Players <- Threads \cup {None}
Purse == INSTANCE Wallet WITH Currencies <- Keys
Gophers == INSTANCE WorkerPool WITH worker <- gopher, Tasks <- Keys
Topic == INSTANCE Broker WITH publish <- pub, sub <- subscription,
             Messages <- Keys, Subs <- Entries \ {AnEntry}, Leaving <- {Leaver}
Batches == INSTANCE Batch WITH buf <- batchBuf, timer <- batchTimer, flushed <- batchFlushed,
             Messages <- Threads \cup {None}
Collector == INSTANCE Batcher WITH Items <- Threads
Club == INSTANCE Group WITH People <- Threads

Primitives ==
    {"mutex", "delayed", "timed", "pool", "hedge", "sem", "dag", "stream", "match", "party", "wallet",
     "xgo", "broker", "batch", "batcher", "group"}

\* Where a primitive may start in several states, an idle one is in one of them.
Idle ==
    /\ which # "dag" => dependsOn = [n \in 1..NNodes |-> {}] /\ failFast = TRUE
    /\ which # "stream" => dropOldest = TRUE
    /\ which # "party" => leader = None /\ openParty = TRUE
    /\ which # "wallet" => loaded = [o \in Owners |-> Purse!Zero]
    /\ which # "broker" => competing = {}
    /\ which = "broker" => competing \in {Entries \ {AnEntry}, {Leaver}}
    /\ which # "group" => ownerID = AThread /\ maxMembers = 0

MCInit ==
    /\ which \in Primitives /\ Idle
    /\ Init /\ Delayed!Init /\ Timed!Init /\ Pool!Init /\ Hedged!Init /\ Sem!Init
    /\ Graph!Init /\ Stream!Init /\ Session!Init /\ Team!Init /\ Purse!Init
    /\ Gophers!Init /\ Topic!Init /\ Batches!Init /\ Collector!Init /\ Club!Init

delayedVars == <<task, heap, byKey, driver, wake, stop, now, fired, revoked>>
timedVars == <<timer, cmdCh, pending, idIndex, running, clock, called, dropped>>
poolVars == <<queue, closed, caller, worker, paused, schedStop, ran>>
hedgedVars == <<attempt, results, main, ctx>>
semVars == <<used, user>>
graphVars == <<dependsOn, failFast, level, node, outcome, dagCtx>>
streamVars == <<subQueue, subscribed, publish, dropOldest, received, before, returned>>
sessionVars == <<input, sub, callCh, signaller, empty, halt, loop>>
teamVars == <<leader, members, joinOrder, requests, reserved, stopped, openParty>>
purseVars == <<accounts, ledgers, txIndex, loaded>>
gopherVars == <<tasks, taskCh, submit, gopher, group, closing, ended>>
topicVars == <<competing, subs, rr, broker, pub, ch, subscription, handled>>
batchVars == <<batchBuf, batchTimer, alarm, batchFlushed>>
collectorVars == <<in, adder, buf, timerOn, run, closer, flushed, early>>
clubVars == <<role, ownerID, banned, maxMembers, overbooked>>

\* A step is one of primitive w and leaves the others as they are.
Only(w) ==
    /\ which = w /\ UNCHANGED which
    /\ IF w = "mutex" THEN TRUE ELSE UNCHANGED vars
    /\ IF w = "delayed" THEN TRUE ELSE UNCHANGED delayedVars
    /\ IF w = "timed" THEN TRUE ELSE UNCHANGED timedVars
    /\ IF w = "pool" THEN TRUE ELSE UNCHANGED poolVars
    /\ IF w = "hedge" THEN TRUE ELSE UNCHANGED hedgedVars
    /\ IF w = "sem" THEN TRUE ELSE UNCHANGED semVars
    /\ IF w = "dag" THEN TRUE ELSE UNCHANGED graphVars
    /\ IF w = "stream" THEN TRUE ELSE UNCHANGED streamVars
    /\ IF w = "match" THEN TRUE ELSE UNCHANGED sessionVars
    /\ IF w = "party" THEN TRUE ELSE UNCHANGED teamVars
    /\ IF w = "wallet" THEN TRUE ELSE UNCHANGED purseVars
    /\ IF w = "xgo" THEN TRUE ELSE UNCHANGED gopherVars
    /\ IF w = "broker" THEN TRUE ELSE UNCHANGED topicVars
    /\ IF w = "batch" THEN TRUE ELSE UNCHANGED batchVars
    /\ IF w = "batcher" THEN TRUE ELSE UNCHANGED collectorVars
    /\ IF w = "group" THEN TRUE ELSE UNCHANGED clubVars

MCNext ==
    \/ Next /\ Only("mutex")
    \/ Only("delayed") /\ Delayed!Next
    \/ Only("timed") /\ Timed!Next
    \/ Only("pool") /\ Pool!Next
    \/ Only("hedge") /\ Hedged!Next
    \/ Only("sem") /\ Sem!Next
    \/ Only("dag") /\ Graph!Next
    \/ Only("stream") /\ Stream!Next
    \/ Only("match") /\ Session!Next
    \/ Only("party") /\ Team!Next
    \/ Only("wallet") /\ Purse!Next
    \/ Only("xgo") /\ Gophers!Next
    \/ Only("broker") /\ Topic!Next
    \/ Only("batch") /\ Batches!Next
    \/ Only("batcher") /\ Collector!Next
    \/ Only("group") /\ Club!Next

mcVars == <<which, vars, delayedVars, timedVars, poolVars, hedgedVars, semVars,
            graphVars, streamVars, sessionVars, teamVars, purseVars,
            gopherVars, topicVars, batchVars, collectorVars, clubVars>>

\* Goroutines go on, calls return, clocks tick and a select with several ready
\* cases takes each of them now and then; callers need not call.  In a behaviour
\* a single primitive moves, so that a conjunct may serve one step of each; and
\* threads are alike, so that one, AThread, stands for each that waits for a lock,
\* which the others need not get.
MCFairness ==
    /\ SF_mcVars(Only("mutex") /\ LockEntry(AThread))
    /\ \A t \in Threads :
          WF_mcVars(\/ Only("mutex") /\ Step(t)
                    \/ Only("sem") /\ Sem!Step(t)
                    \/ Only("batcher") /\ adder[t] = "select" /\ Collector!Add(t))
    /\ \A k \in Keys :
          /\ WF_mcVars(\/ Only("pool") /\ Pool!Submitter(k)
                       \/ Only("xgo") /\ Gophers!Submitter(k)
                       \/ Only("broker") /\ Topic!Send(k))
          /\ WF_mcVars(Only("xgo") /\ Gophers!Work(k))
    /\ \A w \in Workers : WF_mcVars(Only("pool") /\ Pool!Work(w))
    /\ \A e \in Entries \ {AnEntry} : WF_mcVars(Only("broker") /\ Topic!Deliver(e))
    /\ \A i \in Batches!Timers :
          /\ WF_mcVars(\/ Only("batch") /\ Batches!GoesOff(i)
                       \/ i <= Total /\ Only("hedge") /\ Hedged!Answers(i)
                       \/ i <= NNodes /\ Only("dag") /\ Graph!Execs(i))
          /\ WF_mcVars(Only("batch") /\ Batches!Callback(i))
    /\ WF_mcVars(\/ Only("delayed") /\ Delayed!Wake
                 \/ Only("timed") /\ Timed!Command
                 \/ Only("pool") /\ schedStop # "no" /\ Pool!Stop
                 \/ Only("hedge") /\ Hedged!DoStep
                 \/ Only("dag") /\ Graph!Run
                 \/ Only("match") /\ Session!Ticker
                 \/ Only("batcher") /\ Collector!Loop)
    /\ WF_mcVars(\/ Only("delayed") /\ Delayed!Drive
                 \/ Only("timed") /\ Timed!TickerFires
                 \/ Only("pool") /\ paused.waking /\ Pool!Resume
                 \/ Only("match") /\ Session!Call
                 \/ Only("batcher") /\ closer # "no" /\ Collector!Close)
    /\ WF_mcVars(\/ Only("delayed") /\ Delayed!Tick
                 \/ Only("timed") /\ Timed!Tick
                 \/ Only("match") /\ Session!Leave)
    /\ WF_mcVars(Only("match") /\ halt # "no" /\ Session!Stop)
    /\ WF_mcVars(Only("match") /\ sub[AKey] = "checked" /\ Session!Subscribe(AKey))

MCSpec == MCInit /\ [][MCNext]_mcVars /\ MCFairness

-----------------------------------------------------------------------------
(* Properties *)

\* keyedmutex.go:63, delayqueue.go:98-99, timerqueue.go:151-153, scheduler.go:161,
\* hedge.go:18, semaphore.go:76, dag.go:75, match.go:206-208 and 259-261,
\* xgo.go:341-348, inproc.go:11, batch.go:15, batcher.go:8 and 46: every lock is
\* granted, every task, timer and message is served, every call ends, but for the
\* exceptions that the module of each states: one thread and one key stand for all, and []<>
\* distributes over primitives of which one moves.
NobodyWaitsForever ==
    /\ []<>(Granted(AThread) /\ Sem!Answered(AThread) /\ Collector!Returned(AThread))
    /\ []<>(Session!Handled(AKey) /\ Topic!Returned(AKey))
    /\ \A e \in Entries \ {AnEntry} : []<>Topic!Caught(e)
    /\ \A n \in Delayed!Tasks : []<>Delayed!Served(n)
    /\ \A n \in Timed!Timers : []<>Timed!Served(n)
    /\ []<>(/\ Session!Told(AKey) /\ Collector!Empty /\ Pool!Returned /\ Gophers!AllTaken /\ Batches!Empty
            /\ which = "hedge" => Hedged!Returned
            /\ which = "dag" => Graph!Returned)
    /\ []<>(Session!Ended /\ Collector!Closed)

\* delayqueue.go:100 and 123, timerqueue.go:208 and 218: what was cancelled or
\* replaced never fires, nothing fires twice, and the index of each queue names
\* what is in its heap.
RevokedNeverFires == Delayed!RevokedNeverFires /\ Timed!IndexNamesHeap

\* scheduler.go:161-169, batcher.go:46: the queue is not closed under a sender,
\* and what was accepted before a stop has been run, or flushed, when it returns.
StopIsClean == Pool!NoSendOnClosed /\ Pool!DrainedAtStop /\ Collector!CloseFlushes

\* hedge.go:18, dag.go:27 and 75-77, xgo.go:202-208: Do fails only when all calls
\* have failed; a node runs after what it depends on, and Run reports what
\* happened; a group waits for its tasks and reports an error that one returned.
ResultsAreRight == Hedged!AnswerIsRight /\ Graph!DependenciesFirst /\ Gophers!GroupCounts

\* broadcaster.go:26-31, inproc.go:9-12, batch.go:15: values arrive in order
\* and the newest one is not lost; a message reaches everybody chosen, and one of
\* a group; a message that waits for its batch has a timer.
MessagesArrive == Stream!LatestSurvives /\ Topic!FanOutOrCompete /\ Batches!WaitingHasTimer

\* semaphore.go:83-89, party.go:264-272, wallet.go:1-8, group.go:14-16: what is
\* counted, reserved or booked adds up and never exceeds its limit, and a refused
\* transaction is not remembered; a party has one leader, a group at most one
\* owner, and nobody in it whom it excluded.
AccountsAddUp == Sem!CostsFit /\ Team!SeatsFit /\ Purse!BooksBalance /\ Club!RolesAgree
=============================================================================
