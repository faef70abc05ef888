--------------------------- MODULE MCCoordination ---------------------------
(***************************************************************************)
(* Instances for TLC of what several processes, or several lives of one,   *)
(* do together: the three coordinators of pkg/orchestration, the Redis job *)
(* queue, the Store mode of idempotency, the etcd registry and the client  *)
(* that discovers its servers, webhooks, and the handing over of entities. *)
(* They share nothing, so a behaviour is one of a single component, chosen *)
(* at the start; the others stay in their initial states.                  *)
(* "queue" is the Redis queue of several processes, "failing" that of one  *)
(* whose commands may fail, and "retrying" that of one that retries its    *)
(* jobs and never stops.                                                   *)
(***************************************************************************)
EXTENDS Txn, FiniteSets

CONSTANTS
    NSteps, MaxCrashes,                          \* saga and tcc
    Compensable, CompRetries,                    \* saga
    HasConfirm, HasCancel, ConfirmRetries, CancelRetries,  \* tcc
    Jobs, Procs, Loops, MaxRetries, MaxStops,    \* redisqueue
    Callers, MaxErrors, MaxExpiries,             \* idempotency, and redisqueue
    Instances, MaxFaults,                        \* etcdv3
    Clients, Getters, Addrs, Retries, MaxEvents, \* the discovery client
    MaxPosts,                                    \* webhook
    MaxOps, MaxMoves                             \* handoff

\* Steps and branches are numbered, retries are counted, and a placeholder is not
\* a result.
ASSUME FlowAssumption ==
    /\ NSteps \in Nat /\ MaxCrashes \in Nat
    /\ Compensable \subseteq 1..NSteps /\ CompRetries \in Nat
    /\ HasConfirm \subseteq 1..NSteps /\ ConfirmRetries \in Nat
    /\ HasCancel \subseteq 1..NSteps /\ CancelRetries \in Nat
ASSUME StoreAssumption ==
    /\ None \notin Callers /\ "processing" \notin Callers \cup {None}
    /\ MaxErrors \in Nat /\ MaxExpiries \in Nat

\* The background loops belong to processes, a job without data has no number of
\* attempts, and a call of Notify is not one of Replay.
ASSUME QueueAssumption ==
    /\ Loops \subseteq Procs /\ None \notin Nat
    /\ MaxRetries \in Nat /\ MaxStops \in Nat
ASSUME HookAssumption ==
    /\ IsFiniteSet(Runs) /\ IsFiniteSet(Loops) /\ Runs \cap Loops = {}
    /\ MaxPosts \in Nat \ {0}
ASSUME ClientAssumption == Retries \in Nat /\ MaxEvents \in Nat
ASSUME MigrationAssumption == MaxOps \in Nat /\ MaxMoves \in Nat

VARIABLES
    which,  \* the component of this behaviour
    at, step, failed, tries, status, outcome, cancelled, crashes,  \* saga and TCC
    applied, undone,  \* the services of the saga
    resource,         \* the resources of TCC
    db, go, fate, budget,
    record, request, storeLeft, spoiled,
    etcd, reg, undo, watch, notify, faults,
    members, client, once, feed, bg, stopping, calls, left,
    marked, dlq, call, records,
    source, target, bundle, tail, kept, local, arrived, moves, ack, astray

flow == <<at, step, failed, tries, status, outcome, cancelled, crashes>>
queue == <<db, go, fate, budget>>
store == <<record, request, storeLeft, spoiled>>
registry == <<etcd, reg, undo, watch, notify, faults>>
discovery == <<members, client, once, feed, bg, stopping, calls, left>>
webhook == <<marked, dlq, call, records>>
entity == <<source, target, bundle, tail, kept, local, arrived, moves, ack, astray>>
allVars == <<vars, which, flow, applied, undone, resource, queue, store, registry, discovery,
             webhook, entity>>

Saga == INSTANCE Saga WITH
    pc <- at, comp <- outcome, N <- NSteps

Tcc == INSTANCE Tcc WITH
    pc <- at, b <- step, state <- resource, N <- NSteps

Queue == INSTANCE RedisQueue WITH Cleaners <- {}, MaxErrors <- 0
Failing == INSTANCE RedisQueue WITH Procs <- Loops, Cleaners <- Loops
Retrying == INSTANCE RedisQueue WITH
    Procs <- Loops, Cleaners <- {}, MaxRetries <- 1, MaxStops <- 0, MaxErrors <- 0, MaxExpiries <- 0
Store == INSTANCE StoreIdempotency
Registry == INSTANCE EtcdRegistry
Client == INSTANCE DiscoveryClient WITH Callers <- Clients
Hook == INSTANCE Webhook WITH Notifies <- Runs, Replays <- Loops
Migration == INSTANCE Handoff

MCInit ==
    /\ Init /\ Store!Init /\ Registry!Init /\ Client!Init /\ Hook!Init /\ Migration!Init
    /\ \/ /\ which \in {"saga", "txn", "queue", "failing", "retrying", "store", "registry",
                       "client", "webhook", "handoff"}
          /\ Saga!Init
          /\ resource = [c \in 1..NSteps |-> "free"]
       \/ /\ which = "tcc"
          /\ Tcc!Init
          /\ applied = {} /\ undone = {}
    /\ CASE which = "failing" -> Failing!Init
         [] which = "retrying" -> Retrying!Init
         [] OTHER -> Queue!Init
    /\ which = "client" \/ members = {}

\* A step is one of component w and leaves the others as they are.
Only(w) ==
    /\ which = w /\ UNCHANGED which
    /\ IF w = "txn" THEN TRUE ELSE UNCHANGED vars
    /\ IF w \in {"saga", "tcc"} THEN TRUE ELSE UNCHANGED flow
    /\ IF w = "saga" THEN TRUE ELSE UNCHANGED <<applied, undone>>
    /\ IF w = "tcc" THEN TRUE ELSE UNCHANGED resource
    /\ IF w \in {"queue", "failing", "retrying"} THEN TRUE ELSE UNCHANGED queue
    /\ IF w = "store" THEN TRUE ELSE UNCHANGED store
    /\ IF w = "registry" THEN TRUE ELSE UNCHANGED registry
    /\ IF w = "client" THEN TRUE ELSE UNCHANGED discovery
    /\ IF w = "webhook" THEN TRUE ELSE UNCHANGED webhook
    /\ IF w = "handoff" THEN TRUE ELSE UNCHANGED entity

MCNext ==
    \/ Only("saga") /\ Saga!Next
    \/ Only("tcc") /\ Tcc!Next
    \/ Only("txn") /\ Next
    \/ Only("queue") /\ Queue!Next
    \/ Only("failing") /\ Failing!Next
    \/ Only("retrying") /\ Retrying!Next
    \/ Only("store") /\ Store!Next
    \/ Only("registry") /\ Registry!Next
    \/ Only("client") /\ Client!Next
    \/ Only("webhook") /\ Hook!Next
    \/ Only("handoff") /\ Migration!Next

\* The fairness that each module states, for the component that was chosen.  The
\* steps of different components are never enabled together, so that a fairness
\* of each is the fairness of their disjunction; and a step of a component changes
\* no variables but its own, so that those are the subscript.
triggered == <<flow, applied, undone, resource, registry, discovery>>
found == <<registry, discovery>>
MCFairness ==
    /\ WF_triggered(\/ Only("saga") /\ Saga!Run
                    \/ Only("tcc") /\ Tcc!Run
                    \/ Only("registry") /\ Registry!WatchSnapshot
                    \/ Only("client") /\ Client!EndOnce)
    /\ WF_triggered(\/ Only("saga") /\ Saga!Ack
                    \/ Only("tcc") /\ Tcc!Ack
                    \/ Only("registry") /\ Registry!WatchLoop
                    \/ Only("client") /\ Client!Callback)
    /\ WF_triggered(\/ Only("saga") /\ Saga!Redeliver
                    \/ Only("tcc") /\ Tcc!Redeliver
                    \/ Only("registry") /\ Registry!Notify
                    \/ Only("client") /\ Client!ApplyServiceUpdate)
    /\ \A r \in Runs :
          /\ WF_vars(Only("txn") /\ Progress(r))
          /\ WF_vars(Only("txn") /\ HookRuns(r))
    /\ \A p \in Procs : WF_queue(Only("queue") /\ Queue!Consume(p))
    /\ \A p \in Loops :
          /\ WF_queue(\/ Only("failing") /\ Failing!Consume(p)
                      \/ Only("retrying") /\ Retrying!Consume(p))
          /\ WF_queue(\/ Only("queue") /\ Queue!DelayScheduler(p)
                      \/ Only("failing") /\ Failing!DelayScheduler(p)
                      \/ Only("retrying") /\ Retrying!DelayScheduler(p))
          /\ WF_queue(\/ Only("queue") /\ Queue!StalledChecker(p)
                      \/ Only("failing") /\ Failing!StalledChecker(p)
                      \/ Only("retrying") /\ Retrying!StalledChecker(p))
    /\ \A j \in Jobs :
          WF_queue(\/ Only("queue") /\ Queue!Orphaned(j) /\ Queue!LockExpires(j)
                   \/ Only("failing") /\ Failing!Orphaned(j) /\ Failing!LockExpires(j)
                   \/ Only("retrying") /\ Retrying!Orphaned(j) /\ Retrying!LockExpires(j))
    /\ \A n \in Instances :
          /\ WF_found(\/ Only("registry") /\ Registry!Loop(n)
                      \/ Only("client") /\ Client!Drains)
          /\ WF_found(\/ Only("registry") /\ undo[n] = "delete" /\ Registry!Deregister(n)
                      \/ Only("client") /\ stopping = "wait" /\ Client!Close)
          /\ WF_registry(Only("registry") /\ Registry!Expire(n))
    /\ \A c \in Clients \cup Getters : WF_discovery(Only("client") /\ Client!Progress(c))

MCSpec == MCInit /\ [][MCNext]_allVars /\ MCFairness

-----------------------------------------------------------------------------
(* Properties *)

\* saga.go:65-72, tcc.go:57-64: the status that Execute returns is what really
\* happened in the services, and to the resources.
StatusIsHonest ==
    /\ which = "saga" => Saga!StatusIsHonest
    /\ which = "tcc" => Tcc!StatusIsHonest

\* saga.go:28, tcc.go:222 and 246-248, txn.go:195-197, redisqueue.go:7: neither a
\* cancelled caller nor crashes keep a trigger from being settled, with no
\* completed step and no tried branch passed over; a hook in the list of a
\* transaction that commits is run; and a submitted job ends, unless a stop or a
\* failed command lost it between two sets or a stale write set it back.
AllSettle ==
    /\ []<>((which = "saga" => Saga!Settled) /\ (which = "tcc" => Tcc!Settled))
    /\ HookIsRun
    /\ Queue!JobEnds

\* saga.go:207 and 223, txn.go:108: a saga compensates a step after every later
\* completed one, and a transaction rolls its participants back last first.
ReverseOrder == Saga!ReverseOrder /\ ReverseRollback

\* saga.go:14 and 24, txn.go:160-168 and 195-197, discovery.go:361, webhook.go:172,
\* handoff.go:7 and 90-91: a saga only undoes what it did, however often the
\* trigger is delivered; a hook is only started by a transaction all of whose
\* participants have committed, its own if it was registered in the body and the
\* body did not panic; a call is not retried on a node that failed it while its
\* list has another; an event is notified once; and an entity has one writer, who
\* replays what was buffered in order.
NothingOutOfTurn ==
    /\ Saga!UndoneWasApplied
    /\ which = "txn" => HooksFollowCommit
    /\ which = "client" => Client!RetryElsewhere
    /\ which = "webhook" => Hook!NotifiedOnce
    /\ which = "handoff" => Migration!OneWriter /\ Migration!ReplayInOrder

\* tcc.go:16-18: nothing is confirmed before every branch is reserved.
TccConfirmNeedsAll == Tcc!ConfirmNeedsAll

\* redisqueue.go:241-416, discovery.go:595-638 and 695-787, webhook.go:7 and 140,
\* handoff.go:8: a job is in one of the sets or in the hands of a process, unless
\* that process stopped, or one of its commands failed, between taking the job from
\* a set and putting it into the next; an open connection of the discovery client
\* is in its map or being drained; a delivery that was given up is a dead letter or
\* has been replayed; and an operation on an entity that migrates is executed once,
\* or waits to be.
NothingIsLost ==
    /\ which = "queue" => Queue!JobIsSomewhere
    /\ which = "failing" => Failing!JobIsSomewhere
    /\ which = "retrying" => Retrying!JobIsSomewhere
    /\ which = "client" => Client!NoConnectionLost
    /\ which = "webhook" => Hook!DeadLettersKept
    /\ which = "handoff" => Migration!OperationsSurvive

\* idempotency.go:164-169, 348-351 and 460: one owner of a key and one result,
\* unless the record vanished under them.
StoreAgrees == Store!OneOwner /\ Store!SameResult

\* registry.go:91-98, 146-191 and 263-389, discovery.go:317-413 and 661-693: a live
\* instance comes back after every fault, one that left stays away, what a watcher
\* was last told is what etcd contains, and the list of a client that watches is
\* what its registry holds; its calls and its Close return.
DiscoveryConverges ==
    /\ Registry!StaysRegistered
    /\ <>[](/\ Registry!Away /\ Registry!Told
            /\ which = "client" => Client!Converged /\ Client!Returned)
=============================================================================
