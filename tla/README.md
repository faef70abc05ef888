# A TLA+ model of beauty

[beauty](../src/README.md) is a Go framework for services: an application
container that starts and stops servers, and around it a library of packages
for jobs, transactions, locks, breakers, clients and transports. This directory
holds TLA+ models of the packages that carry its concurrent logic, TLC
configurations that check them on small instances, and TLAPS proofs of the most
important properties for all instances. `PROJECT.json` is the index: components,
runs, mutants, the map from definitions to source lines, findings, hazards and
theorems.

    tlc -config MCCoordination.cfg MCCoordination    # one run
    tlapm JobQueueProofs.tla                         # one proof module

## 1. The system

### Components with state worth modelling

| Component | State | Operations | What is hard | What makes it correct |
|---|---|---|---|---|
| Application (`beauty.go`, `signals`) | the `ready` word, per service an orchestrator and a serve goroutine, registrations | `App.Start`, signals, hooks, register, deregister, drain, stop | readiness, shutdown, server exit and registration failures race in selects; `App.Start` may be called again | deregister before stop, drain before stop, nothing outlives the run, shutdown completes |
| `jobqueue` | heap, delayed list, active map, wake-up channel, pause flag and condition variable | Submit, Cancel, Pause, Resume, Start, Stop, workers, delay scheduler | two locks, one channel and one condition variable; retries go round through three places | a job is in one place, cancel is final, accepted jobs end, Stop returns |
| `delayqueue`, `timerqueue` | heap and index of tasks, wake-up or command channel, driver | Schedule or Add, Cancel or Remove, Stop, the driver | a task is popped under the lock and fired after it; commands wait in a channel | what was cancelled or replaced never fires, everything else does once |
| `scheduler`, `xgo` worker pool, `syncx` Batcher | task channel or list, workers, closed flag | Submit or Go or Add, Pause, Resume, Stop or Close, Wait | closing a channel with senders, dropped wake-ups, draining at the end | no send on a closed channel, accepted work is done when Stop returns, no task waits for ever |
| `redisqueue` (contrib) | waiting, delayed, active and failed sets, job data, locks, all in Redis | Submit, consumer, delay scheduler, stalled checker, ReportProgress, Clean | every move is two commands, several processes, stops in between | a job is somewhere, and ends |
| `idempotency` | a record per key with result, expiry and a done channel; or a record in a store | Do, Acquire, Commit, Release, Forget, gc, Stop | callers sleep outside the lock on a channel of a record that others replace; the store has no owner token | one execution at a time, one result, waiters wake, a forgotten result is not reused |
| `keyedmutex`, `semaphore` | map from keys to counted entries; a count | Lock, TryLock, unlock; Acquire, TryAcquire, Release | entries are removed and made anew while others are between two locks | mutual exclusion per key, no leaked entry, the count fits, locks are granted |
| Redis lock and elector (`infra/redis/dlock.go`) | the key in Redis with its TTL, tokens, renewal goroutines | TryLock, Lock, Unlock, Run | lost, late and failed requests, expiry, crash | at most one leader, a leader holds the key, a dead leader's key is freed |
| Circuit breakers (three packages) | state, generation, counts, deadlines, probe slots | Execute/Do, Available, Report, Reset | results of calls admitted in an earlier phase | documented transitions only, limited probes, never stuck half-open, recovery |
| `saga`, `tcc` | result of one execution; the services' effects | Execute | failing calls with effects, failing compensations, crash and redelivery | status agrees with effects, reverse order, no early confirmation, everything is settled |
| `txn` | participants, hook list, `runMu` | Enlist, OnCommit, Run | one hook list for all Runs, partial commits, panics | all or nothing, hooks only after their commit |
| `hedge`, `dag` | launched calls and results; levels of nodes | Do; Run | early answers, failures, cancellation | the answer is right, dependencies run first, calls return |
| etcd registry | key, lease, keep-alive loop, watcher | Register, Deregister, Watch | the loop registers anew while Deregister deletes; watches break | a live instance stays registered, one that left stays away, watchers learn of it |
| gRPC discovery client | list of instances, connections, start and stop | Start, GetClient, Call, updates, health check, Close | calls work on copies while updates replace lists and drain connections | no connection is lost, no retry on a failed node, the list converges, calls and Close return |
| stream broadcaster, `mq` broker and batches | subscriptions with bounded buffers, round-robin, timers | Subscribe, Publish, Close | drop-oldest by concurrent publishers, sends after the unlock, stale timers | newest value survives, fan-out and competing consumers, no message without a timer |
| `webhook` | delivery marks, dead letter queue | Notify, Replay | a failed delivery is unmarked, recorded and queued in three steps; posts may fail after they arrived | one Notify delivers an event, a dead letter is kept until it is replayed |
| `handoff` | phase, state and buffer at the source; phase and state at the target | Begin, Buffer, Export, DrainBuffer, Release, Abort; Import, UpdateState, Accept | operations arrive during the move, the bundle may be lost, an Abort races with its arrival | one writer, every operation is executed, in order |
| `match`, `party`, `group`, `wallet` | tick loop and its queues; members and reservations; roles; balances and ledgers | their calls | stop and overflow of the loop, seats reserved by requests, transfers, int64 limits | every call is answered, seats fit, one owner, books balance |

They interact by calls. The discovery client picks a node from what a registry's
watch reported and asks a `NodeBreaker` about it; the application registers its
servers with the same registries; cron runs its jobs under an elector; saga, tcc
and txn are three ways of composing calls to domain packages such as the wallet;
job functions are typically wrapped in `idempotency`. Apart from those calls they
share no state, which is why they are modelled as modules of their own, each with
what it calls as its environment. The other parts of the repository are listed
in `PROJECT.json` with the reason why they are not modelled, and in section 7.

### Hazards

`PROJECT.json` lists forty, at the line where they bite. In short: selects and
test-then-wait sequences that race (application, jobqueue, scheduler), condition
variable and channel wake-ups (jobqueue, idempotency, delayqueue, worker pool),
state found again by key after a lock was released (idempotency, keyedmutex, txn's
hook list, the discovery client's map), results that come back in a later phase
(breakers, timers of a batch), protocols between two processes that one of them
gives up (handoff), leases measured from different clocks (Redis lock),
moves made of two or three steps (redisqueue, webhook), calls that fail after they took effect
(saga, tcc, txn) and sums that wrap (wallet).

## 2. Modules

Every component has a module `X.tla` (state, actions, specification, properties
and, next to the definition they replace, the mutants; for the components with
proofs also the inductive invariant) and for some components a module
`XProofs.tla`. The proofs of `Lifecycle` are at the end of the module itself, those of
the in-process primitives, `KeyedMutex` among them, in `PrimitivesProofs`, and those of the
saga, TCC, stored idempotency, transactions, webhooks, discovery client and handoff in
`CoordinationProofs`. Properties carry the source lines that promise them.

`Lifecycle` and `Idempotency` are run as they are; the option `WithCacheErrors` is a
variable of `Idempotency`, `cacheErrors`, chosen in its initial state. The `MC` modules
instantiate the others for TLC, with one `.cfg` per run. Where one run
covers several instances, the MC module adds a variable that is chosen in the
initial state and never changes, so that a behaviour is one of a single instance:
`pausing` in `MCJobQueue` (clients pause the queue, or never do), `mixed` in
`MCRedisLock` (two electors,
or an elector and a user of the lock), and `which` in `MCBreakers` (the three
breakers, with and without manual resets), in `MCPrimitives` (sixteen in-process
primitives) and in `MCCoordination` (saga, TCC, local transactions
with panics and hooks registered before Run or in the body, the Redis queue with stops,
with failing commands or with retries, the idempotency store, the registry, the discovery client, webhooks, a handoff). Each of their properties
is one sentence about several components, a conjunction of what their modules
state; the components that do not move satisfy it in their initial states.

| Module | Models | Notes |
|---|---|---|
| `Lifecycle` | `beauty.go`, `service.go`, `signals` | one action per step of `App.Start`, of `startService`'s two goroutines and of the signal goroutine. Registries and servers are external. Hooks do not fail |
| `JobBoard` | what a job queue promises | the abstract life of a job: accepted or refused, begun, completed, retried, failed, cancelled |
| `JobQueue` | `jobqueue.go` | the critical sections of `q.mu` are atomic, what happens outside it (state writes, the pause test, the wake-up channel) is not. Refines `JobBoard` |
| `DelayQueue` | `delayqueue.go` | the driver's sleep, the wake token and the gap between popping a task and starting it are steps of their own |
| `TimerQueue` | `timerqueue.go` | commands in a bounded channel, the loop over heap and index, repeating timers |
| `Scheduler` | `scheduler.go` | senders that hold the read lock while the channel is full, Stop, pause and its condition variable |
| `WorkerPool` | `xgo.go` | task list, one-place signal channel, growth of the pool, error groups, Close |
| `Batcher`, `Batch` | `syncx/batcher.go`, `mq/batch.go` | collecting loop with timer and Close; timers whose callbacks may come late. The result of the handler's `fn` and its ctx are not in `Batch`: the code acts on neither (section 4) |
| `RedisQueue` | `contrib/redisqueue` | one Redis command per step; processes stop between any two, and any command may fail. `fate` is a history variable: what became of a job that is no longer the queue's |
| `Idempotency` | `idempotency.go`, memory mode | one key. Records are told apart by their creator, so that "the entry of the key" and "my entry" differ as they do in the code |
| `StoreIdempotency` | `idempotency.go` and `kvstore.go`, store mode | one key in a store with set-if-absent and expiry. `spoiled` remembers that a record vanished under its owner |
| `KeyedMutex` | `keyedmutex.go` | entries are pointers that can be reallocated |
| `Semaphore` | `semaphore.go` | weighted, with its polling wait |
| `RedisLock` | `infra/redis/dlock.go` | discrete time; Redis is modelled from the commands and scripts in the file; requests may be executed late, or their answers lost |
| `BreakerStates` | the documented state machine | closed, open, half-open and the arrows between them |
| `CircuitBreaker` | `middleware/circuitbreaker` | a constant operator `ReadyToTrip` is the trip policy; generations tell stale results |
| `RateBreaker` | `resilience/circuitbreaker` | results carry the phase they were admitted in, as the code's closures do |
| `NodeBreaker` | `governance/circuitbreaker` | one node, driven as `client/grpcclient/discovery.go` drives it |
| `Saga` | `saga.go` | the services are the sets `applied` and `undone`; the at-least-once trigger is the one the package comment prescribes |
| `Tcc` | `tcc.go` | a resource per branch: free, frozen, confirmed, released |
| `Txn` | `txn.go` | a participant is what the coordinator knows of it: open for a run, or not, and which runs committed. `early` and `starter` are histories: the hooks registered before Run, and the Run that started a hook |
| `Hedge` | `hedge.go` | calls launched one after the other or at once; answers, failures, cancellation |
| `Dag` | `dag.go` | every graph over the nodes, the empty one included; Kahn's layers as a recursive function over in-degrees; fail-fast or not, bounded parallelism |
| `EtcdRegistry` | `discover/etcdv3/registry.go` | etcd's keys, leases and watches are external. Lease loss, failed Puts and broken watches are the faults |
| `DiscoveryClient` | `client/grpcclient/discovery.go`, `bannednodes` | the registry is external. The balancers are a choice among the candidates, or none where the code can miss them. `late` tells that a refresh has stored an older list |
| `Webhook` | `messaging/webhook` | one event and one registered endpoint; the steps after a failure are under locks of their own |
| `Handoff` | `handoff.go` | the package and its two callers as its comment prescribes them; the transport may lose the bundle. `astray` remembers the operations that the protocol itself gives up |
| `Broadcaster` | `messaging/stream` | publishers under the shared lock, drop-oldest and drop-newest |
| `Broker` | `messaging/mq/inproc.go` | broadcast and competing subscriptions with bounded buffers, Close |
| `Match`, `Party`, `Group`, `Wallet` | `game/match`, `domain/*` | the tick loop and its signals; calls under one mutex, as single steps. The wallet's integers lie between `-Half` and `Half - 1` (2^63 in the code) and wrap |

Time is abstracted to "may have elapsed" actions (expiry, drain window, open
timeout), except in `RedisLock`, whose safety is a matter of durations, and the
timed queues, whose clocks are small. Names, payloads, log lines, durations of
steps and backoff delays are left out.

## 3. Runs

Bounds are the smallest at which the hazards of the component happen, and one
more where that is cheap.

| Run | Instance | Checks |
|---|---|---|
| `lifecycle` | one call of `App.Start`; a discoverable service in two registries, so that registration can fail in the second, and a plain one; a drain delay | deregistration and drain before stop, readiness before registration, nothing outlives the run; every reason to stop leads to the return of `App.Start` |
| `jobqueue` | two workers; an urgent job and a delayed one with one retry each; cancels and a stop at any moment; at most one pause; a wake-up channel with room for every token | one place per job, tokens cover the ready jobs, silence after Stop, refinement of `JobBoard`; if never paused: accepted jobs end and Stop returns |
| `idempotency` | four callers, two of which use Acquire, Commit and Release and two Do; panics, one Forget, expiry; errors cached or not | one execution at a time unless forgotten, waiters get the result of a real execution or the zero one of a panic, a forgotten result is not reused, no channel is closed twice, waiters wake |
| `redis_lock` | two electors with TTL 6, renewal every 2 and answers within 1; or an elector and a lock user over two sessions each, so that requests of an old session meet a new one | a leader holds the key and renews it; the key of a process that is gone expires |
| `breakers` | three calls on each breaker, two probes, trip and recovery at any moment; five generations, so that a result can come back three changes of state later | every request counted once and in its own window (request breaker), limited probes, no half-open breaker is stuck, late results are ignored (request breaker), documented arrows only (request and node breaker without a reset), recovery (all three) |
| `primitives` | sixteen primitives: three threads on two keys and three entry addresses; two tasks or timers; two workers on a one-place queue; three hedged calls; three graph nodes; three publishers on two-place buffers; three players on three seats; costs 1 and 2 of a semaphore; one timer ID; a wallet of one owner, one transaction ID and 3-bit integers; and so on, see the cfg | mutual exclusion and no leaked entry; revoked tasks never fire; stops are clean; results are right; messages arrive; accounts add up; nobody waits for ever |
| `coordination` | saga and TCC over four steps, the second without compensation or confirmation, every pattern of failure before and after the effect, one or two retries, cancellation, two crashes; two concurrent Runs over at most two participants, with panics and early hooks; one job and two processes, one stop, one early expiry of a lock, or one process with a failed command, a stop, an expiry and cleaning, or one process and a retry; three callers of one stored key; an instance and a watcher with two faults; a caller with one retry and a user of GetClient over two addresses with one change, failure or closed connection; two Notify calls of two posts each and a Replay; two operations on an entity that is handed over up to two times | statuses agree with the services, reverse order, nothing out of turn, no early confirmation, all or nothing, a job is lost only by a stop or a failed command between two sets, no dead letter, connection or handed over operation is lost, one owner and one result per stored key; triggers, hooks and jobs are settled; discovery converges |

The limits of `jobqueue` and `redis_lock` are needed: the violation runs of section 4
show what happens beyond them. `MaxCount` and `MaxTotal` cap the counters of the
breakers above every threshold; every other bound (`Gens`, `MaxCrashes`, `MaxForgets`,
`MaxPauses`, `MaxSessions`, `MaxTasks`, `MaxAdds`, `MaxValues`, `MaxLedgers`,
`MaxRetries`, `MaxStops`, `MaxErrors`, `MaxExpiries`, `MaxFaults`, `MaxEvents`, `MaxPosts`,
`MaxOps`, `MaxMoves`) is a
guard of the action it limits (`MaxErrors` limits the failed calls of the idempotency
store and the failed commands of the Redis queue). One stop of a queue process, one
failed command, one expiry, two faults of a registry and one event of a discovery client are enough because each hazard
listed for them needs one fault at an unlucky moment, and the moment is free; two
processes, callers or publishers are the least that race, and three where the third
meets what two have left behind.

Runs with `CHECK_DEADLOCK FALSE` are those whose system ends: an application
that has returned, a queue that has stopped, a lock nobody asks for again, a
transaction that is settled. That nobody is stuck there is what the liveness
properties say.

### Mutants

Every property of a passing run is broken by at least one mutant, a definition next
to the one it replaces, and where a property speaks of several components, most of
them have one: a dropped guard, a lost wake-up, a missing re-check under the lock, a
swapped order.

### Fairness

Liveness is only checked with weak fairness of the steps a goroutine takes by
itself: Go's scheduler runs every runnable goroutine, timers fire, a select with
several ready cases takes each of them now and then, and the functions a caller
passes in return (the packages make the same assumption). `sync.Mutex` hands itself
over after a millisecond of starvation, hence the strong fairness of `LockEntry`. No
fairness is assumed of what the environment may or may not do: signals, crashes,
failures, cancellations, new calls, Pause, Cancel or Forget. `Saga` and `Tcc` also
assume that the trigger redelivers, which is what an at-least-once queue is;
`RedisQueue` that the lock of a process that is gone expires and that one process
goes on; `EtcdRegistry` that leases end and watches tell; `DiscoveryClient` that the
registry's watch tells what it holds. `Recovers` of the breakers is conditional on a
service that has become healthy and on calls being made.

In `MCPrimitives` and `MCCoordination` one fairness conjunct serves a step of each of
several components. Only one component moves in a behaviour and the steps of the
others are never enabled, so weak fairness of the disjunction is weak fairness of the
one disjunct that can be enabled. In `MCPrimitives` the waiting thread, key and subscriber
of the liveness property is a fixed one (`AThread`, `AKey`). Threads and keys are
interchangeable there, so what holds for one holds for all; and the strong
fairness of a lock is assumed for that one only, which makes the property stronger.

## 4. Findings

Five are runs that expect a violation, with the quoted line in `PROJECT.json`.

| Run | What the code does |
|---|---|
| `jobqueue_lost_wakeup` | Resume broadcasts without `pauseMu`; a worker can sleep for good and Stop hangs |
| `jobqueue_full_signal` | dropped wake-up tokens strand ready jobs when more than QueueSize are ready |
| `idempotency_panic` | a caller that waits on a panicking fn gets the zero result and no error |
| `redis_lock_slow_reply` | the lease is supervised from the answer, not from the request: a slow answer makes two leaders |
| `txn_early_hooks` | the hook list belongs to the Coordinator: a hook registered before Run is started by another goroutine's Run, and fires although its own transaction is rolled back |

Others were met while modelling. Unless the entry says otherwise they are in the
models, and the properties are stated so that they hold in spite of them; no run of
their own shows them:

- application: a signal goroutine resets `ready` late (beauty.go:163), so that a third
  `App.Start` may begin beside a second one. Nothing says how many may be active then, and
  no property is about it.
- idempotency: Commit after a Forget writes into the record of the next owner, and
  Forget of a guard's record leaves its Do waiters without a wake-up (`forgotten` and
  `GuardForgotten` in the properties); Acquire returns a cached result without its
  cached error. In store mode the placeholder has no owner token: after an expiry a
  slow owner commits over, or releases, the next owner's record (`spoiled`).
- error-rate breaker: running probes do not count against the limit, and the late
  success of an earlier phase closes an open breaker.
- node breaker: a report from before the trip frees the probe slot, so that a second
  probe may run.
- saga: a redelivery after a crash in the compensation can commit over compensated
  steps (`StatusIsHonest` is about one execution).
- tcc: a Try that reserved and then failed is never cancelled (`StatusIsHonest`
  leaves out the branch whose Try failed).
- txn: a recovered panic leaves hooks and prepared participants behind, and a later Run
  starts those hooks. `HooksFollowCommit` says what is true of every hook: the Run that
  started it has committed, and that Run is its own unless the hook was registered before
  Run or a panic left it. `AllOrNothing` leaves out the runs that panicked.
- redisqueue: a process that stops between ZPOPMIN and SADD, SREM and ZADD, or ZREM and
  ZADD takes the job along. In a process that goes on, a job is lost by a failed GET after
  the ZREM, by a failed ZADD or SADD at the end of a move, and by a lost answer of ZPOPMIN.
  Lines 5 and 7 of the package comment promise that a crash loses nothing, and line 17 that
  a Lua script makes every move atomic; there is no such script. All of these losses are
  steps of `RedisQueue`; they set `fate` to "lost", and `JobIsSomewhere` says that there
  are no others. The stalled checker may queue a job again that is being run,
  from the gaps between SADD and the lock, between the lock's deletion and SREM, and
  from an old list of ids. Checker, scheduler and ReportProgress write back a whole
  job they read earlier, so that an old Attempts replaces a newer one and a job can be
  retried beyond MaxRetries, even for ever (`fate` "reset", which the liveness of jobs
  excludes). Clean racing with the last save leaves data that belongs to no set.
- scheduler: the missed wake-up of the job queue is also here (`MissedWakeup`): Resume
  broadcasts without `pauseMu`, and Stop then waits for a worker that sleeps.
- timer queue: the comments at lines 153 and 172 promise false when the queue is not
  running; the code returns false only when the command channel is full.
- xgo: a task of an error group that is skipped because the context is done never
  calls `wg.Done`, so that Wait hangs (lines 390-396); a worker may choose the close
  signal while tasks are pending, and Close returns with an accepted task never run;
  the pool may exceed its capacity, which is checked before and not while a worker is
  added.
- mq: Publish blocks for ever on a subscription that ended with a full buffer, after
  Close too. Batch: line 16 of batch.go says that an error of `fn` fails the whole batch
  and line 17 that a cancelled ctx flushes what is left. The code does neither: the handler
  has returned nil for every message but the one that fills the batch, the timer's flush
  drops the error (line 79), and ctx is not looked at (docs/mq-batch.md:50 concedes that a
  graceful shutdown may not flush). `Batch` has neither errors nor ctx and is about line 15
  only. syncx Batcher: an Add that races with Close may be lost silently.
- match: a subscriber that checked `stopped` just before the loop ended is never
  closed. party: a request may be accepted by the old leader after the party stopped.
- group: the owner may demote or promote himself or transfer ownership to himself,
  which leaves no owner, and TransferOwner and Promote take a pending applicant, past
  MaxMembers (`overbooked`), although a comment asks for a member or admin.
- discovery client: concurrent calls move one round-robin index, so that the
  `len(services)` attempts of a call may miss its only candidate, against
  discovery.go:474-475; a refresh may replace a newer list of the watch by an older
  one (`late`); a failed Start uses up `startOnce`, so that the client never watches;
  a Call after Close makes a connection that nobody closes, and one that works on
  an old copy connects to a removed address until the next update.
- webhook: the mark is taken away before the letter is pushed, so that another Notify
  may deliver the event and Replay delivers it once more, against webhook.go:5; Replay
  posts an event without its payload (as its comment says). It also drops the letter of an
  endpoint that is no longer registered (webhook.go:240-242); that case is not modelled.
- handoff: Release drops what was buffered after the last DrainBuffer; an operation that
  Buffer left to its caller may be executed after the snapshot was taken; an Abort while
  the bundle can still arrive makes two owners (all three: `astray`). `Source.state` is
  set by NewSource only, so that with a value type the snapshot is older than the
  "迁移起始时刻的完整状态" of handoff.go:88; the model is of a reference.

Read but not modelled: `storage.WriteBatch` rolls back in forward order, so that a
failing batch with one key twice leaves its intermediate value; mail's Claim checks and
updates in two calls and can pay twice; presence publishes outside its lock, so that
events may change places; `pipeline.Run` returns partial results and no error when
its context is cancelled; `BatchCollector.Stop` does not flush.

## 5. Proofs

Eight modules hold theorems, all checked by TLAPS to the last leaf. They hold for
every value of the constants that satisfies the named assumptions of the modules
(`ConstantsAssumption`; in `MCCoordination`, one per group of components:
`FlowAssumption`, `StoreAssumption`, `QueueAssumption`, `HookAssumption`,
`ClientAssumption`, `MigrationAssumption`; in `MCPrimitives`, `BoundsAssumption`). The
assumptions say that counts are natural numbers, that special values such as `None` are
not members of the sets they stand beside, and that what is counted is finite; TLC
evaluates them in the runs. A few say that a number is positive, because the code makes it
so: the broadcaster's buffer (`broadcaster.go:42-48` and 57), the size of a batch
(`batch.go:29-31`, `batcher.go:24-26`) and the number of hedged calls (`hedge.go:23-26`).
Where a theorem needs more, its statement says so.

Each invariant is stated at the end of its component's module, as a conjunction of named
parts, and the proof that a step keeps it has one step or lemma per action.

### The application and the breaker

*`Lifecycle`.* `IInv` joins the type invariant with: what a
service's two goroutines may hold at each of their program points (a registration
only between registering and unwinding, a live server only before its stop), and that
a run past its join has no goroutine and no registration. `DeregisterBeforeStop` and
`NothingOutlivesRun` follow from it, for any number of overlapping calls of
`App.Start`; `AdvertisedOnlyWhenReady` and `DrainBeforeStop` need one further conjunct each (`AdvertInv`, and the history of
the drain window).

*`CircuitBreakerProofs`.* `IInv` relates the counts to the calls of the current
generation: requests are the running calls plus the ones counted as success or
failure, and half-open successes stay below the limit. From it follow that every request
is counted once and in its own window (`CountsBalanceThm`), the probe limit, that a half-open breaker admits or awaits a probe, that stale results do
not change the state, and that the breaker implements `BreakerStates`, whatever
the operator `ReadyToTrip` is. The proof goes through `FailsTo`, what a failure may make
of the breaker under any policy, so that it also covers the instance of `MCBreakers` that
nobody resets: `UnaidedImplementsStatesThm` says that this breaker, and the node breaker
without a Reset, move along the documented arrows only.

### Queues

*`JobQueueProofs`.* `OnePlace` is not inductive: a worker's later steps move "its" job
on, so one has to know that it has one and what state it is in (`WorkerInv`), and what
the state of a job says about heap, delayed list and active map (`JobInv`). With these,
`OnePlace` and `QuietAfterStop` are invariants for any number of jobs, workers,
retries and pauses. `ImplementsBoard` is the refinement of `JobBoard`: initial states
map to initial states, and a lemma per step shows which step of the board it is, or a
stutter. The state of a job is written outside `q.mu`, and the proof shows that no
order of those writes shows on the board.

`TokensCoverReadyJobs` is proved under `Room`: the wake-up channel has a place for
every job. A send that finds the channel full then finds a token for every ready job
in it. The hypothesis is needed: with one place fewer, the run `jobqueue_full_signal`
strands a job. The proof counts: sets of tokens and of ready jobs grow and
shrink by one element, with `FiniteSetTheorems`.

*`RedisQueueProofs`.* `JobIsSomewhere`: a job that has not ended is in a Redis set or in
the hands of a goroutine of a live process. The loops skip a job without data after
they have removed it from its set, so that no job which is still the queue's may be
without data (`DataInv`), and a goroutine past its first step must have a job to put
back (`HandInv`, which also says that Clean only takes jobs that have ended or are
lost). The lemma `NoneDropped` says when a step of one goroutine
loses nothing; every command that succeeds is shown to be such a step, and so is every
command that fails, unless it is one of those that end a move or read the job in the
middle of it (`ErrorDrops`). What is lost by these, or taken along by a stop between two
commands, is `fate` "lost" and outside the claim: the theorem says that jobs are lost in no
other way, and section 4 that the package comment promises more.

### Locks and idempotency

*`PrimitivesProofs`, keyed mutex.* `IInv` says that an entry's reference count is the number of threads
that use it, that all users of a key use the entry in the map, and that an
entry's mutex is held by one of its users. Mutual exclusion alone is not
inductive: it needs the count to know that no user is left when an entry is
dropped from the map.

*`RedisLockProofs`.* The argument is a budget of time. `LeaseInv` says what is left of the
key's TTL while a process leads: at worst, the delay of the winning answer, the interval
until the renewal and the time the renewal has been under way are used up. `RoleInv`
says where a process may be while it renews, and `LateInv` that a delete which is still under
way carries a token its process has given up for good, so that it never hits a
key in use. `LeaderHoldsKey` and `AtMostOneLeader` follow under `Timely`,
`ReplyDelay + 2 * Interval < TTL`, for any number of processes and sessions and any TTL.
The bound is tight: at equality the run `redis_lock_slow_reply` finds two leaders. The
renewal interval is a third of the TTL, as in the code, so `Timely` says that the answer
to SET NX takes less than about a third of it, which the code does not enforce.

*`IdempotencyProofs`.* `RecordInv` ties the map, the records and the callers together: the
record of the key belongs to the one caller that executes or has a result, and a
caller closes its own channel, last of all; `SharedInv` says what a waiter took along.
Both hold until a guard's record is forgotten (`GuardForgotten`), which
is the case the properties leave out and section 4 describes. The four invariants of the run
follow.

### Coordination

`CoordinationProofs` is about the behaviours of `MCCoordination`, in which `which` picks one
component and the others keep their variables; so each part proves that a step of
the component keeps its invariant and that every other step leaves its variables alone.
For `Txn` and `RedisQueue` the theorems are stated for their own `Spec` too.

| Component | Invariant | What follows |
|---|---|---|
| Saga | on the way forward the steps before the current one are applied, on the way back those between the current and the failed one have a record (`ForwardInv`, `BackwardInv`, `CrashInv`) | `StatusIsHonest`, `ReverseOrder`, `UndoneWasApplied` |
| Tcc | what is reserved, confirmed and cancelled at each position (`TryInv`, `ConfirmInv`, `CancelInv`, `CrashInv`) | `StatusIsHonest`, `TccConfirmNeedsAll` |
| StoreIdempotency | as long as nothing was spoiled, the owner's placeholder is the record, and the record is what everybody was answered (`OwnerInv`, `ResultInv`) | `StoreAgrees` |
| Txn | a Run works on participants only under `runMu`, and its index says which are prepared, committed and rolled back (`RunInv`, `OpenInv`, `DataInv`) | `AllOrNothing` and `ReverseOrder`, with panics and early hooks too |
| Txn, hooks | the list holds early hooks, those a panic left and that of the body that holds `runMu` (`HookInv`) | `HooksFollowCommit`, with panics and early hooks too |
| Webhook | the mark stands while one Notify is busy with the event (`MarkInv`, `PostInv`) | `NotifiedOnce`, `DeadLettersKept` |
| DiscoveryClient | only connections of the map can be shut, a call that connects has a node (`ConnInv`, `CallInv`) | `NoConnectionLost`, `RetryElsewhere` |
| Handoff | who has the entity and the bundle (`HandInv`), the caller's copy is what the target has beyond the snapshot (`CopyInv`), what is on its way is in order (`OrderInv`) | `OneWriter`, `ReplayInOrder`, `OperationsSurvive` |

`Handoff`'s parts are conditional on `~astray.hasty`: an Abort while the bundle can
still arrive makes two owners, and nothing is promised after it. `NothingIsLost` and `NothingOutOfTurn`,
the two properties about several components, are put together at the end. The first holds
for the three instances of the Redis queue and says of each what `JobIsSomewhere` says: no
job is lost but by the stops and failed commands that its `fate` records.

### In-process primitives

`PrimitivesProofs` is about the behaviours of `MCPrimitives`, where `which` picks one
primitive; it has a section per primitive, which ends in a lemma that the invariant holds of every
behaviour of the run's specification. The sentences about several primitives,
the properties of the run, are put together at its end.

| Primitive | What the inductive invariant adds to the property | Property |
|---|---|---|
| Delay queue | a key points at a live task of its own in the heap; what fired or was revoked is dead or out of the heap (`TaskInv`) | `RevokedNeverFires` |
| Timer queue | a timer in the command channel is there once and was never in the heap; one that left the heap does not come back (`CommandInv`) | `RevokedNeverFires` |
| Scheduler | the channel is closed by the end of Stop, a worker leaves it closed and empty, an accepted task is in it, in a worker's hands or ran (`DrainInv`) | `StopIsClean` |
| Batcher | what was added is flushed, collected or in the channel; the loop ends after it flushed what came before Close (`FlushInv`) | `StopIsClean` |
| Hedge | answers taken and answers in the channel are the calls that ended; a success waits in the channel (`ResultInv`) | `ResultsAreRight` |
| Dag | the layers before the current one passed, no later one began (`LayerInv`); what `topoSort` computes | `ResultsAreRight` |
| Worker pool | a submitted task is in the list or with one worker, once, until it ended (`TaskInv`) | `ResultsAreRight` |
| Broadcaster | a Publish in progress has a value of its own (`ValueInv`); whoever dropped a value finds room or the place went to a newer one (`RepairInv`) | `MessagesArrive` |
| Broker | the list holds a subscription once (`SubsInv`); the targets of a message that are left are those that do not hold it (`TargetInv`, `OnceInv`) | `MessagesArrive` |
| Batch | a timer is set exactly while messages wait, and no more timers than messages (`TimerInv`) | `MessagesArrive` |
| Semaphore, group | nothing: `CostsFit` and `RolesAgree` are inductive with the types | `AccountsAddUp` |
| Party | nobody is listed twice, only a private party has requests | `AccountsAddUp` |
| Wallet | nothing but the types; what one more record adds to a sum | `AccountsAddUp` |

`DrainedAtStop` is about schedulers with workers; one without only queues, as
`scheduler.go:64` says. The counts of the worker pool, the semaphore and the party are
cardinalities, with `FiniteSetTheorems`. The wallet's arithmetic is proved for every
width of the integers: a sum that is not refused as an overflow is the sum.

*Recursion.* Three proofs need what a recursive function computes: the sum over a ledger
(`Posted`), the subscriptions of a list that are in a set (`Among`) and Kahn's layers
(`TopoSort`). The induction theorems of the library take an operator and cannot be cited,
so the section *Numbers and sequences* takes another way: finite sets are well founded by
inclusion, which the library states without an operator; hence a set of natural numbers
has a least one (`Least`), and a function with a recursive equation over `0..n` exists
(`RecursionExists`) and is the only one (`RecursionUnique`). For the layers it follows
that the dependencies of a node are in earlier ones, that an empty layer is followed by
empty layers only, and that, if some nodes are in no layer, there are nodes that each
depend on one of them (`GraphFacts`): the sets of placed nodes grow until they stop, and
cannot grow more often than there are nodes. So Run refuses only graphs with a cycle, and
goes on only where every node comes after its dependencies, whatever the size of the graph.

### Only model-checked

- Liveness, of every component: TLAPS has no rule for fairness and ENABLED here
  (`ShutdownCompletes`, `UnpausedQueueDelivers`, `WaitersWake`, `DeadKeyExpires`,
  `AllRecover`, `AllSettle`, `DiscoveryConverges`, `NobodyWaitsForever`). `EtcdRegistry`,
  `Match` and `RateBreaker` have no other property.
- That the bounds of a run are enough for it, and the mutants.

Every safety invariant and action property that a run checks is stated by a theorem. Those of
`KeyedMutex`, of the request breaker and of `JobQueue` are about the component's own `Spec`; the run's
behaviours add the choice of the instance.

## 6. Plan

Done: application lifecycle; job queue over its board; idempotency in both modes;
keyed mutex; Redis lock; the three breakers over `BreakerStates`; saga, tcc and txn;
timed queues, scheduler, worker pool, batchers, semaphore, hedging, dag; the Redis
queue; the etcd registry and the discovery client; broadcaster, broker and webhooks;
handoff; match, party, group and wallet. Proofs of every safety property that the runs
check, with the inductive invariants of the components and the refinements of `JobBoard`
and `BreakerStates`.

Next, proofs, if at all: that the error-rate breaker, too, keeps to arrows of its own, and
type correctness of `EtcdRegistry` and `Match`, whose properties are all liveness.

Next, modelling, if at all: presence and session resume, the other lock backends, the
timeout middleware's race, cron under the elector of `RedisLock`.

## 7. Not modelled, and limits

The repository has about 110,000 lines of Go that are not tests. The models cover
some 4,900 of them, between four and five per cent: the packages of the framework's core whose
correctness is a matter of concurrency or failure. Much of the rest has no state that
a small model would tell apart: examples, generated code and command line tools,
contrib modules (the largest, the LLM agent toolkit, is an application of its own)
that integrate third-party systems, transports and media (I/O and codecs), numeric
game and telemetry code, option plumbing, and CRUD packages over a store interface. A
model of it would restate the code line by line and its properties would hold by
construction, so it is left out; `PROJECT.json` gives the reason for each part.

Components marked "partly": the middleware circuit breaker (its HTTP and gRPC
adapters and the manager's registry are left out), kvstore (the operations that
idempotency uses) and the file of the mq Batch handler (its other loop, BatchCollector,
is left out).

Bounded counters are named in the modules. Panics are modelled where the code
treats them (breakers, idempotency, txn; saga, tcc and jobqueue turn them into
errors). `runtime.Goexit` inside a protected function is not modelled. Data races on
plain fields do not occur in the modelled code paths except the state write of
`jobqueue.execute`, which is a step of its own. Servers, etcd, Redis, message triggers
and services behind transactions are external: they are modelled from how the code
uses them, and marked so in the map. Components that call each other are modelled
each over an environment that may do what the other's interface allows, and
no module joins two of them except `JobQueue` over `JobBoard`, the breakers over
`BreakerStates` and `StoreIdempotency` over its store.
