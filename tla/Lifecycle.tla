------------------------------ MODULE Lifecycle ------------------------------
(***************************************************************************)
(* The application lifecycle of beauty.go: App.Start, the two goroutines   *)
(* startService spawns for every service (the orchestrator, which waits    *)
(* for readiness, registers, and on shutdown deregisters, drains and stops *)
(* the server; and the serve goroutine, which runs the service), and the   *)
(* signal goroutine of signals.NotifyShutdownContext.                      *)
(*                                                                         *)
(* A run is one call of App.Start; calls may overlap, since the `ready`    *)
(* word that guards re-entry is also the readiness flag and is cleared as  *)
(* soon as a shutdown begins.  A task is one service within one run.       *)
(* Services and registries are sets: nothing below depends on their order  *)
(* in the App's slices.                                                    *)
(***************************************************************************)
EXTENDS Naturals, FiniteSets, TLAPS

CONSTANTS
    Runs,          \* calls of App.Start
    Services,      \* App.services
    Notifiers,     \* the services that implement ReadyNotifier
    Discoverable,  \* the services that implement discover.Service
    Registries,    \* App.registry
    DrainDelay     \* TRUE iff App.drainDelay > 0

ASSUME ConstantsAssumption ==
    /\ Notifiers \subseteq Services
    /\ Discoverable \subseteq Services
    /\ DrainDelay \in BOOLEAN

Tasks == Runs \X Services
Run(t) == t[1]
Svc(t) == t[2]

VARIABLES
    ready,      \* App.ready: 1 while an App.Start owns the application
    main,       \* main[r]: where the goroutine inside App.Start is
    sig,        \* sig[r]: where the signal goroutine of run r is
    ctxDone,    \* the runs whose ctx is cancelled
    orch,       \* orch[t]: where the orchestrator goroutine is
    serve,      \* serve[t]: where the serve goroutine is
    serveDone,  \* the tasks whose serveCtx is cancelled
    readyCh,    \* the services whose Ready() channel is closed
    held,       \* held[t]: the registries that currently advertise the task
    advert,     \* advert[t]: history of the task's advertisement (see below)
    proc        \* "killed" once a signal ended the process

vars == <<ready, main, sig, ctxDone, orch, serve, serveDone, readyCh, held,
          advert, proc>>

MainPC  == {"idle", "rejected", "before", "spawn", "wait", "join", "after",
            "returned"}
SigPC   == {"none", "boot", "listen", "swap", "cancel", "exited"}
OrchPC  == {"none", "ready", "register", "unwind", "watch", "dereg", "drain",
            "exit", "done"}
ServePC == {"none", "run", "returned", "stopped", "done"}

\* advert[t] is "full" once every registry advertises t and "drained" once the
\* drain window after its deregistration has elapsed.
Advert == {"never", "full", "drained"}

TypeOK ==
    /\ ready \in 0..1
    /\ main \in [Runs -> MainPC]
    /\ sig \in [Runs -> SigPC]
    /\ ctxDone \subseteq Runs
    /\ orch \in [Tasks -> OrchPC]
    /\ serve \in [Tasks -> ServePC]
    /\ serveDone \subseteq Tasks
    /\ readyCh \subseteq Services
    /\ held \in [Tasks -> SUBSET Registries]
    /\ advert \in [Tasks -> Advert]
    /\ proc \in {"up", "killed"}

Init ==
    /\ ready = 0
    /\ main = [r \in Runs |-> "idle"]
    /\ sig = [r \in Runs |-> "none"]
    /\ ctxDone = {}
    /\ orch = [t \in Tasks |-> "none"]
    /\ serve = [t \in Tasks |-> "none"]
    /\ serveDone = {}
    /\ readyCh = {}
    /\ held = [t \in Tasks |-> {}]
    /\ advert = [t \in Tasks |-> "never"]
    /\ proc = "up"

appVars  == <<ready, main, sig, ctxDone>>
taskVars == <<orch, serve, serveDone, readyCh, held, advert>>

Active(r) == main[r] \notin {"idle", "rejected", "returned"}

-----------------------------------------------------------------------------
(* App.Start *)

\* Only the caller whose compare-and-swap 0 -> 1 succeeds goes on; every other
\* call returns nil at once.  The signal goroutine is spawned here.
Start(r) ==
    /\ main[r] = "idle"
    /\ IF ready = 0
       THEN /\ ready' = 1
            /\ main' = [main EXCEPT ![r] = "before"]
            /\ sig' = [sig EXCEPT ![r] = "boot"]
       ELSE /\ main' = [main EXCEPT ![r] = "rejected"]
            /\ UNCHANGED <<ready, sig>>
    /\ UNCHANGED <<ctxDone, taskVars, proc>>

\* runHooks(EventBeforeRun).
BeforeHooks(r) ==
    /\ main[r] = "before"
    /\ main' = [main EXCEPT ![r] = "spawn"]
    /\ UNCHANGED <<ready, sig, ctxDone, taskVars, proc>>

\* One iteration of the loop over s.services: startService makes serveCtx and
\* spawns both goroutines.  The loop does not look at ctx.
StartService(t) ==
    /\ main[Run(t)] = "spawn"
    /\ orch[t] = "none"
    /\ orch' = [orch EXCEPT ![t] = "ready"]
    /\ serve' = [serve EXCEPT ![t] = "run"]
    /\ UNCHANGED <<appVars, serveDone, readyCh, held, advert, proc>>

AllSpawned(r) ==
    /\ main[r] = "spawn"
    /\ \A t \in Tasks : Run(t) = r => orch[t] # "none"
    /\ main' = [main EXCEPT ![r] = "wait"]
    /\ UNCHANGED <<ready, sig, ctxDone, taskVars, proc>>

\* <-ctx.Done() returns, then ready.Swap(0).
ShutdownBegins(r) ==
    /\ main[r] = "wait"
    /\ r \in ctxDone
    /\ ready' = 0
    /\ main' = [main EXCEPT ![r] = "join"]
    /\ UNCHANGED <<sig, ctxDone, taskVars, proc>>

\* Mutant of Join: only the orchestrators are counted by svcWg.
JoinOrchOnly(r) ==
    /\ main[r] = "join"
    /\ \A t \in Tasks : Run(t) = r => orch[t] = "done"
    /\ main' = [main EXCEPT ![r] = "after"]
    /\ UNCHANGED <<ready, sig, ctxDone, taskVars, proc>>

\* svcWg.Wait() returns when both goroutines of every service have ended.
Join(r) ==
    /\ main[r] = "join"
    /\ \A t \in Tasks : Run(t) = r => orch[t] = "done" /\ serve[t] = "done"
    /\ main' = [main EXCEPT ![r] = "after"]
    /\ UNCHANGED <<ready, sig, ctxDone, taskVars, proc>>

\* runHooks(EventAfterRun), logger.Sync, return.
AfterHooks(r) ==
    /\ main[r] = "after"
    /\ main' = [main EXCEPT ![r] = "returned"]
    /\ UNCHANGED <<ready, sig, ctxDone, taskVars, proc>>

\* The caller of App.Start cancels the context it passed in.
OuterCancel(r) ==
    /\ Active(r)
    /\ r \notin ctxDone
    /\ ctxDone' = ctxDone \cup {r}
    /\ UNCHANGED <<ready, main, sig, taskVars, proc>>

-----------------------------------------------------------------------------
(* signals.NotifyShutdownContext *)

\* signal.Notify runs inside the goroutine, some time after App.Start went on.
Subscribe(r) ==
    /\ sig[r] = "boot"
    /\ sig' = [sig EXCEPT ![r] = "listen"]
    /\ UNCHANGED <<ready, main, ctxDone, taskVars, proc>>

\* A shutdown signal is delivered to every subscribed goroutine; each starts
\* its shutdown hook.
Signal ==
    /\ \E r \in Runs : sig[r] = "listen"
    /\ sig' = [r \in Runs |-> IF sig[r] = "listen" THEN "swap" ELSE sig[r]]
    /\ UNCHANGED <<ready, main, ctxDone, taskVars, proc>>

\* The shutdown hook of App.Start: s.ready.Swap(0), then cancel().
HookSwap(r) ==
    /\ sig[r] = "swap"
    /\ ready' = 0
    /\ sig' = [sig EXCEPT ![r] = "cancel"]
    /\ UNCHANGED <<main, ctxDone, taskVars, proc>>

HookCancel(r) ==
    /\ sig[r] = "cancel"
    /\ ctxDone' = ctxDone \cup {r}
    /\ sig' = [sig EXCEPT ![r] = "exited"]
    /\ UNCHANGED <<ready, main, taskVars, proc>>

\* The goroutine leaves when the run's ctx is done; signal.Stop unsubscribes.
Unsubscribe(r) ==
    /\ sig[r] = "listen"
    /\ r \in ctxDone
    /\ sig' = [sig EXCEPT ![r] = "exited"]
    /\ UNCHANGED <<ready, main, ctxDone, taskVars, proc>>

\* A signal ends the process: os.Exit(1) for a second signal while the hook
\* runs, the default action while nobody is subscribed.
Kill ==
    /\ \E r \in Runs : Active(r)
    /\ \/ \E r \in Runs : sig[r] \in {"swap", "cancel"}
       \/ \A r \in Runs : sig[r] # "listen"
    /\ proc' = "killed"
    /\ UNCHANGED <<appVars, taskVars>>

-----------------------------------------------------------------------------
(* The orchestrator goroutine of startService *)

\* Mutant of OrchReady: the orchestrator does not wait for readiness.
OrchReadyNoWait(t) ==
    /\ orch[t] = "ready"
    /\ orch' = [orch EXCEPT ![t] =
                  IF Svc(t) \in Discoverable THEN "register" ELSE "watch"]
    /\ UNCHANGED <<appVars, serve, serveDone, readyCh, held, advert, proc>>

\* Wait for readiness (services that announce none go on at once).
OrchReady(t) ==
    /\ orch[t] = "ready"
    /\ Svc(t) \in Notifiers => Svc(t) \in readyCh
    /\ orch' = [orch EXCEPT ![t] =
                  IF Svc(t) \in Discoverable THEN "register" ELSE "watch"]
    /\ UNCHANGED <<appVars, serve, serveDone, readyCh, held, advert, proc>>

\* The shutdown, or the server's exit, wins the race against readiness.
OrchAbort(t) ==
    /\ orch[t] = "ready"
    /\ Svc(t) \in Notifiers
    /\ Run(t) \in ctxDone \/ t \in serveDone
    /\ orch' = [orch EXCEPT ![t] = "exit"]
    /\ UNCHANGED <<appVars, serve, serveDone, readyCh, held, advert, proc>>

\* r.Register for one registry succeeds.
Register(t) ==
    /\ orch[t] = "register"
    /\ \E g \in Registries \ held[t] : held' = [held EXCEPT ![t] = @ \cup {g}]
    /\ UNCHANGED <<appVars, orch, serve, serveDone, readyCh, advert, proc>>

\* r.Register fails: what was registered before it is taken back.
RegisterFails(t) ==
    /\ orch[t] = "register"
    /\ held[t] # Registries
    /\ orch' = [orch EXCEPT ![t] = "unwind"]
    /\ UNCHANGED <<appVars, serve, serveDone, readyCh, held, advert, proc>>

\* The loop over the registries is done.
Registered(t) ==
    /\ orch[t] = "register"
    /\ held[t] = Registries
    /\ orch' = [orch EXCEPT ![t] = "watch"]
    /\ advert' = [advert EXCEPT ![t] =
                    IF Registries = {} THEN "never" ELSE "full"]
    /\ UNCHANGED <<appVars, serve, serveDone, readyCh, held, proc>>

\* Mutant of WatchShutdown: the server stops without being deregistered.
WatchShutdownStops(t) ==
    /\ orch[t] = "watch"
    /\ Run(t) \in ctxDone
    /\ orch' = [orch EXCEPT ![t] = "exit"]
    /\ UNCHANGED <<appVars, serve, serveDone, readyCh, held, advert, proc>>

\* The select on line 222: an application shutdown takes the orderly path, a
\* server that ended by itself is only deregistered.
WatchShutdown(t) ==
    /\ orch[t] = "watch"
    /\ Run(t) \in ctxDone
    /\ orch' = [orch EXCEPT ![t] = "dereg"]
    /\ UNCHANGED <<appVars, serve, serveDone, readyCh, held, advert, proc>>

WatchServerExit(t) ==
    /\ orch[t] = "watch"
    /\ t \in serveDone
    /\ orch' = [orch EXCEPT ![t] = "unwind"]
    /\ UNCHANGED <<appVars, serve, serveDone, readyCh, held, advert, proc>>

\* One stop function returned by Register.
Deregister(t) ==
    /\ orch[t] \in {"unwind", "dereg"}
    /\ \E g \in held[t] : held' = [held EXCEPT ![t] = @ \ {g}]
    /\ UNCHANGED <<appVars, orch, serve, serveDone, readyCh, advert, proc>>

Unwound(t) ==
    /\ orch[t] = "unwind"
    /\ held[t] = {}
    /\ orch' = [orch EXCEPT ![t] = "exit"]
    /\ UNCHANGED <<appVars, serve, serveDone, readyCh, held, advert, proc>>

\* Mutant of Deregistered: the drain delay is skipped.
DeregisteredNoDrain(t) ==
    /\ orch[t] = "dereg"
    /\ held[t] = {}
    /\ orch' = [orch EXCEPT ![t] = "exit"]
    /\ UNCHANGED <<appVars, serve, serveDone, readyCh, held, advert, proc>>

\* deregister() returned: wait for the drain delay when one is set, there was
\* something to deregister and the server is still up.
Deregistered(t) ==
    /\ orch[t] = "dereg"
    /\ held[t] = {}
    /\ orch' = [orch EXCEPT ![t] =
                  IF DrainDelay /\ advert[t] = "full" /\ t \notin serveDone
                  THEN "drain" ELSE "exit"]
    /\ UNCHANGED <<appVars, serve, serveDone, readyCh, held, advert, proc>>

DrainElapsed(t) ==
    /\ orch[t] = "drain"
    /\ orch' = [orch EXCEPT ![t] = "exit"]
    /\ advert' = [advert EXCEPT ![t] = "drained"]
    /\ UNCHANGED <<appVars, serve, serveDone, readyCh, held, proc>>

DrainCut(t) ==
    /\ orch[t] = "drain"
    /\ t \in serveDone
    /\ orch' = [orch EXCEPT ![t] = "exit"]
    /\ UNCHANGED <<appVars, serve, serveDone, readyCh, held, advert, proc>>

\* stopServe() (deferred on every path) and wg.Done().
OrchExit(t) ==
    /\ orch[t] = "exit"
    /\ orch' = [orch EXCEPT ![t] = "done"]
    /\ serveDone' = serveDone \cup {t}
    /\ UNCHANGED <<appVars, serve, readyCh, held, advert, proc>>

-----------------------------------------------------------------------------
(* The serve goroutine of startService *)

\* The service, once serving, closes its Ready() channel.
ServeReady(t) ==
    /\ serve[t] = "run"
    /\ Svc(t) \in Notifiers
    /\ Svc(t) \notin readyCh
    /\ readyCh' = readyCh \cup {Svc(t)}
    /\ UNCHANGED <<appVars, orch, serve, serveDone, held, advert, proc>>

\* srv.Start(serveCtx) returns because serveCtx was cancelled ...
ServeStops(t) ==
    /\ serve[t] = "run"
    /\ t \in serveDone
    /\ serve' = [serve EXCEPT ![t] = "returned"]
    /\ UNCHANGED <<appVars, orch, serveDone, readyCh, held, advert, proc>>

\* ... or by itself (an error, a panic-free crash, an early return).
ServeCrashes(t) ==
    /\ serve[t] = "run"
    /\ t \notin serveDone
    /\ serve' = [serve EXCEPT ![t] = "returned"]
    /\ UNCHANGED <<appVars, orch, serveDone, readyCh, held, advert, proc>>

\* The deferred calls run in this order: stopServe(), appCancel(), wg.Done().
ServeStopServe(t) ==
    /\ serve[t] = "returned"
    /\ serve' = [serve EXCEPT ![t] = "stopped"]
    /\ serveDone' = serveDone \cup {t}
    /\ UNCHANGED <<appVars, orch, readyCh, held, advert, proc>>

\* Mutant of ServeCancelApp: appCancel() is not called.
ServeForgetsCancel(t) ==
    /\ serve[t] = "stopped"
    /\ serve' = [serve EXCEPT ![t] = "done"]
    /\ UNCHANGED <<appVars, orch, serveDone, readyCh, held, advert, proc>>

ServeCancelApp(t) ==
    /\ serve[t] = "stopped"
    /\ serve' = [serve EXCEPT ![t] = "done"]
    /\ ctxDone' = ctxDone \cup {Run(t)}
    /\ UNCHANGED <<ready, main, sig, orch, serveDone, readyCh, held, advert,
                   proc>>

-----------------------------------------------------------------------------

MainStep(r) ==
    \/ BeforeHooks(r) \/ AllSpawned(r) \/ ShutdownBegins(r) \/ Join(r)
    \/ AfterHooks(r)
    \/ \E t \in Tasks : Run(t) = r /\ StartService(t)

SigStep(r) == Subscribe(r) \/ HookSwap(r) \/ HookCancel(r) \/ Unsubscribe(r)

OrchStep(t) ==
    \/ OrchReady(t) \/ OrchAbort(t)
    \/ Register(t) \/ RegisterFails(t) \/ Registered(t)
    \/ WatchShutdown(t) \/ WatchServerExit(t)
    \/ Deregister(t) \/ Unwound(t) \/ Deregistered(t)
    \/ DrainElapsed(t) \/ DrainCut(t) \/ OrchExit(t)

ServeStep(t) == ServeStops(t) \/ ServeStopServe(t) \/ ServeCancelApp(t)

Next ==
    /\ proc = "up"
    /\ \/ \E r \in Runs : Start(r) \/ MainStep(r) \/ SigStep(r) \/ OuterCancel(r)
       \/ \E t \in Tasks : OrchStep(t) \/ ServeStep(t) \/ ServeReady(t)
                           \/ ServeCrashes(t)
       \/ Signal
       \/ Kill

\* Every goroutine that can run eventually does, registry calls return, and a
\* service honours the Service contract: Start returns once serveCtx is
\* cancelled.  Nothing is assumed of callers, signals, crashes or readiness.
Fairness ==
    /\ \A r \in Runs : WF_vars(proc = "up" /\ MainStep(r)) /\ WF_vars(proc = "up" /\ SigStep(r))
    /\ \A t \in Tasks : WF_vars(proc = "up" /\ OrchStep(t)) /\ WF_vars(proc = "up" /\ ServeStep(t))

Spec == Init /\ [][Next]_vars

FairSpec == Spec /\ Fairness

-----------------------------------------------------------------------------
(* Properties *)

\* beauty.go:232 "normal shutdown: deregister first ... then stop the server":
\* a server that is still running is never told to stop while some registry
\* still routes traffic to it, whichever way its orchestrator ends.
DeregisterBeforeStop ==
    \A t \in Tasks :
        t \in serveDone /\ serve[t] = "run" => held[t] = {}

\* beauty.go:58 and TestGracefulShutdown_DeregisterBeforeStop: a running server
\* that was advertised is stopped only after the drain window has elapsed.
DrainBeforeStop ==
    \A t \in Tasks :
        t \in serveDone /\ serve[t] = "run" => advert[t] # "full"

\* beauty.go:165 and TestGracefulShutdown_HookAfterServiceStop: when the
\* AfterRun hooks run, every service of the run has returned, every
\* orchestrator has ended and no registration is left behind, whatever
\* registration failed, crashed or raced on the way.
NothingOutlivesRun ==
    \A r \in Runs : main[r] \in {"after", "returned"} =>
        \A t \in Tasks : Run(t) = r =>
            orch[t] = "done" /\ serve[t] = "done" /\ held[t] = {}

\* beauty.go:94-96: a service that announces readiness is never advertised
\* before it is ready.
AdvertisedOnlyWhenReady ==
    \A t \in Tasks : held[t] # {} /\ Svc(t) \in Notifiers => Svc(t) \in readyCh

\* beauty.go:245: the exit of any service, a cancelled ctx or a handled signal
\* brings the whole run down: every service stops and App.Start returns.
ShutdownCompletes ==
    \A r \in Runs :
        (\/ r \in ctxDone
         \/ sig[r] = "swap"
         \/ \E t \in Tasks : Run(t) = r /\ serve[t] = "returned")
        ~> (main[r] = "returned" \/ proc = "killed")

-----------------------------------------------------------------------------
(* The inductive invariant behind the safety properties. *)

\* What one task may hold at each point of its orchestrator.
TaskInv ==
    \A t \in Tasks :
        /\ orch[t] = "none" <=> serve[t] = "none"
        /\ held[t] # {} => orch[t] \in {"register", "unwind", "watch", "dereg"}
        /\ t \in serveDone => orch[t] = "done" \/ serve[t] \in {"stopped", "done"}
        /\ orch[t] \in {"register", "unwind", "watch", "dereg", "drain"}
              /\ Svc(t) \in Notifiers => Svc(t) \in readyCh

\* Once fully advertised, a task leaves the orderly path without a drain only
\* when its server has already exited.
AdvertInv ==
    \A t \in Tasks :
        /\ orch[t] \in {"none", "ready", "register"} => advert[t] = "never"
        /\ orch[t] \in {"unwind", "exit", "done"} /\ advert[t] = "full"
              => serve[t] \in {"stopped", "done"}

IInv == TypeOK /\ TaskInv /\ NothingOutlivesRun
-----------------------------------------------------------------------------
(* Theorems, for any number of App.Start calls, services and registries.    *)

\* A task is one service of one run of App.Start.
LEMMA TaskParts ==
    ASSUME NEW t \in Tasks
    PROVE  Run(t) \in Runs /\ Svc(t) \in Services
BY DEF Tasks, Run, Svc

\* The state App.Start finds is well typed and satisfies the invariant.
LEMMA InitIInv == Init => IInv
BY DEF Init, IInv, TypeOK, TaskInv, NothingOutlivesRun, MainPC, SigPC, OrchPC,
       ServePC, Advert

\* Every step of App.Start, of its goroutines and of the signal handler keeps
\* the types.
LEMMA NextType == TypeOK /\ Next => TypeOK'
<1> SUFFICES ASSUME TypeOK, Next PROVE TypeOK'
  OBVIOUS
<1> USE TaskParts DEF TypeOK, MainPC, SigPC, OrchPC, ServePC, Advert, appVars, taskVars
<1>1. CASE \E r \in Runs : Start(r) \/ MainStep(r)
  <2>1. PICK r \in Runs : Start(r) \/ MainStep(r)
    BY <1>1
  <2>2. CASE Start(r)
    BY <2>2 DEF Start
  <2>3. CASE BeforeHooks(r) \/ AllSpawned(r) \/ Join(r) \/ AfterHooks(r)
    BY <2>3 DEF BeforeHooks, AllSpawned, Join, AfterHooks
  <2>4. CASE ShutdownBegins(r)
    BY <2>4 DEF ShutdownBegins
  <2>5. CASE \E t \in Tasks : Run(t) = r /\ StartService(t)
    BY <2>5 DEF StartService
  <2> QED BY <2>1, <2>2, <2>3, <2>4, <2>5 DEF MainStep
<1>2. CASE \E r \in Runs : SigStep(r) \/ OuterCancel(r)
  BY <1>2 DEF SigStep, OuterCancel, Subscribe, HookSwap, HookCancel, Unsubscribe
<1>3. CASE \E t \in Tasks : OrchStep(t)
  <2>1. PICK t \in Tasks : OrchStep(t)
    BY <1>3
  <2>2. CASE OrchReady(t) \/ OrchAbort(t) \/ WatchShutdown(t) \/ WatchServerExit(t)
             \/ RegisterFails(t) \/ Unwound(t) \/ Deregistered(t) \/ DrainCut(t)
    BY <2>2 DEF OrchReady, OrchAbort, WatchShutdown, WatchServerExit,
                RegisterFails, Unwound, Deregistered, DrainCut
  <2>3. CASE Register(t) \/ Deregister(t)
    BY <2>3 DEF Register, Deregister
  <2>4. CASE Registered(t) \/ DrainElapsed(t)
    BY <2>4 DEF Registered, DrainElapsed
  <2>5. CASE OrchExit(t)
    BY <2>5 DEF OrchExit
  <2> QED BY <2>1, <2>2, <2>3, <2>4, <2>5 DEF OrchStep
<1>4. CASE \E t \in Tasks : ServeStep(t) \/ ServeReady(t) \/ ServeCrashes(t)
  BY <1>4 DEF ServeStep, ServeStops, ServeStopServe, ServeCancelApp, ServeReady,
              ServeCrashes
<1>5. CASE Signal \/ Kill
  BY <1>5 DEF Signal, Kill
<1> QED BY <1>1, <1>2, <1>3, <1>4, <1>5 DEF Next

\* Steps of App.Start, of its callers and of the signal goroutine, which leave
\* every existing task alone.
RunStep ==
    \/ \E r \in Runs :
         \/ Start(r) \/ BeforeHooks(r) \/ AllSpawned(r) \/ ShutdownBegins(r)
         \/ Join(r) \/ AfterHooks(r) \/ SigStep(r) \/ OuterCancel(r)
    \/ Signal \/ Kill

\* The five kinds of steps of Next.
LEMMA NextCases ==
    ASSUME Next
    PROVE  \/ RunStep
           \/ \E t \in Tasks : StartService(t)
           \/ \E t \in Tasks : OrchStep(t)
           \/ \E t \in Tasks : ServeStep(t) \/ ServeReady(t) \/ ServeCrashes(t)
BY DEF Next, RunStep, MainStep

\* A RunStep changes no task.
LEMMA RunStepFrame ==
    ASSUME RunStep
    PROVE  UNCHANGED taskVars
BY DEF RunStep, Start, BeforeHooks, AllSpawned, ShutdownBegins, Join, AfterHooks,
       SigStep, Subscribe, HookSwap, HookCancel, Unsubscribe, OuterCancel, Signal,
       Kill, taskVars

\* Registration, readiness and serveCtx of a task stay consistent with its
\* orchestrator, whatever step is taken.
LEMMA NextTaskInv == TypeOK /\ TaskInv /\ Next => TaskInv'
<1> SUFFICES ASSUME TypeOK, TaskInv, Next PROVE TaskInv'
  OBVIOUS
<1> USE TaskParts DEF TypeOK, TaskInv, OrchPC, ServePC, appVars
<1>1. CASE RunStep
  BY <1>1, RunStepFrame DEF taskVars
<1>2. CASE \E t \in Tasks : StartService(t)
  BY <1>2 DEF StartService
<1>3. CASE \E t \in Tasks : OrchStep(t)
  <2>1. PICK t \in Tasks : OrchStep(t)
    BY <1>3
  <2>2. CASE OrchReady(t) \/ OrchAbort(t)
    BY <2>2 DEF OrchReady, OrchAbort
  <2>3. CASE Register(t) \/ RegisterFails(t) \/ Registered(t)
    BY <2>3 DEF Register, RegisterFails, Registered
  <2>4. CASE WatchShutdown(t) \/ WatchServerExit(t)
    BY <2>4 DEF WatchShutdown, WatchServerExit
  <2>5. CASE Deregister(t)
    BY <2>5 DEF Deregister
  <2>6. CASE Unwound(t) \/ Deregistered(t)
    BY <2>6 DEF Unwound, Deregistered
  <2>7. CASE DrainElapsed(t) \/ DrainCut(t)
    BY <2>7 DEF DrainElapsed, DrainCut
  <2>8. CASE OrchExit(t)
    BY <2>8 DEF OrchExit
  <2> QED BY <2>1, <2>2, <2>3, <2>4, <2>5, <2>6, <2>7, <2>8 DEF OrchStep
<1>4. CASE \E t \in Tasks : ServeStep(t) \/ ServeReady(t) \/ ServeCrashes(t)
  BY <1>4 DEF ServeStep, ServeStops, ServeStopServe, ServeCancelApp, ServeReady,
              ServeCrashes
<1> QED BY <1>1, <1>2, <1>3, <1>4, NextCases

\* Once svcWg.Wait has returned nothing of the run moves again.
LEMMA NextEnd ==
    TypeOK /\ TaskInv /\ NothingOutlivesRun /\ Next => NothingOutlivesRun'
<1> SUFFICES ASSUME TypeOK, TaskInv, NothingOutlivesRun, Next
             PROVE  NothingOutlivesRun'
  OBVIOUS
<1> USE TaskParts DEF TypeOK, NothingOutlivesRun, MainPC, OrchPC, ServePC
<1>1. CASE RunStep
  <2>1. UNCHANGED <<orch, serve, held>>
    BY <1>1, RunStepFrame DEF taskVars
  <2>2. CASE \E r \in Runs : Join(r)
    BY <2>1, <2>2 DEF Join, TaskInv
  <2>3. CASE \E r \in Runs : Start(r) \/ BeforeHooks(r) \/ AllSpawned(r)
                             \/ ShutdownBegins(r) \/ AfterHooks(r)
    BY <2>1, <2>3 DEF Start, BeforeHooks, AllSpawned, ShutdownBegins, AfterHooks
  <2>4. CASE main' = main
    BY <2>1, <2>4
  <2>5. (\E r \in Runs : SigStep(r) \/ OuterCancel(r)) \/ Signal \/ Kill
          => main' = main
    BY DEF SigStep, Subscribe, HookSwap, HookCancel, Unsubscribe, OuterCancel,
           Signal, Kill, appVars
  <2> QED BY <1>1, <2>2, <2>3, <2>4, <2>5 DEF RunStep
<1>2. CASE \E t \in Tasks : StartService(t)
  BY <1>2 DEF StartService, appVars
<1>3. CASE \E t \in Tasks : OrchStep(t)
  <2>1. PICK t \in Tasks : OrchStep(t)
    BY <1>3
  <2>2. orch[t] # "done" /\ UNCHANGED <<main, serve>>
    BY <2>1 DEF OrchStep, OrchReady, OrchAbort, Register, RegisterFails,
         Registered, WatchShutdown, WatchServerExit, Deregister, Unwound,
         Deregistered, DrainElapsed, DrainCut, OrchExit, appVars
  <2>3. \A u \in Tasks : u # t => orch'[u] = orch[u] /\ held'[u] = held[u]
    BY <2>1 DEF OrchStep, OrchReady, OrchAbort, Register, RegisterFails,
         Registered, WatchShutdown, WatchServerExit, Deregister, Unwound,
         Deregistered, DrainElapsed, DrainCut, OrchExit, appVars
  <2> QED BY <2>2, <2>3
<1>4. CASE \E t \in Tasks : ServeStep(t) \/ ServeReady(t) \/ ServeCrashes(t)
  BY <1>4 DEF ServeStep, ServeStops, ServeStopServe, ServeCancelApp, ServeReady,
              ServeCrashes, appVars
<1> QED BY <1>1, <1>2, <1>3, <1>4, NextCases

\* With a drain delay configured, a task that was fully advertised leaves the
\* orderly path undrained only if its server has exited by itself.
LEMMA NextAdvertInv ==
    ASSUME DrainDelay
    PROVE  TypeOK /\ TaskInv /\ AdvertInv /\ Next => AdvertInv'
<1> SUFFICES ASSUME TypeOK, TaskInv, AdvertInv, Next PROVE AdvertInv'
  OBVIOUS
<1> USE TaskParts DEF TypeOK, TaskInv, AdvertInv, OrchPC, ServePC, Advert, appVars
<1>1. CASE RunStep
  BY <1>1, RunStepFrame DEF taskVars
<1>2. CASE \E t \in Tasks : StartService(t)
  BY <1>2 DEF StartService
<1>3. CASE \E t \in Tasks : OrchStep(t)
  <2>1. PICK t \in Tasks : OrchStep(t)
    BY <1>3
  <2>2. CASE OrchReady(t) \/ OrchAbort(t)
    BY <2>2 DEF OrchReady, OrchAbort
  <2>3. CASE Register(t) \/ RegisterFails(t) \/ Registered(t)
    BY <2>3 DEF Register, RegisterFails, Registered
  <2>4. CASE WatchShutdown(t) \/ WatchServerExit(t)
    BY <2>4 DEF WatchShutdown, WatchServerExit
  <2>5. CASE Deregister(t) \/ Unwound(t)
    BY <2>5 DEF Deregister, Unwound
  <2>6. CASE Deregistered(t)
    BY <2>6 DEF Deregistered
  <2>7. CASE DrainElapsed(t) \/ DrainCut(t)
    BY <2>7 DEF DrainElapsed, DrainCut
  <2>8. CASE OrchExit(t)
    BY <2>8 DEF OrchExit
  <2> QED BY <2>1, <2>2, <2>3, <2>4, <2>5, <2>6, <2>7, <2>8 DEF OrchStep
<1>4. CASE \E t \in Tasks : ServeStep(t) \/ ServeReady(t) \/ ServeCrashes(t)
  BY <1>4 DEF ServeStep, ServeStops, ServeStopServe, ServeCancelApp, ServeReady,
              ServeCrashes
<1> QED BY <1>1, <1>2, <1>3, <1>4, NextCases

-----------------------------------------------------------------------------

\* Type correctness and the inductive invariant of the application lifecycle
\* (App.Start and the goroutines it spawns).
THEOREM InductiveInvariant == Spec => []IInv
<1>1. IInv /\ [Next]_vars => IInv'
  <2>1. CASE Next
    BY <2>1, NextType, NextTaskInv, NextEnd DEF IInv
  <2>2. CASE UNCHANGED vars
    BY <2>2 DEF vars, IInv, TypeOK, TaskInv, NothingOutlivesRun
  <2> QED BY <2>1, <2>2
<1> QED BY <1>1, InitIInv, PTL DEF Spec

\* The orchestrator never stops a running server that a registry still
\* advertises (startService's deregister-before-stopServe order).
THEOREM DeregisterBeforeStopThm == Spec => []DeregisterBeforeStop
<1>1. IInv => DeregisterBeforeStop
  BY DEF IInv, TaskInv, DeregisterBeforeStop
<1> QED BY <1>1, InductiveInvariant, PTL

\* When the AfterRun hooks run, no goroutine and no registration of the run is
\* left (svcWg.Wait in App.Start).
THEOREM NothingOutlivesRunThm == Spec => []NothingOutlivesRun
<1>1. IInv => NothingOutlivesRun
  BY DEF IInv
<1> QED BY <1>1, InductiveInvariant, PTL

\* A service that announces readiness is registered only after it is ready.
THEOREM AdvertisedOnlyWhenReadyThm == Spec => []AdvertisedOnlyWhenReady
<1>1. IInv => AdvertisedOnlyWhenReady
  BY DEF IInv, TaskInv, AdvertisedOnlyWhenReady
<1> QED BY <1>1, InductiveInvariant, PTL

\* With WithShutdownDrainDelay set, a running server that was advertised is
\* told to stop only after the drain window.
THEOREM DrainBeforeStopThm ==
    ASSUME DrainDelay
    PROVE  Spec => []DrainBeforeStop
<1>1. Init => AdvertInv
  BY DEF Init, AdvertInv
<1>2. IInv /\ AdvertInv /\ [Next]_vars => AdvertInv'
  <2>1. CASE Next
    BY <2>1, NextAdvertInv DEF IInv
  <2>2. CASE UNCHANGED vars
    BY <2>2 DEF vars, AdvertInv
  <2> QED BY <2>1, <2>2
<1>3. IInv /\ AdvertInv => DrainBeforeStop
  BY DEF IInv, TypeOK, TaskInv, AdvertInv, DrainBeforeStop
<1> QED BY <1>1, <1>2, <1>3, InductiveInvariant, PTL DEF Spec
=============================================================================
