---------------------------- MODULE CircuitBreaker ----------------------------
(***************************************************************************)
(* pkg/middleware/circuitbreaker: the request breaker.  A call is admitted *)
(* by beforeRequest, runs without the lock, and reports in afterRequest,   *)
(* when the breaker may have moved on by several windows or states.  The   *)
(* generation a call carries tells whether its result still counts.        *)
(*                                                                         *)
(* Both halves of a call run under cb.mutex, so each is one step.  Time    *)
(* is the environment's: Expire makes the breaker's deadline pass.         *)
(***************************************************************************)
EXTENDS Naturals, FiniteSets

CONSTANTS
    Calls,        \* the callers that may be inside Execute at once
    MaxRequests,  \* Config.MaxRequests, at least 1
    ReadyToTrip(_),  \* Config.ReadyToTrip, a function of the counts
    MinRequests,  \* the threshold of the trip policies below
    ManualReset,  \* whether somebody calls Reset
    Gens,         \* the generation numbers
    MaxCount,     \* bound: requests of one window
    None

\* Generation numbers are only compared for equality and a uint64 does not
\* come round while a call runs: any unused member of Gens stands for
\* generation + 1.  There always is one.
ASSUME ConstantsAssumption ==
    /\ IsFiniteSet(Calls)
    /\ MaxRequests \in Nat \ {0} /\ MinRequests \in Nat /\ MaxCount \in Nat
    /\ ManualReset \in BOOLEAN
    /\ None \notin Gens \cup Calls
    /\ \A f \in [Calls -> Gens \cup {None}], g \in Gens :
          \E h \in Gens : h # g /\ \A c \in Calls : f[c] # h

VARIABLES
    cb,       \* the breaker: state, generation, counts, expiry
    running,  \* running[c]: the generation c was admitted in, None outside
    stale,    \* ghost: the running calls admitted before the last change of state
    healthy   \* the environment: from now on every request succeeds

vars == <<cb, running, stale, healthy>>

States == {"closed", "open", "half-open"}

\* wins and losses are ConsecutiveSuccesses and ConsecutiveFailures.
Counts == [requests : Nat, successes : Nat, failures : Nat, wins : Nat, losses : Nat]

Zero == [requests |-> 0, successes |-> 0, failures |-> 0, wins |-> 0, losses |-> 0]

\* expiry "none" is the zero time.
Breakers ==
    [state : States, generation : Gens, expiry : {"none", "pending", "passed"},
     counts : Counts]

Fresh == CHOOSE g \in Gens : g # cb.generation /\ \A c \in Calls : running[c] # g

ToNewGeneration(b) ==
    [b EXCEPT !.generation = Fresh,
              !.counts = Zero,
              !.expiry = IF b.state = "half-open" THEN "none" ELSE "pending"]

SetState(b, s) == IF b.state = s THEN b ELSE ToNewGeneration([b EXCEPT !.state = s])

\* Mutant of CurrentState: after the timeout the breaker closes at once.
CloseOnTimeout(b) ==
    IF b.expiry # "passed" THEN b
    ELSE IF b.state = "closed" THEN ToNewGeneration(b)
    ELSE SetState(b, "closed")

CurrentState(b) ==
    IF b.expiry # "passed" THEN b
    ELSE IF b.state = "closed" THEN ToNewGeneration(b)
    ELSE SetState(b, "half-open")

\* The policies of the repository, values for ReadyToTrip: defaultReadyToTrip,
\* DefaultConfig (failures above half of the requests), ConsecutiveFailuresConfig.
DefaultReadyToTrip(counts) ==
    counts.requests >= MinRequests /\ counts.failures > counts.successes

FailureRate(counts) ==
    counts.requests >= MinRequests /\ 2 * counts.failures > counts.requests

ConsecutiveFailures(counts) == counts.losses >= MinRequests

Succeeded(n) ==
    [requests |-> n.requests, successes |-> n.successes + 1, failures |-> n.failures,
     wins |-> n.wins + 1, losses |-> 0]

Failed(n) ==
    [requests |-> n.requests, successes |-> n.successes, failures |-> n.failures + 1,
     wins |-> 0, losses |-> n.losses + 1]

\* Mutant of OnSuccess: one success too many is asked for.
OneTooMany(b) ==
    LET d == [b EXCEPT !.counts = Succeeded(@)]
    IN IF b.state = "half-open" /\ d.counts.wins > MaxRequests
       THEN SetState(d, "closed")
       ELSE d

OnSuccess(b) ==
    LET d == [b EXCEPT !.counts = Succeeded(@)]
    IN IF b.state = "half-open" /\ d.counts.wins >= MaxRequests
       THEN SetState(d, "closed")
       ELSE d

OnFailure(b) ==
    LET d == [b EXCEPT !.counts = Failed(@)]
    IN IF b.state = "half-open" THEN SetState(b, "open")
       ELSE IF ReadyToTrip(d.counts) THEN SetState(d, "open")
       ELSE d

Init ==
    /\ \E g \in Gens :
          cb = [state |-> "closed", generation |-> g, expiry |-> "pending", counts |-> Zero]
    /\ running = [c \in Calls |-> None]
    /\ stale = {}
    /\ healthy = FALSE

\* The ghost, in a step of call c (None: of no call).
Age(c) ==
    stale' = (IF cb'.state # cb.state THEN {d \in Calls : running[d] # None} ELSE stale) \ {c}

\* Mutant of Admit: the probes are not limited.
AdmitUnlimited(c) ==
    /\ running[c] = None
    /\ LET b == CurrentState(cb)
       IN /\ b.state # "open"
          /\ b.counts.requests < MaxCount
          /\ cb' = [b EXCEPT !.counts.requests = @ + 1]
          /\ running' = [running EXCEPT ![c] = b.generation]
    /\ Age(c)
    /\ UNCHANGED healthy

\* Mutant of Admit: the call keeps the generation of before currentState.
AdmitOldGeneration(c) ==
    /\ running[c] = None
    /\ LET b == CurrentState(cb)
       IN /\ b.state # "open"
          /\ b.state = "half-open" => b.counts.requests < MaxRequests
          /\ b.counts.requests < MaxCount
          /\ cb' = [b EXCEPT !.counts.requests = @ + 1]
          /\ running' = [running EXCEPT ![c] = cb.generation]
    /\ Age(c)
    /\ UNCHANGED healthy

\* beforeRequest admits the call ...
Admit(c) ==
    /\ running[c] = None
    /\ LET b == CurrentState(cb)
       IN /\ b.state # "open"
          /\ b.state = "half-open" => b.counts.requests < MaxRequests
          /\ b.counts.requests < MaxCount
          /\ cb' = [b EXCEPT !.counts.requests = @ + 1]
          /\ running' = [running EXCEPT ![c] = b.generation]
    /\ Age(c)
    /\ UNCHANGED healthy

\* ... or refuses it with ErrCircuitBreakerOpen or ErrTooManyRequests.
Refuse(c) ==
    /\ running[c] = None
    /\ LET b == CurrentState(cb)
       IN /\ b.state = "open" \/ (b.state = "half-open" /\ b.counts.requests >= MaxRequests)
          /\ cb' = b
    /\ Age(c)
    /\ UNCHANGED <<running, healthy>>

\* Mutant of AfterRequest: the generation is not compared.
AfterAnyRequest(c, success) ==
    /\ running[c] # None
    /\ healthy => success
    /\ LET b == CurrentState(cb)
       IN cb' = IF b.state = "open" THEN b
                ELSE IF success THEN OnSuccess(b) ELSE OnFailure(b)
    /\ running' = [running EXCEPT ![c] = None]
    /\ Age(c)
    /\ UNCHANGED healthy

\* afterRequest; a panic of the request counts as a failure and goes on.
AfterRequest(c, success) ==
    /\ running[c] # None
    /\ healthy => success
    /\ LET b == CurrentState(cb)
       IN cb' = IF b.generation # running[c] THEN b
                ELSE IF b.state = "open" THEN b
                ELSE IF success THEN OnSuccess(b) ELSE OnFailure(b)
    /\ running' = [running EXCEPT ![c] = None]
    /\ Age(c)
    /\ UNCHANGED healthy

\* State and Snapshot also move an expired breaker on.
Observe ==
    /\ cb' = CurrentState(cb)
    /\ Age(None)
    /\ UNCHANGED <<running, healthy>>

Reset ==
    /\ ManualReset
    /\ cb' = SetState(ToNewGeneration(cb), "closed")
    /\ Age(None)
    /\ UNCHANGED <<running, healthy>>

\* The window or the open period ends.
Expire ==
    /\ cb.expiry = "pending"
    /\ cb' = [cb EXCEPT !.expiry = "passed"]
    /\ UNCHANGED <<running, stale, healthy>>

Heal == ~healthy /\ healthy' = TRUE /\ UNCHANGED <<cb, running, stale>>

Next ==
    \/ \E c \in Calls :
          \/ Admit(c)
          \/ Refuse(c)
          \/ \E success \in BOOLEAN : AfterRequest(c, success)
    \/ Observe
    \/ Reset
    \/ Expire
    \/ Heal

\* Requests end (they carry deadlines), time passes, and clients keep calling.
Fairness ==
    /\ \A c \in Calls : WF_vars(\E success \in BOOLEAN : AfterRequest(c, success))
    /\ WF_vars(Expire)
    /\ WF_vars(\E c \in Calls : Admit(c))

Spec == Init /\ [][Next]_vars

FairSpec == Spec /\ Fairness

-----------------------------------------------------------------------------
(* Properties *)

\* The calls whose result still counts.
Current == {c \in Calls : running[c] = cb.generation}

\* Types; only a closed or an open breaker has a deadline.
TypeOK ==
    /\ cb \in Breakers
    /\ running \in [Calls -> Gens \cup {None}]
    /\ stale \subseteq Calls
    /\ healthy \in BOOLEAN
    /\ cb.state = "half-open" <=> cb.expiry = "none"

\* circuitbreaker.go:199-240: each admitted request of the window is counted
\* once: as a success, as a failure, or it still runs; and no result is counted
\* in a window that the call was not admitted to, however late it comes.
CountsBalance ==
    cb.counts.requests = cb.counts.successes + cb.counts.failures + Cardinality(Current)

\* circuitbreaker.go:47 (MaxRequests): at most so many probes run at once,
\* however calls of earlier generations end.
ProbeLimit == cb.state = "half-open" => Cardinality(Current) <= MaxRequests

\* circuitbreaker.go:185: a half-open breaker can always be decided: it admits
\* one more probe or a probe still runs.
HalfOpenCanDecide ==
    cb.state = "half-open" => cb.counts.requests < MaxRequests \/ Current # {}

\* circuitbreaker.go:201: a call admitted before the last change of state
\* neither trips, closes nor re-opens the breaker.
StaleResultsIgnored ==
    [][\A c \in stale : running'[c] = None /\ cb.state # "open" => cb'.state = cb.state]_vars

SM == INSTANCE BreakerStates WITH state <- cb.state

\* circuitbreaker.go:13-19: the state only moves along the documented arrows.
ImplementsStates == SM!Spec

\* circuitbreaker.go:52 (Timeout): once the service has recovered the breaker
\* closes and stays closed.
Recovers == healthy ~> [](cb.state = "closed")

-----------------------------------------------------------------------------
(* The inductive invariant. *)

\* An open breaker has admitted nothing; a half-open one only successes so far.
CountsByState ==
    /\ cb.state = "open" => Current = {} /\ cb.counts = Zero
    /\ cb.state = "half-open" =>
          /\ cb.counts.failures = 0
          /\ cb.counts.wins = cb.counts.successes
          /\ cb.counts.wins < MaxRequests
          /\ cb.counts.requests <= MaxRequests

\* The ghost holds running calls, none of them current.
StaleIsOld == \A c \in stale : running[c] # None /\ running[c] # cb.generation

IInv == TypeOK /\ CountsBalance /\ CountsByState /\ StaleIsOld
=============================================================================
