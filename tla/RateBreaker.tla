----------------------------- MODULE RateBreaker -----------------------------
(***************************************************************************)
(* pkg/resilience/circuitbreaker: the breaker that trips on the error rate *)
(* of a window.  Do decides under the lock, runs the function without it,  *)
(* and records the result in whatever state the breaker is by then: a call *)
(* remembers which branch it took, nothing else.                           *)
(***************************************************************************)
EXTENDS Naturals

CONSTANTS
    Calls,        \* the callers that may be inside Do at once
    Threshold,    \* threshold, in percent, 1..100
    MinRequests,  \* minRequests
    HalfOpenMax,  \* halfOpenMax
    MaxTotal      \* bound: results of one window

VARIABLES
    b,       \* the breaker
    call,    \* call[c]: the branch of Do that c is in, "none" outside
    healthy  \* the environment: from now on every call succeeds

vars == <<b, call, healthy>>

\* cooled and windowOver: the cooldown since openedAt, the window since
\* windowStart is over.
Breakers ==
    [state : {"closed", "open", "half-open"}, cooled : BOOLEAN, windowOver : BOOLEAN,
     total : Nat, failures : Nat, halfSucc : Nat, halfFail : Nat]

Init ==
    /\ b = [state |-> "closed", cooled |-> FALSE, windowOver |-> FALSE,
            total |-> 0, failures |-> 0, halfSucc |-> 0, halfFail |-> 0]
    /\ call = [c \in Calls |-> "none"]
    /\ healthy = FALSE

ResetWindow(d) == [d EXCEPT !.total = 0, !.failures = 0, !.windowOver = FALSE]

\* openedAt is set whether or not the state changes.
Open(d) == [d EXCEPT !.state = "open", !.cooled = FALSE]

CheckStateTransition(d) ==
    IF d.state = "open" /\ d.cooled
    THEN [d EXCEPT !.state = "half-open", !.halfSucc = 0, !.halfFail = 0]
    ELSE IF d.state = "closed" /\ d.windowOver THEN ResetWindow(d)
    ELSE d

\* State: only checkStateTransition.
State ==
    /\ b' = CheckStateTransition(b)
    /\ UNCHANGED <<call, healthy>>

\* The first half of Do: refuse the call, or leave the lock to run it.
Do(c) ==
    /\ call[c] = "none"
    /\ LET d == CheckStateTransition(b)
           admitted == \/ d.state = "closed"
                       \/ d.state = "half-open" /\ d.halfSucc + d.halfFail < HalfOpenMax
       IN /\ b' = d
          /\ call' = [call EXCEPT ![c] = IF admitted THEN d.state ELSE "none"]
    /\ UNCHANGED healthy

RecordClosed(c, ok) ==
    /\ call[c] = "closed"
    /\ healthy => ok
    /\ LET w == IF b.windowOver THEN ResetWindow(b) ELSE b
           d == [w EXCEPT !.total = @ + 1, !.failures = IF ok THEN @ ELSE @ + 1]
       IN /\ d.total <= MaxTotal
          /\ b' = IF d.total >= MinRequests /\ 100 * d.failures >= Threshold * d.total
                  THEN Open(d) ELSE d
    /\ call' = [call EXCEPT ![c] = "none"]
    /\ UNCHANGED healthy

RecordHalfOpen(c, ok) ==
    /\ call[c] = "half-open"
    /\ healthy => ok
    /\ b' = IF ~ok THEN Open([b EXCEPT !.halfFail = @ + 1])
            ELSE IF b.halfSucc + 1 < HalfOpenMax THEN [b EXCEPT !.halfSucc = @ + 1]
            ELSE ResetWindow([b EXCEPT !.halfSucc = @ + 1, !.state = "closed"])
    /\ call' = [call EXCEPT ![c] = "none"]
    /\ UNCHANGED healthy

\* A panic of the function leaves Do without a record.
Panic(c) ==
    /\ call[c] # "none"
    /\ ~healthy
    /\ call' = [call EXCEPT ![c] = "none"]
    /\ UNCHANGED <<b, healthy>>

\* Time passes.
CoolDown ==
    /\ b.state = "open" /\ ~b.cooled
    /\ b' = [b EXCEPT !.cooled = TRUE]
    /\ UNCHANGED <<call, healthy>>

EndWindow ==
    /\ ~b.windowOver
    /\ b' = [b EXCEPT !.windowOver = TRUE]
    /\ UNCHANGED <<call, healthy>>

Heal == ~healthy /\ healthy' = TRUE /\ UNCHANGED <<b, call>>

Return(c) ==
    \/ \E ok \in BOOLEAN : RecordClosed(c, ok) \/ RecordHalfOpen(c, ok)
    \/ Panic(c)

Next ==
    \/ \E c \in Calls : Do(c) \/ Return(c)
    \/ State
    \/ CoolDown
    \/ EndWindow
    \/ Heal

\* Functions return, time passes, and clients keep calling.
Fairness ==
    /\ \A c \in Calls : WF_vars(Return(c))
    /\ WF_vars(CoolDown) /\ WF_vars(EndWindow)
    /\ WF_vars(\E c \in Calls : Do(c))

Spec == Init /\ [][Next]_vars

FairSpec == Spec /\ Fairness

-----------------------------------------------------------------------------
(* Properties *)

\* Types, and failures are among the results counted.
TypeOK ==
    /\ b \in Breakers
    /\ b.failures <= b.total
    /\ call \in [Calls -> {"none", "closed", "half-open"}]
    /\ healthy \in BOOLEAN

\* circuitbreaker.go:1-2: after the service has recovered the breaker closes
\* and stays closed, although a window that holds old failures may trip it again.
Recovers == healthy ~> [](b.state = "closed")
=============================================================================
