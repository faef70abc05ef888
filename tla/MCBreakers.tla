----------------------------- MODULE MCBreakers -----------------------------
(***************************************************************************)
(* Instances of the three breakers for TLC.  They share nothing, so a      *)
(* behaviour is one of a single breaker, chosen at the start: the request  *)
(* breaker with a Reset and the default policy, or without a Reset and     *)
(* tripping on consecutive failures; the error-rate breaker; the node      *)
(* breaker with and without a Reset.  The others stay in their initial     *)
(* states.                                                                 *)
(***************************************************************************)
EXTENDS CircuitBreaker

VARIABLES
    which,  \* the breaker of this behaviour
    rate, rateCall, node, nodeBusy

allVars == <<vars, which, rate, rateCall, node, nodeBusy>>

Unaided == INSTANCE CircuitBreaker WITH
    ManualReset <- FALSE, ReadyToTrip <- ConsecutiveFailures

Rate == INSTANCE RateBreaker WITH
    b <- rate, call <- rateCall,
    Threshold <- 50, MinRequests <- 2, HalfOpenMax <- 2, MaxTotal <- 4

Node == INSTANCE NodeBreaker WITH
    ns <- node, busy <- nodeBusy,
    FailureThreshold <- 2, SuccessThreshold <- 2

UnaidedNode == INSTANCE NodeBreaker WITH
    ns <- node, busy <- nodeBusy,
    FailureThreshold <- 2, SuccessThreshold <- 2, ManualReset <- FALSE

MCInit ==
    /\ which \in {"request", "unaided", "rate", "node", "unaidedNode"}
    /\ Init /\ Rate!Init /\ Node!Init

RequestStep(A) == A /\ UNCHANGED <<which, rate, rateCall, node, nodeBusy>>
RateStep(A) == which = "rate" /\ A /\ UNCHANGED <<which, cb, running, stale, node, nodeBusy>>
NodeStep(A) == A /\ UNCHANGED <<which, cb, running, stale, rate, rateCall>>

MCNext ==
    \/ which = "request" /\ RequestStep(Next)
    \/ which = "unaided" /\ RequestStep(Unaided!Next)
    \/ RateStep(Rate!Next)
    \/ which = "node" /\ NodeStep(Node!Next)
    \/ which = "unaidedNode" /\ NodeStep(UnaidedNode!Next)

\* The fairness of the breaker that was chosen.
MCFairness ==
    /\ \A c \in Calls :
          /\ WF_allVars(which = "request" /\
                RequestStep(\E success \in BOOLEAN : AfterRequest(c, success)))
          /\ WF_allVars(which = "unaided" /\
                RequestStep(\E success \in BOOLEAN : Unaided!AfterRequest(c, success)))
          /\ WF_allVars(RateStep(Rate!Return(c)))
          /\ WF_allVars(which \in {"node", "unaidedNode"} /\ NodeStep(Node!End(c)))
    /\ WF_allVars(which \in {"request", "unaided"} /\ RequestStep(Expire))
    /\ WF_allVars(which \in {"request", "unaided"} /\ RequestStep(\E c \in Calls : Admit(c)))
    /\ WF_allVars(RateStep(Rate!CoolDown)) /\ WF_allVars(RateStep(Rate!EndWindow))
    /\ WF_allVars(RateStep(\E c \in Calls : Rate!Do(c)))
    /\ WF_allVars(which \in {"node", "unaidedNode"} /\ NodeStep(Node!CoolDown))
    /\ WF_allVars(which \in {"node", "unaidedNode"} /\ NodeStep(Node!ProbeTimeout))
    /\ WF_allVars(which \in {"node", "unaidedNode"} /\
          NodeStep(\E c \in Calls : Node!Available(c)))

MCSpec == MCInit /\ [][MCNext]_allVars /\ MCFairness

-----------------------------------------------------------------------------
(* Properties *)

UnaidedSM == INSTANCE BreakerStates WITH
    ManualReset <- FALSE,
    state <- IF which = "unaided" THEN cb.state
             ELSE IF which = "unaidedNode" THEN node.state
             ELSE "closed"

\* circuitbreaker.go:13-19 of the request breaker, :8-9 of the node breaker:
\* without a Reset an open breaker closes only through a half-open phase,
\* although results of earlier phases arrive at any time.
UnaidedImplementsStates == UnaidedSM!Spec

\* Once the service has recovered, the breaker closes and stays closed:
\* although a window holds old failures (pkg/resilience), although a probe was
\* never reported (pkg/governance, circuitbreaker.go:165).
AllRecover ==
    /\ which \in {"request", "unaided"} => Recovers
    /\ which = "rate" => Rate!Recovers
    /\ which \in {"node", "unaidedNode"} => Node!Recovers
=============================================================================
