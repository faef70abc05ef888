----------------------------- MODULE NodeBreaker -----------------------------
(***************************************************************************)
(* pkg/governance/circuitbreaker: the breaker of one node, as the          *)
(* discovering clients use it: Available when an instance is picked,       *)
(* Report when the call to it has ended.  Nothing ties a Report to the     *)
(* Available before it, and a caller that fails between the two (no        *)
(* connection to the node) never reports.  Nodes share no state.           *)
(***************************************************************************)
EXTENDS Naturals

CONSTANTS
    Calls,             \* concurrent calls to the node
    FailureThreshold,  \* failureThreshold
    SuccessThreshold,  \* successThreshold
    ManualReset        \* whether somebody calls Reset

VARIABLES
    ns,       \* the node's state
    busy,     \* the calls between Available and their end
    healthy   \* the environment: from now on calls reach the node and succeed

vars == <<ns, busy, healthy>>

\* cooled: timeout has passed since openedAt; probeLate: probeTimeout has
\* passed since halfOpenProbeAt.
NodeStates ==
    [state : {"closed", "open", "half-open"}, fails : Nat, succs : Nat,
     inflight : BOOLEAN, cooled : BOOLEAN, probeLate : BOOLEAN]

Init ==
    /\ ns = [state |-> "closed", fails |-> 0, succs |-> 0,
             inflight |-> FALSE, cooled |-> FALSE, probeLate |-> FALSE]
    /\ busy = {}
    /\ healthy = FALSE

\* setState to another state.
SetState(n, to) ==
    [n EXCEPT !.state = to, !.fails = 0, !.succs = 0, !.inflight = FALSE,
              !.cooled = IF to = "open" THEN FALSE ELSE @]

\* A probe is let through.
Probe(n) == [n EXCEPT !.inflight = TRUE, !.probeLate = FALSE]

\* Mutant of Accepts: the slot of a lost probe is never given out again.
NeverReclaims ==
    \/ ns.state = "closed"
    \/ ns.state = "open" /\ ns.cooled
    \/ ns.state = "half-open" /\ ~ns.inflight

\* What Available answers.
Accepts ==
    \/ ns.state = "closed"
    \/ ns.state = "open" /\ ns.cooled
    \/ ns.state = "half-open" /\ (ns.inflight => ns.probeLate)

\* Available says yes ...
Available(c) ==
    /\ c \notin busy
    /\ Accepts
    /\ \/ /\ ns.state = "closed"
          /\ UNCHANGED ns
       \/ /\ ns.state = "open"
          /\ ns' = Probe(SetState(ns, "half-open"))
       \/ /\ ns.state = "half-open"
          /\ ns' = Probe(ns)
    /\ busy' = busy \cup {c}
    /\ UNCHANGED healthy

\* ... or no, and the client tries another node.
Unavailable == ~Accepts /\ UNCHANGED vars

Report(c, ok) ==
    /\ c \in busy
    /\ healthy => ok
    /\ LET n == [ns EXCEPT !.inflight = FALSE]
       IN ns' = CASE ns.state = "closed" /\ ok -> [ns EXCEPT !.fails = 0]
                  [] ns.state = "closed" /\ ~ok ->
                        IF ns.fails + 1 >= FailureThreshold
                        THEN SetState(ns, "open")
                        ELSE [ns EXCEPT !.fails = @ + 1]
                  [] ns.state = "half-open" /\ ok ->
                        IF ns.succs + 1 >= SuccessThreshold
                        THEN SetState(n, "closed")
                        ELSE [n EXCEPT !.succs = @ + 1]
                  [] ns.state = "half-open" /\ ~ok -> SetState(n, "open")
                  [] ns.state = "open" -> ns
    /\ busy' = busy \ {c}
    /\ UNCHANGED healthy

\* The client gets no connection to the node it picked: Call reports nothing.
Abandon(c) ==
    /\ c \in busy
    /\ ~healthy
    /\ busy' = busy \ {c}
    /\ UNCHANGED <<ns, healthy>>

\* Reset of all nodes; unlike setState it calls no callback.
Reset ==
    /\ ManualReset
    /\ ns' = [ns EXCEPT !.state = "closed", !.fails = 0, !.succs = 0, !.inflight = FALSE]
    /\ UNCHANGED <<busy, healthy>>

\* Time passes.
CoolDown ==
    /\ ns.state = "open" /\ ~ns.cooled
    /\ ns' = [ns EXCEPT !.cooled = TRUE]
    /\ UNCHANGED <<busy, healthy>>

ProbeTimeout ==
    /\ ns.state = "half-open" /\ ns.inflight /\ ~ns.probeLate
    /\ ns' = [ns EXCEPT !.probeLate = TRUE]
    /\ UNCHANGED <<busy, healthy>>

Heal == ~healthy /\ healthy' = TRUE /\ UNCHANGED <<ns, busy>>

End(c) == (\E ok \in BOOLEAN : Report(c, ok)) \/ Abandon(c)

Next ==
    \/ \E c \in Calls : Available(c) \/ End(c)
    \/ Unavailable
    \/ Reset
    \/ CoolDown
    \/ ProbeTimeout
    \/ Heal

\* Calls end, time passes, and clients keep picking the node.
Fairness ==
    /\ \A c \in Calls : WF_vars(End(c))
    /\ WF_vars(CoolDown) /\ WF_vars(ProbeTimeout)
    /\ WF_vars(\E c \in Calls : Available(c))

Spec == Init /\ [][Next]_vars

FairSpec == Spec /\ Fairness

-----------------------------------------------------------------------------
(* Properties *)

\* Types; the counters stay below their thresholds, and only a half-open node
\* has a probe in flight.
TypeOK ==
    /\ ns \in NodeStates
    /\ busy \subseteq Calls
    /\ healthy \in BOOLEAN
    /\ ns.fails < FailureThreshold /\ ns.succs < SuccessThreshold
    /\ ns.inflight => ns.state = "half-open"

\* circuitbreaker.go:165: the slot of a probe that is never reported is given
\* out again: a recovered node is used again, for good, whatever happened to
\* earlier probes.
Recovers == healthy ~> [](ns.state = "closed")

=============================================================================
