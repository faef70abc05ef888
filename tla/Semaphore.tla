----------------------------- MODULE Semaphore ------------------------------
(***************************************************************************)
(* pkg/foundation/semaphore: a weighted semaphore.  Acquire tries once and *)
(* then polls until it succeeds, its deadline passes or ctx is done; there *)
(* is no queue, and Release's broadcast has no listener.                   *)
(***************************************************************************)
EXTENDS Naturals, FiniteSets

CONSTANTS
    Clients, Capacity,
    Costs,   \* the costs that are asked for
    MayWait  \* whether maxWait > 0

VARIABLES
    used,  \* s.used
    user   \* user[u]: place and cost of its DoWithCost

vars == <<used, user>>

TypeOK ==
    /\ used \in 0..Capacity
    /\ user \in [Clients -> [at : {"idle", "try", "poll", "inside", "rejected"}, cost : Costs \cup {0}]]

Init ==
    /\ used = 0
    /\ user = [u \in Clients |-> [at |-> "idle", cost |-> 0]]

Fits(c) == used + c <= Capacity

\* Acquire (and TryAcquire) and DoWithCost.
Ask(u, c) ==
    /\ user[u].at = "idle"
    /\ user' = [user EXCEPT ![u] = [at |-> "try", cost |-> c]]
    /\ UNCHANGED used
\* A test of the capacity, under the lock, with the increment.
Take(u) ==
    /\ user[u].at \in {"try", "poll"}
    /\ Fits(user[u].cost)
    /\ used' = used + user[u].cost
    /\ user' = [user EXCEPT ![u].at = "inside"]
\* It does not fit: rejected, or on to acquireWait.
Full(u) ==
    /\ user[u].at = "try"
    /\ ~Fits(user[u].cost)
    /\ user' = [user EXCEPT ![u].at = IF MayWait THEN "poll" ELSE "rejected"]
    /\ UNCHANGED used
\* acquireWait: the deadline passes or ctx is done after a failed test.
Expire(u) ==
    /\ user[u].at = "poll"
    /\ ~Fits(user[u].cost)
    /\ user' = [user EXCEPT ![u].at = "rejected"]
    /\ UNCHANGED used
\* Release, deferred, so a panic of fn releases too.
Release(u) ==
    /\ user[u].at = "inside"
    /\ used' = used - user[u].cost
    /\ user' = [user EXCEPT ![u] = [at |-> "idle", cost |-> 0]]
Step(u) == Take(u) \/ Full(u) \/ Expire(u) \/ Release(u)

Next == \E u \in Clients : Step(u) \/ \E c \in Costs : Ask(u, c)

\* A caller polls and gives back what it got.
Fairness == \A u \in Clients : WF_vars(Step(u))

Spec == Init /\ [][Next]_vars /\ Fairness

-----------------------------------------------------------------------------
(* Properties *)

Inside == {u \in Clients : user[u].at = "inside"}
Units == UNION {{u} \X (1..user[u].cost) : u \in Inside}  \* one for each unit that somebody holds

\* semaphore.go:1: what is in use is the sum of the costs of those inside,
\* and never more than the capacity.
CostsFit ==
    /\ used = Cardinality(Units)
    /\ used <= Capacity

\* It is inductive as it stands.
IInv == TypeOK /\ CostsFit

\* semaphore.go:76: every Acquire is granted or refused.
Answered(u) == user[u].at \notin {"try", "poll"}
AcquireEnds == \A u \in Clients : []<>Answered(u)
=============================================================================
