------------------------------- MODULE Webhook ------------------------------
(***************************************************************************)
(* pkg/messaging/webhook with its Store and its dead letter queue: calls   *)
(* of Notify for one event and one endpoint, each of which delivers it on  *)
(* a goroutine of its own unless the event is marked, and calls of Replay. *)
(* A post may fail after the endpoint has taken it.                        *)
(***************************************************************************)
EXTENDS Naturals, FiniteSets

CONSTANTS
    Notifies, Replays,
    MaxPosts  \* retries + 1

VARIABLES
    marked,   \* the Store has the event
    dlq,      \* how many dead letters; they are alike
    call,     \* call[c]: place, and posts made
    records   \* how many deliveries and failures the Store recorded

vars == <<marked, dlq, call, records>>

Calls == Notifies \cup Replays
Places == {"no", "skipped", "post", "failed", "unmarked", "recorded", "dead", "taken", "delivered"}
TypeOK ==
    /\ marked \in BOOLEAN /\ dlq \in Nat
    /\ call \in [Calls -> [at : Places, posts : 0..MaxPosts]]
    /\ records \in [ok : Nat, failed : Nat]

Init ==
    /\ marked = FALSE /\ dlq = 0
    /\ call = [c \in Calls |-> [at |-> "no", posts |-> 0]]
    /\ records = [ok |-> 0, failed |-> 0]

At(c, at) == call[c].at = at
Goto(c, at) == call' = [call EXCEPT ![c].at = at]

\* MarkDelivered tests and marks in one step.
Notify(c) ==
    /\ At(c, "no")
    /\ Goto(c, IF marked THEN "skipped" ELSE "post")
    /\ marked' = TRUE
    /\ UNCHANGED <<dlq, records>>

\* The endpoint is the one the letter came from: endpoints are added at start-up
\* and never removed.  (A letter of an unknown endpoint, from a DLQ that outlives
\* the process, is popped and dropped with an error, webhook.go:240-242.)
Replay(r) ==
    /\ At(r, "no") /\ dlq > 0
    /\ dlq' = dlq - 1
    /\ Goto(r, "post")
    /\ UNCHANGED <<marked, records>>

\* deliver: posts until one succeeds, or the context is done in a back-off; the
\* endpoint has taken the post, and then RecordDelivered (not by Replay).
PostOk(c) ==
    /\ At(c, "post")
    /\ Goto(c, IF c \in Notifies THEN "taken" ELSE "delivered")
    /\ UNCHANGED <<marked, dlq, records>>
PostFails(c) ==
    /\ At(c, "post")
    /\ \E last \in BOOLEAN :
          /\ call[c].posts + 1 = MaxPosts => last
          /\ call' = [call EXCEPT ![c].posts = @ + 1, ![c].at = IF last THEN "failed" ELSE "post"]
    /\ UNCHANGED <<marked, dlq, records>>
RecordDelivered(c) ==
    /\ At(c, "taken")
    /\ records' = [records EXCEPT !.ok = @ + 1]
    /\ Goto(c, "delivered")
    /\ UNCHANGED <<marked, dlq>>

\* Notify gave up: the mark is taken away, the failure recorded, the letter is
\* dead; three locks.
UnmarkDelivered(c) ==
    /\ At(c, "failed") /\ c \in Notifies
    /\ marked' = FALSE
    /\ Goto(c, "unmarked")
    /\ UNCHANGED <<dlq, records>>
RecordFailed(c) ==
    /\ At(c, "unmarked")
    /\ records' = [records EXCEPT !.failed = @ + 1]
    /\ Goto(c, "recorded")
    /\ UNCHANGED <<marked, dlq>>

\* Mutant of Push: a replay that fails drops its letter.
PushNew(c) ==
    /\ At(c, IF c \in Notifies THEN "recorded" ELSE "failed")
    /\ dlq' = IF c \in Notifies THEN dlq + 1 ELSE dlq
    /\ Goto(c, "dead")
    /\ UNCHANGED <<marked, records>>

\* The failed Notify, or Replay, puts its letter into the queue.
Push(c) ==
    /\ At(c, IF c \in Notifies THEN "recorded" ELSE "failed")
    /\ dlq' = dlq + 1
    /\ Goto(c, "dead")
    /\ UNCHANGED <<marked, records>>

Next ==
    \/ \E c \in Notifies : Notify(c) \/ RecordDelivered(c) \/ UnmarkDelivered(c) \/ RecordFailed(c)
    \/ \E c \in Replays : Replay(c)
    \/ \E c \in Calls : PostOk(c) \/ PostFails(c) \/ Push(c)

Spec == Init /\ [][Next]_vars

-----------------------------------------------------------------------------
(* Properties *)

Those(S, places) == {c \in S : call[c].at \in places}
Many(S, places) == Cardinality(Those(S, places))

\* webhook.go:172 and 179: an event that Notify has delivered, or is delivering, is
\* not delivered by another Notify.
NotifiedOnce == Many(Notifies, {"post", "failed", "taken", "delivered"}) <= 1

\* webhook.go:91, 140: a delivery that was given up is in the dead letter queue, in
\* the hands of a Replay, or replayed.
DeadLettersKept ==
    Many(Notifies, {"dead"}) = dlq + Many(Replays, {"post", "failed", "delivered"})

-----------------------------------------------------------------------------
(* The inductive invariant behind both.  The mark stands while a Notify delivers *)
(* the event or has delivered it, and only that call can take it away.           *)

MarkInv ==
    LET busy == Those(Notifies, {"post", "failed", "taken", "delivered"})
    IN  (busy # {} => marked) /\ \A c, d \in busy : c = d

\* A delivery that goes on, or has yet to begin, has posts left.
PostInv == \A c \in Calls : call[c].at \in {"no", "post"} => call[c].posts < MaxPosts

IInv == TypeOK /\ MarkInv /\ PostInv /\ DeadLettersKept
=============================================================================
