---------------------------- MODULE Broadcaster -----------------------------
(***************************************************************************)
(* pkg/messaging/stream: Publish gives a value to every subscriber without *)
(* waiting; a full queue loses its oldest value or the new one.  Concurrent*)
(* publishers share the read lock and race for the place they made.        *)
(* Subscribers do not affect each other: there is one.  Values are         *)
(* numbered in the order their Publish begins.                             *)
(***************************************************************************)
EXTENDS Naturals, Sequences

CONSTANTS
    Publishers, None,
    BufSize,
    MaxValues  \* bound on the calls of Publish

VARIABLES
    subQueue,    \* s.ch
    subscribed,  \* "no", "yes", "closed" (s.ch is closed)
    publish,     \* publish[p]: place in send, and the value
    dropOldest,  \* b.dropMode = DropOldest
    received,    \* history: the values the subscriber took
    before,      \* history: before[v]: the values whose Publish had returned
    returned     \* history: the values published to the subscriber

vars == <<subQueue, subscribed, publish, dropOldest, received, before, returned>>

Values == 1..MaxValues
Inside == {p \in Publishers : publish[p].at # "idle"}

TypeOK ==
    /\ subQueue \in Seq(Values) /\ Len(subQueue) <= BufSize
    /\ subscribed \in {"no", "yes", "closed"} /\ dropOldest \in BOOLEAN
    /\ publish \in [Publishers -> [at : {"idle", "first", "drop", "again"}, value : Values \cup {None}]]
    /\ received \in Seq(Values) /\ before \in Seq(SUBSET Values) /\ returned \subseteq Values

Init ==
    /\ subQueue = <<>> /\ subscribed = "no"
    /\ publish = [p \in Publishers |-> [at |-> "idle", value |-> None]]
    /\ dropOldest \in BOOLEAN
    /\ received = <<>> /\ before = <<>> /\ returned = {}

\* Subscribe and unsubscribe (and Close) take the write lock.
Subscribe ==
    /\ subscribed = "no" /\ Inside = {}
    /\ subscribed' = "yes"
    /\ UNCHANGED <<subQueue, publish, dropOldest, received, before, returned>>
Unsubscribe ==
    /\ subscribed = "yes" /\ Inside = {}
    /\ subscribed' = "closed"
    /\ UNCHANGED <<subQueue, publish, dropOldest, received, before, returned>>

Publish(p) ==
    /\ subscribed = "yes" /\ publish[p].at = "idle" /\ Len(before) < MaxValues
    /\ publish' = [publish EXCEPT ![p] = [at |-> "first", value |-> Len(before) + 1]]
    /\ before' = Append(before, returned)
    /\ UNCHANGED <<subQueue, subscribed, dropOldest, received, returned>>

Return(p) ==
    /\ publish' = [publish EXCEPT ![p] = [at |-> "idle", value |-> None]]
    /\ returned' = returned \cup {publish[p].value}
    /\ UNCHANGED <<subscribed, dropOldest, received, before>>

\* A select with a default: send when there is room.
TrySend(p) ==
    /\ publish[p].at \in {"first", "again"} /\ Len(subQueue) < BufSize
    /\ subQueue' = Append(subQueue, publish[p].value)
    /\ Return(p)

\* No room: at first, DropNewest gives up and DropOldest goes on to drop one; a
\* second time, another publisher was faster, and the value is lost.
NoRoom(p) ==
    /\ Len(subQueue) = BufSize
    /\ \/ /\ publish[p].at = "again" \/ (publish[p].at = "first" /\ ~dropOldest)
          /\ Return(p)
       \/ /\ publish[p].at = "first" /\ dropOldest
          /\ publish' = [publish EXCEPT ![p].at = "drop"]
          /\ UNCHANGED <<subscribed, dropOldest, received, before, returned>>
    /\ UNCHANGED subQueue

\* Mutant of Drop: having made room, the publisher does not try again.
DropOnly(p) ==
    /\ publish[p].at = "drop"
    /\ subQueue' = IF subQueue = <<>> THEN <<>> ELSE Tail(subQueue)
    /\ Return(p)

\* The oldest value makes room, if the subscriber has not.
Drop(p) ==
    /\ publish[p].at = "drop"
    /\ subQueue' = IF subQueue = <<>> THEN <<>> ELSE Tail(subQueue)
    /\ publish' = [publish EXCEPT ![p].at = "again"]
    /\ UNCHANGED <<subscribed, dropOldest, received, before, returned>>

\* The subscriber reads its channel, also what is left in a closed one.
Receive ==
    /\ subQueue # <<>>
    /\ received' = Append(received, Head(subQueue))
    /\ subQueue' = Tail(subQueue)
    /\ UNCHANGED <<subscribed, publish, dropOldest, before, returned>>

Next ==
    \/ Subscribe \/ Unsubscribe \/ Receive
    \/ \E p \in Publishers : Publish(p) \/ TrySend(p) \/ NoRoom(p) \/ Drop(p)

Spec == Init /\ [][Next]_vars

-----------------------------------------------------------------------------
(* Properties *)

Got == received \o subQueue
InOrder == \A i, j \in DOMAIN Got : i < j => Got[j] \notin before[Got[i]]

\* Nothing was published after the last value it has or will get, seen from v.
NewestFor(v) == Got # <<>> /\ Got[Len(Got)] \notin before[v]

\* broadcaster.go:26-31: the subscriber gets no value after one whose Publish
\* began when the first had returned; and with DropOldest, once no Publish is in
\* progress, nothing was published after the last value it has or will get.
LatestSurvives ==
    /\ InOrder
    /\ dropOldest /\ Inside = {} => \A v \in returned : NewestFor(v)

-----------------------------------------------------------------------------
(* The inductive invariant behind LatestSurvives. *)

\* A Publish in progress has a value of its own, which has not returned; and
\* only what has returned is before anything.
ValueInv ==
    /\ \A i \in DOMAIN Got : Got[i] \in DOMAIN before
    /\ returned \subseteq DOMAIN before
    /\ \A v \in DOMAIN before : before[v] \subseteq returned
    /\ \A p \in Inside :
          /\ publish[p].value \in DOMAIN before \ returned
          /\ \A q \in Inside : publish[p].value = publish[q].value => p = q

\* Whoever dropped a value finds room, or the place was taken by a newer one.
Again == {p \in Publishers : publish[p].at = "again"}
RepairInv ==
    dropOldest => \/ Again # {} /\ Len(subQueue) < BufSize
                  \/ \A v \in returned \cup {publish[p].value : p \in Again} : NewestFor(v)

IInv == TypeOK /\ ValueInv /\ RepairInv /\ InOrder
=============================================================================
