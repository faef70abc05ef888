-------------------------- MODULE DiscoveryClient --------------------------
(***************************************************************************)
(* client/grpcclient/discovery.go: a client keeps the list of instances    *)
(* that its registry reports, refreshed on demand and by a watch, and one  *)
(* connection per address; a Call takes a copy of the list, picks a node   *)
(* it has not failed on yet, connects, invokes and retries, while updates  *)
(* replace the list and drain the connections of removed instances.        *)
(*                                                                         *)
(* The registry is external: Find returns what it holds or fails, and the  *)
(* watch calls back, one call at a time, until it has told what it holds.  *)
(* No breaker, router or label filter is configured, the default.          *)
(***************************************************************************)
EXTENDS Integers, FiniteSets

CONSTANTS
    Callers, Getters,  \* goroutines that use Call, and GetClient
    Addrs, None,
    Retries,   \* maxRetries
    MaxEvents  \* bound on changes of the registry, failed Finds and closed connections

VARIABLES
    members,  \* what the registry holds
    client,   \* services; conns: the addresses in clients; open and draining: how
              \* many connections; shut: in clients but closed; late: the list is
              \* one that a refresh read before the registry changed
    once,     \* startOnce, and the list its refresh has read
    feed,     \* news: the watch has a list to tell; ch: notifyCh
    bg,       \* whether the background goroutines run
    stopping, \* Close: not called, in bgWg.Wait, done
    calls,    \* calls[c]: place, attempt, copy of the list, banned nodes, node
    left

vars == <<members, client, once, feed, bg, stopping, calls, left>>

Lists == SUBSET Addrs
Conns == [services : Lists, conns : Lists, shut : Lists, late : BOOLEAN,
          open : [Addrs -> Nat], draining : [Addrs -> Nat]]
CallState == [at : {"start", "refresh", "reread", "pick", "conn", "dial", "invoke", "done"},
              try : 0..Retries, list : Lists, banned : Lists, node : Addrs \cup {None}]
TypeOK ==
    /\ members \in Lists
    /\ client \in Conns
    /\ once \in [at : {"no", "start", "auto", "done"}, found : Lists]
    /\ feed \in [news : BOOLEAN, ch : Lists \cup {None}]
    /\ bg \in BOOLEAN
    /\ stopping \in {"no", "wait", "done"}
    /\ calls \in [Callers \cup Getters -> CallState]
    /\ left \in 0..MaxEvents

NewCall == [at |-> "start", try |-> 0, list |-> {}, banned |-> {}, node |-> None]
Init ==
    /\ members \in {{}, Addrs}
    /\ client = [services |-> {}, conns |-> {}, shut |-> {}, late |-> FALSE,
                 open |-> [a \in Addrs |-> 0], draining |-> [a \in Addrs |-> 0]]
    /\ once = [at |-> "no", found |-> {}]
    /\ feed = [news |-> TRUE, ch |-> None]
    /\ bg = FALSE /\ stopping = "no"
    /\ calls = [c \in Callers \cup Getters |-> NewCall]
    /\ left = MaxEvents

Spend == left > 0 /\ left' = left - 1

-----------------------------------------------------------------------------
(* Start, the watch and its two goroutines *)

\* The registry changes.
Change ==
    /\ Spend
    /\ members' \in Lists \ {members}
    /\ feed' = [feed EXCEPT !.news = TRUE]
    /\ UNCHANGED <<client, once, bg, stopping, calls>>

\* Start, or autoStart from a call: the first to come finds the list.  A Start
\* whose Find fails has used startOnce up.
BeginOnce(how) ==
    /\ once.at = "no"
    /\ \/ once' = [at |-> how, found |-> members] /\ UNCHANGED left
       \/ once' = [at |-> "done", found |-> {}] /\ Spend
    /\ UNCHANGED <<members, client, feed, bg, stopping, calls>>

\* The second half of refreshServices.
Refreshed(list) == [client EXCEPT !.services = list, !.late = list # members]

\* ... stores it, and Start goes on to launch its goroutines.
EndOnce ==
    /\ once.at \in {"start", "auto"}
    /\ client' = Refreshed(once.found)
    /\ bg' = (once.at = "start")
    /\ once' = [at |-> "done", found |-> {}]
    /\ UNCHANGED <<members, feed, stopping, calls, left>>

\* Mutant of Callback: when notifyCh is full the new list is dropped.
CallbackDropsNew ==
    /\ bg /\ feed.news
    /\ feed' = [news |-> FALSE, ch |-> IF feed.ch = None THEN members ELSE feed.ch]
    /\ UNCHANGED <<members, client, once, bg, stopping, calls, left>>

\* The watch calls back with what the registry holds: the list replaces the one
\* in notifyCh.  Nobody else sends, so the last send of the callback has room.
Callback ==
    /\ bg /\ feed.news
    /\ feed' = [news |-> FALSE, ch |-> members]
    /\ UNCHANGED <<members, client, once, bg, stopping, calls, left>>

\* The applying goroutine receives a list and stores it; the connections of the
\* addresses it lacks leave the map and are drained.
ApplyServiceUpdate ==
    /\ bg /\ feed.ch # None
    /\ LET gone == client.conns \ feed.ch
       IN  client' = [client EXCEPT
               !.services = feed.ch, !.late = FALSE,
               !.conns = @ \ gone, !.shut = @ \ gone,
               !.draining = [a \in Addrs |-> @[a] + IF a \in gone \ client.shut THEN 1 ELSE 0]]
    /\ feed' = [feed EXCEPT !.ch = None]
    /\ UNCHANGED <<members, once, bg, stopping, calls, left>>

\* The drain timeout of a removed connection ends and closes it.
Drained(a) ==
    /\ client.draining[a] > 0
    /\ client' = [client EXCEPT !.draining[a] = @ - 1, !.open[a] = @ - 1]
    /\ UNCHANGED <<members, once, feed, bg, stopping, calls, left>>

\* A user of GetClient closes the connection he got; the health check drops it.
Shut(a) ==
    /\ Spend
    /\ a \in client.conns \ client.shut
    /\ client' = [client EXCEPT !.shut = @ \cup {a}, !.open[a] = @ - 1]
    /\ UNCHANGED <<members, once, feed, bg, stopping, calls>>
HealthCheck ==
    /\ bg /\ client.shut # {}
    /\ client' = [client EXCEPT !.conns = @ \ client.shut, !.shut = {}]
    /\ UNCHANGED <<members, once, feed, bg, stopping, calls, left>>

\* Close: Stop cancels the context the goroutines run under, if Start has set
\* one; they see it after their present step.  When they and the drains have
\* ended, the connections in the map are closed.
Cancel ==
    /\ stopping = "no" /\ bg
    /\ stopping' = "wait"
    /\ UNCHANGED <<members, client, once, feed, bg, calls, left>>
Close ==
    /\ \/ stopping = "wait" /\ \A a \in Addrs : client.draining[a] = 0
       \/ stopping = "no" /\ ~bg /\ once.at \in {"no", "done"}
    /\ stopping' = "done" /\ bg' = FALSE
    /\ client' = [client EXCEPT !.conns = {}, !.shut = {},
                  !.open = [a \in Addrs |-> @[a] - IF a \in client.conns \ client.shut THEN 1 ELSE 0]]
    /\ UNCHANGED <<members, once, feed, calls, left>>

-----------------------------------------------------------------------------
(* Call *)

At(c, at) == calls[c].at = at
Goto(c, at) == calls' = [calls EXCEPT ![c].at = at]

Return(c) == calls' = [calls EXCEPT ![c] = [NewCall EXCEPT !.at = "done"]]

\* An attempt failed: the next one, if there is one.  GetClient has one.
Fails(c, banned) ==
    IF c \in Callers /\ calls[c].try < Retries
    THEN calls' = [calls EXCEPT ![c] =
             [NewCall EXCEPT !.try = calls[c].try + 1, !.banned = banned]]
    ELSE Return(c)

\* The caller's context is done when an attempt begins or in the back-off (or
\* there is no call at all).
GiveUp(c) ==
    /\ At(c, "start")
    /\ Return(c)
    /\ UNCHANGED <<members, client, once, feed, bg, stopping, left>>

\* getClientAndService: copy the list, or find it when it is empty.
Lookup(c) ==
    /\ At(c, "start") /\ once.at = "done"
    /\ \/ /\ client.services # {}
          /\ calls' = [calls EXCEPT ![c].at = "pick", ![c].list = client.services]
          /\ UNCHANGED left
       \/ /\ client.services = {}
          /\ calls' = [calls EXCEPT ![c].at = "refresh", ![c].list = members]
          /\ UNCHANGED left
       \/ client.services = {} /\ Fails(c, calls[c].banned) /\ Spend
    /\ UNCHANGED <<members, client, once, feed, bg, stopping>>
Refresh(c) ==
    /\ At(c, "refresh")
    /\ client' = Refreshed(calls[c].list)
    /\ Goto(c, "reread")
    /\ UNCHANGED <<members, once, feed, bg, stopping, left>>
Reread(c) ==
    /\ At(c, "reread")
    /\ IF client.services = {} THEN Fails(c, calls[c].banned)
       ELSE calls' = [calls EXCEPT ![c].at = "pick", ![c].list = client.services]
    /\ UNCHANGED <<members, client, once, feed, bg, stopping, left>>

\* Mutant of Candidates: the banned nodes are not filtered out.
CandidatesAll(call) == call.list

\* filterBanned, and the whole list when all are banned.
Candidates(call) ==
    IF call.list \subseteq call.banned THEN call.list ELSE call.list \ call.banned

\* selectService: any candidate (Random, LeastConnections), or one that the
\* balancer, built from the present list, yields; other calls move the same
\* round-robin index, so that it can miss a candidate len(services) times.
SelectService(c) ==
    /\ At(c, "pick")
    /\ LET ok == Candidates(calls[c])
           now == client.services
       IN  \/ \E a \in ok : calls' = [calls EXCEPT ![c].at = "conn", ![c].node = a]
           \/ (now = {} \/ ~(now \subseteq ok)) /\ Fails(c, calls[c].banned)
    /\ UNCHANGED <<members, client, once, feed, bg, stopping, left>>

\* The connection is there: GetClient returns it.
Connected(c) ==
    IF c \in Getters THEN Return(c)
    ELSE calls' = [calls EXCEPT ![c].at = "invoke", ![c].list = {}]

\* getOrCreateConn: look under the read lock ...
GetConn(c) ==
    /\ At(c, "conn")
    /\ IF calls[c].node \in client.conns THEN Connected(c) ELSE Goto(c, "dial")
    /\ UNCHANGED <<members, client, once, feed, bg, stopping, left>>

\* Mutant of CreateConn: the map is not looked at again under the write lock.
CreateConnAnyway(c) ==
    /\ At(c, "dial")
    /\ client' = [client EXCEPT !.conns = @ \cup {calls[c].node}, !.open[calls[c].node] = @ + 1]
    /\ Connected(c)
    /\ UNCHANGED <<members, once, feed, bg, stopping, left>>

\* ... and again under the write lock; NewClient may refuse the address.
CreateConn(c) ==
    /\ At(c, "dial")
    /\ \/ /\ calls[c].node \in client.conns
          /\ UNCHANGED client /\ Connected(c)
       \/ /\ calls[c].node \notin client.conns
          /\ client' = [client EXCEPT !.conns = @ \cup {calls[c].node}, !.open[calls[c].node] = @ + 1]
          /\ Connected(c)
       \/ /\ calls[c].node \notin client.conns
          /\ UNCHANGED client /\ Fails(c, calls[c].banned)
    /\ UNCHANGED <<members, once, feed, bg, stopping, left>>

\* Invoke: success or an error that is not retried, or the node is banned.
Invoke(c) ==
    /\ At(c, "invoke")
    /\ Return(c) \/ Fails(c, calls[c].banned \cup {calls[c].node})
    /\ UNCHANGED <<members, client, once, feed, bg, stopping, left>>

Progress(c) ==
    \/ At(c, "start") /\ BeginOnce("auto")
    \/ Lookup(c) \/ Refresh(c) \/ Reread(c) \/ SelectService(c) \/ GetConn(c) \/ CreateConn(c) \/ Invoke(c)
-----------------------------------------------------------------------------
Drains == \E a \in Addrs : Drained(a)

Next ==
    \/ Change \/ BeginOnce("start") \/ EndOnce
    \/ Callback \/ ApplyServiceUpdate \/ HealthCheck \/ Drains
    \/ Cancel \/ Close
    \/ \E a \in Addrs : Shut(a)
    \/ \E c \in Callers \cup Getters : GiveUp(c) \/ Progress(c)

\* The goroutines run on, the watch tells what it has seen, drain timeouts end.
Fairness ==
    /\ WF_vars(EndOnce) /\ WF_vars(Callback) /\ WF_vars(ApplyServiceUpdate)
    /\ WF_vars(Drains) /\ WF_vars(stopping = "wait" /\ Close)
    /\ \A c \in Callers \cup Getters : WF_vars(Progress(c))

Spec == Init /\ [][Next]_vars /\ Fairness

-----------------------------------------------------------------------------
(* Properties *)

\* discovery.go:595-638, 695-787: however calls, updates, the health check and
\* Close interleave, every open connection is in the map, where Close finds it,
\* or being drained; two calls that connect at once share one.
NoConnectionLost ==
    \A a \in Addrs :
        client.open[a] = client.draining[a] + IF a \in client.conns \ client.shut THEN 1 ELSE 0

\* discovery.go:361 (a failed node is not chosen again in the same call), unless
\* the copy of the list that the attempt works on has no other.
RetryElsewhere ==
    \A c \in Callers :
        LET call == calls[c]
        IN  call.at \in {"conn", "dial"} /\ call.node \in call.banned
            => call.list \subseteq call.banned

\* discovery.go:661-693: while the client watches, its list becomes what the
\* registry holds, although notifyCh keeps one list and drops the others; unless
\* a refresh stored an older list than the watch had applied.
Converged ==
    bg /\ stopping = "no" => client.services = members \/ client.late

\* discovery.go:317-353, 355-413: every call returns, and so does Close.
Returned ==
    /\ stopping \in {"no", "done"}
    /\ \A c \in Callers \cup Getters : calls[c].at = "done"

Converges == <>[](Converged /\ Returned)

-----------------------------------------------------------------------------
(* The inductive invariant behind NoConnectionLost and RetryElsewhere: only a    *)
(* connection of the map can be shut, and a call that connects or invokes has a  *)
(* node.                                                                         *)

ConnInv == client \in Conns /\ client.shut \subseteq client.conns /\ NoConnectionLost

CallInv ==
    /\ calls \in [Callers \cup Getters -> CallState]
    /\ \A c \in Callers \cup Getters :
          calls[c].at \in {"conn", "dial", "invoke"} => calls[c].node \in Addrs
    /\ RetryElsewhere

IInv == TypeOK /\ ConnInv /\ CallInv
=============================================================================
