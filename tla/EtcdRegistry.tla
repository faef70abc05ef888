---------------------------- MODULE EtcdRegistry ----------------------------
(***************************************************************************)
(* service/discover/etcdv3: an instance registers under a lease that a     *)
(* loop keeps alive and replaces when it is lost, until its Deregister     *)
(* function stops the loop and deletes the key; a watcher reads a snapshot *)
(* and then the events since, and hands the list to a slower consumer over *)
(* a channel that keeps only the latest.                                   *)
(*                                                                         *)
(* etcd is external: a key belongs to the lease of its last Put, goes with *)
(* that lease, and a Put under a dead lease fails.  Every call may fail,   *)
(* with or without its effect; faults are bounded.                         *)
(***************************************************************************)
EXTENDS Integers, Sequences

CONSTANTS
    Instances, None,
    MaxFaults  \* bound on failed calls, lost leases and broken watches

VARIABLES
    etcd,    \* key[i]: the lease i is registered under; leases; events: the log
    reg,     \* reg[i]: the registration: place, lease, and whether regCtx is done
    undo,    \* undo[i]: the function Register returned
    watch,   \* the watcher: place, endpoints, the next event it will see
    notify,  \* notifyCh (None when empty), and what update() was last called with
    faults

vars == <<etcd, reg, undo, watch, notify, faults>>

Content == {i \in Instances : etcd.key[i] # None}

TypeOK ==
    /\ etcd.key \in [Instances -> etcd.leases \cup {None}]
    /\ \A i \in Instances : reg[i].at \in {"none", "grant", "put", "undo", "alive", "revoke", "done"}
    /\ undo \in [Instances -> {"none", "ready", "delete", "done"}]
    /\ watch.at \in {"snapshot", "watch"} /\ watch.next \in Nat
    /\ notify.ch \in (SUBSET Instances) \cup {None}

Init ==
    /\ etcd = [key |-> [i \in Instances |-> None], leases |-> {}, granted |-> 0, events |-> <<>>]
    /\ reg = [i \in Instances |-> [at |-> "none", lease |-> None, stop |-> FALSE]]
    /\ undo = [i \in Instances |-> "none"]
    /\ watch = [at |-> "snapshot", endpoints |-> {}, next |-> 1]
    /\ notify = [ch |-> None, seen |-> {}]
    /\ faults = 0

Fault == faults < MaxFaults /\ faults' = faults + 1

\* What etcd does: the events of keys that come and go are logged.
Put(i, l) ==
    etcd' = [etcd EXCEPT !.key[i] = l, !.events = Append(@, [put |-> TRUE, id |-> i])]
Delete(i) ==
    etcd' = IF etcd.key[i] = None THEN etcd
            ELSE [etcd EXCEPT !.key[i] = None, !.events = Append(@, [put |-> FALSE, id |-> i])]
\* The lease of i ends; its key goes unless a newer lease has it.
EndLease(i, l) ==
    etcd' = [etcd EXCEPT
        !.leases = @ \ {l},
        !.key[i] = IF @ = l THEN None ELSE @,
        !.events = IF etcd.key[i] = l THEN Append(@, [put |-> FALSE, id |-> i]) ELSE @]

Goto(i, at) == reg' = [reg EXCEPT ![i].at = at]

Register(i) ==
    /\ reg[i].at = "none"
    /\ Goto(i, "grant")
    /\ UNCHANGED <<etcd, undo, watch, notify, faults>>

\* registerWithRetry: give up when the context is done; otherwise Grant ...
Grant(i) ==
    /\ reg[i].at = "grant"
    /\ IF reg[i].stop
       THEN Goto(i, "done") /\ UNCHANGED etcd
       ELSE LET l == <<i, etcd.granted + 1>> IN
            /\ etcd' = [etcd EXCEPT !.leases = @ \cup {l}, !.granted = @ + 1]
            /\ reg' = [reg EXCEPT ![i].at = "put", ![i].lease = l]
    /\ UNCHANGED <<undo, watch, notify, faults>>

\* ... and Put, which may fail with or without effect (it also fails when the
\* context is cancelled under it); then the lease is revoked and all retried.
PutKey(i) ==
    /\ reg[i].at = "put"
    /\ \/ /\ reg[i].lease \in etcd.leases
          /\ Put(i, reg[i].lease)
          /\ Goto(i, "alive") /\ UNCHANGED faults
          /\ undo' = [undo EXCEPT ![i] = IF @ = "none" THEN "ready" ELSE @]
       \/ /\ IF reg[i].stop \/ reg[i].lease \notin etcd.leases THEN UNCHANGED faults ELSE Fault
          /\ \/ UNCHANGED etcd
             \/ reg[i].lease \in etcd.leases /\ Put(i, reg[i].lease)
          /\ Goto(i, "undo") /\ UNCHANGED undo
    /\ UNCHANGED <<watch, notify>>

\* Revoke, of a lease whose Put failed or on the way out.
Revoke(i) ==
    /\ reg[i].at \in {"undo", "revoke"}
    /\ \/ EndLease(i, reg[i].lease) /\ UNCHANGED faults
       \/ Fault /\ UNCHANGED etcd
    /\ Goto(i, IF reg[i].at = "undo" THEN "grant" ELSE "done")
    /\ UNCHANGED <<undo, watch, notify>>

\* Mutant of KeepAliveLost: the loop ends instead of registering anew.
KeepAliveGivesUp(i) ==
    /\ reg[i].at = "alive"
    /\ IF reg[i].stop \/ reg[i].lease \notin etcd.leases THEN UNCHANGED faults ELSE Fault
    /\ Goto(i, "done")
    /\ UNCHANGED <<etcd, undo, watch, notify>>

\* keepAliveLoop: the channel closes, because the lease is lost, the stream
\* broke or the context is done, and the loop registers anew; or the loop sees
\* the context done and revokes.
KeepAliveLost(i) ==
    /\ reg[i].at = "alive"
    /\ IF reg[i].stop \/ reg[i].lease \notin etcd.leases THEN UNCHANGED faults ELSE Fault
    /\ Goto(i, "grant")
    /\ UNCHANGED <<etcd, undo, watch, notify>>
KeepAliveDone(i) ==
    /\ reg[i].at = "alive" /\ reg[i].stop
    /\ Goto(i, "revoke")
    /\ UNCHANGED <<etcd, undo, watch, notify, faults>>

\* A lease runs out: one that is new or kept alive, only by a fault.
InUse(i, l) == reg[i].at \in {"put", "alive"} /\ reg[i].lease = l
LeaseExpires(i, l) ==
    /\ l \in etcd.leases
    /\ IF InUse(i, l) THEN Fault ELSE UNCHANGED faults
    /\ EndLease(i, l)
    /\ UNCHANGED <<reg, undo, watch, notify>>

\* The function Register returned: stop(), then Delete, whose error is logged.
Deregister(i) ==
    /\ \/ /\ undo[i] = "ready"
          /\ reg' = [reg EXCEPT ![i].stop = TRUE]
          /\ undo' = [undo EXCEPT ![i] = "delete"]
          /\ UNCHANGED <<etcd, faults>>
       \/ /\ undo[i] = "delete"
          /\ \/ Delete(i) /\ UNCHANGED faults
             \/ Fault /\ UNCHANGED etcd
          /\ undo' = [undo EXCEPT ![i] = "done"]
          /\ UNCHANGED reg
    /\ UNCHANGED <<watch, notify>>

\* The context given to Register is done.
ContextDone(i) ==
    /\ reg[i].at # "none" /\ ~reg[i].stop
    /\ reg' = [reg EXCEPT ![i].stop = TRUE]
    /\ UNCHANGED <<etcd, undo, watch, notify, faults>>

\* watchSnapshot: read the keys and remember the revision.  The watch starts at
\* that revision, so the event that made it is seen again.
WatchSnapshot ==
    /\ watch.at = "snapshot"
    /\ watch' = [at |-> "watch", endpoints |-> Content,
                 next |-> IF etcd.events = <<>> THEN 1 ELSE Len(etcd.events)]
    /\ notify' = [notify EXCEPT !.ch = Content]
    /\ UNCHANGED <<etcd, reg, undo, faults>>

\* watchLoop: an event is applied and the list replaces what waits in notifyCh;
\* or the watch breaks and Watch takes a new snapshot.
WatchLoop ==
    /\ watch.at = "watch"
    /\ \/ /\ watch.next <= Len(etcd.events)
          /\ LET e == etcd.events[watch.next]
                 now == IF e.put THEN watch.endpoints \cup {e.id} ELSE watch.endpoints \ {e.id}
             IN  /\ watch' = [watch EXCEPT !.endpoints = now, !.next = @ + 1]
                 /\ notify' = [notify EXCEPT !.ch = now]
          /\ UNCHANGED faults
       \/ /\ Fault
          /\ watch' = [at |-> "snapshot", endpoints |-> {}, next |-> 1]
          /\ UNCHANGED notify
    /\ UNCHANGED <<etcd, reg, undo>>

\* The consumer goroutine takes the latest list.
Notify ==
    /\ notify.ch # None
    /\ notify' = [ch |-> None, seen |-> notify.ch]
    /\ UNCHANGED <<etcd, reg, undo, watch, faults>>

Loop(i) == Grant(i) \/ PutKey(i) \/ Revoke(i) \/ KeepAliveDone(i)
           \/ (reg[i].lease \notin etcd.leases /\ KeepAliveLost(i))
Watcher == WatchSnapshot \/ WatchLoop
Expire(i) ==
    \E l \in etcd.leases :
        l[1] = i /\ ~InUse(i, l) /\ LeaseExpires(i, l)

Next ==
    \/ \E i \in Instances :
          \/ Register(i) \/ Loop(i) \/ KeepAliveLost(i) \/ Deregister(i) \/ ContextDone(i)
          \/ \E l \in etcd.leases : l[1] = i /\ LeaseExpires(i, l)
    \/ Watcher \/ Notify

\* The loops run on, a Deregister ends, and a lease nobody keeps alive runs out.
Fairness ==
    /\ \A i \in Instances :
          /\ WF_vars(Loop(i)) /\ WF_vars(Expire(i))
          /\ WF_vars(undo[i] = "delete" /\ Deregister(i))
    /\ WF_vars(WatchSnapshot) /\ WF_vars(WatchLoop) /\ WF_vars(Notify)

Spec == Init /\ [][Next]_vars /\ Fairness

-----------------------------------------------------------------------------
(* Properties *)

\* registry.go:146-191: until it is deregistered or its context is done, an
\* instance whose lease, stream or calls fail is advertised again.
StaysRegistered ==
    \A i \in Instances : []<>(reg[i].at = "none" \/ reg[i].stop \/ i \in Content)

\* registry.go:91-98, 166-175: after that it is gone for good, also when the loop
\* was registering it anew, a late Put landed after the Delete, or the Delete
\* or the Revoke failed.
Away == \A i \in Instances : reg[i].stop => i \notin Content
StaysAway == <>[]Away

\* registry.go:263-389: what the consumer was last told becomes what etcd
\* contains, over broken watches and conflated notifications.
Told == notify.seen = Content
WatchConverges == <>[]Told
=============================================================================
