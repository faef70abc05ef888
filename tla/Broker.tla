------------------------------- MODULE Broker -------------------------------
(***************************************************************************)
(* pkg/messaging/mq, InProc, one topic: subscriptions without a group all  *)
(* get a message, those of a group compete and one of them, in turn, gets  *)
(* it.  Publish picks the targets under the lock and sends after it,       *)
(* waiting for room in each one's buffer; a subscription's delivery        *)
(* goroutine and the one that removes it end independently.                *)
(***************************************************************************)
EXTENDS Naturals, Sequences, Functions

CONSTANTS
    Messages, Subs,
    Leaving,  \* bound: the subscriptions whose context may end
    Buffer

RoundRobin == 1073741824  \* 1 << 30

VARIABLES
    competing, \* the subscriptions of the one group; it does not change
    subs,     \* b.subs of the topic
    rr,       \* b.rr of the group
    broker,   \* "open", then "closed", then "done" (the channel is closed)
    publish,  \* publish[m]: place, the targets left and (history) all of them
    ch,       \* ch[s]: sub.ch
    sub,      \* sub[s]: its context and its delivery goroutine
    handled   \* history: handled[s]

vars == <<competing, subs, rr, broker, publish, ch, sub, handled>>

TypeOK ==
    /\ competing \in SUBSET Subs
    /\ subs \in Seq(Subs) /\ rr \in Nat /\ broker \in {"open", "closed", "done"}
    /\ publish \in [Messages -> [at : {"none", "send", "sent", "failed", "refused"},
                                 left : Seq(Subs), all : SUBSET Subs]]
    /\ ch \in [Subs -> Seq(Messages)] /\ handled \in [Subs -> Seq(Messages)]
    /\ sub \in [Subs -> [ctxDone : BOOLEAN, loop : {"none", "run", "exited"}]]
    /\ \A s \in Subs : Len(ch[s]) <= Buffer

Init ==
    /\ competing \in SUBSET Subs
    /\ subs = <<>> /\ rr = 0 /\ broker = "open"
    /\ publish = [m \in Messages |-> [at |-> "none", left |-> <<>>, all |-> {}]]
    /\ ch = [s \in Subs |-> <<>>] /\ handled = [s \in Subs |-> <<>>]
    /\ sub = [s \in Subs |-> [ctxDone |-> FALSE, loop |-> "none"]]

Subscribe(s) ==
    /\ sub[s].loop = "none" /\ broker = "open"
    /\ subs' = Append(subs, s)
    /\ sub' = [sub EXCEPT ![s].loop = "run"]
    /\ UNCHANGED <<competing, rr, broker, publish, ch, handled>>
CtxDone(s) ==
    /\ s \in Leaving /\ sub[s].loop # "none" /\ ~sub[s].ctxDone
    /\ sub' = [sub EXCEPT ![s].ctxDone = TRUE]
    /\ UNCHANGED <<competing, subs, rr, broker, publish, ch, handled>>
Over(s) == sub[s].loop # "none" /\ (sub[s].ctxDone \/ broker = "done")

\* append(s[:i], s[i+1:]...), where i is the first place of e.
Without(s, e) ==
    LET i == CHOOSE j \in DOMAIN s : s[j] = e /\ \A k \in 1..(j - 1) : s[k] # e
    IN  SubSeq(s, 1, i - 1) \o SubSeq(s, i + 1, Len(s))

Unsubscribe(s) ==
    /\ Over(s) /\ s \in Range(subs)
    /\ subs' = Without(subs, s)
    /\ UNCHANGED <<competing, rr, broker, publish, ch, sub, handled>>
\* deliver: a select that may still take a message when the context is done.
Deliver(s) ==
    /\ sub[s].loop = "run"
    /\ \/ /\ ch[s] # <<>>
          /\ handled' = [handled EXCEPT ![s] = Append(@, Head(ch[s]))]
          /\ ch' = [ch EXCEPT ![s] = Tail(@)]
          /\ UNCHANGED sub
       \/ Over(s) /\ sub' = [sub EXCEPT ![s].loop = "exited"] /\ UNCHANGED <<ch, handled>>
    /\ UNCHANGED <<competing, subs, rr, broker, publish>>

\* The subscriptions of a list that are in T, in their order.
Among(list, T) ==
    LET kept[i \in 0..Len(list)] ==
            IF i = 0 THEN <<>> ELSE IF list[i] \in T THEN Append(kept[i - 1], list[i]) ELSE kept[i - 1]
    IN  kept[Len(list)]

\* Mutant of Targets: a group is served like everybody else.
TargetsAll(members) == subs

\* The targets: all without a group, and the group's next one.
Targets(members) ==
    Among(subs, Subs \ competing)
    \o (IF members = <<>> THEN <<>> ELSE <<members[(rr % Len(members)) + 1]>>)

Publish(m) ==
    LET members == Among(subs, competing)
        targets == Targets(members) IN
    /\ publish[m].at = "none"
    /\ \/ /\ broker # "open"
          /\ publish' = [publish EXCEPT ![m].at = "refused"] /\ UNCHANGED rr
       \/ /\ broker = "open"
          /\ publish' = [publish EXCEPT ![m] =
                [at |-> IF targets = <<>> THEN "sent" ELSE "send", left |-> targets, all |-> Range(targets)]]
          /\ rr' = IF members = <<>> THEN rr ELSE (rr + 1) % RoundRobin
    /\ UNCHANGED <<competing, subs, broker, ch, sub, handled>>
Send(m) ==
    LET s == Head(publish[m].left) IN
    /\ publish[m].at = "send" /\ Len(ch[s]) < Buffer
    /\ ch' = [ch EXCEPT ![s] = Append(@, m)]
    /\ publish' = [publish EXCEPT ![m].left = Tail(@),
                                  ![m].at = IF Len(publish[m].left) = 1 THEN "sent" ELSE "send"]
    /\ UNCHANGED <<competing, subs, rr, broker, sub, handled>>
\* The publisher's own context ends.
GiveUp(m) ==
    /\ publish[m].at = "send"
    /\ publish' = [publish EXCEPT ![m].at = "failed"]
    /\ UNCHANGED <<competing, subs, rr, broker, ch, sub, handled>>

Close ==
    /\ \/ broker = "open" /\ broker' = "closed" /\ subs' = <<>>
       \/ broker = "closed" /\ broker' = "done" /\ UNCHANGED subs
    /\ UNCHANGED <<competing, rr, publish, ch, sub, handled>>

Next ==
    \/ \E s \in Subs : Subscribe(s) \/ CtxDone(s) \/ Unsubscribe(s) \/ Deliver(s)
    \/ \E m \in Messages : Publish(m) \/ Send(m) \/ GiveUp(m)
    \/ Close

Fairness ==
    /\ \A s \in Subs : WF_vars(Deliver(s)) /\ WF_vars(Unsubscribe(s))
    /\ \A m \in Messages : WF_vars(Send(m))

Spec == Init /\ [][Next]_vars /\ Fairness

-----------------------------------------------------------------------------
(* Properties *)

Holds(s, m) == m \in Range(handled[s] \o ch[s])

\* inproc.go:9-12: a message reaches at most one of a group and nobody twice; a
\* Publish that returned no error reached everybody it had chosen, whoever left
\* in the meantime.
FanOutOrCompete ==
    \A m \in Messages :
        /\ \A s, r \in competing : Holds(s, m) /\ Holds(r, m) => s = r
        /\ \A s \in Subs : IsInjective(handled[s] \o ch[s])
        /\ publish[m].at = "sent" => \A s \in publish[m].all : Holds(s, m)

\* inproc.go:11, 145-150: Publish returns, unless it waits for room in the buffer
\* of a subscription that is over, and what was sent to a live one is handled.
Returned(m) == publish[m].at = "send" => Over(Head(publish[m].left))
Caught(s) == ch[s] = <<>> \/ Over(s)
PublishEnds == (\A m \in Messages : []<>Returned(m)) /\ (\A s \in Subs : []<>Caught(s))

-----------------------------------------------------------------------------
(* The inductive invariant behind FanOutOrCompete. *)

\* A subscription is in the list once, and only after it subscribed.
SubsInv == IsInjective(subs) /\ \A s \in Range(subs) : sub[s].loop # "none"

\* The targets of a message are different subscriptions, at most one of them of
\* the group; those that are left are the ones that do not hold it yet.
TargetInv ==
    \A m \in Messages :
        /\ IsInjective(publish[m].left) /\ Range(publish[m].left) \subseteq publish[m].all
        /\ publish[m].at = "none" => publish[m].all = {}
        /\ publish[m].at = "send" => publish[m].left # <<>>
        /\ publish[m].at = "sent" => publish[m].left = <<>>
        /\ \A s, r \in competing \cap publish[m].all : s = r
        /\ \A s \in Subs : Holds(s, m) <=> s \in publish[m].all \ Range(publish[m].left)

OnceInv == \A s \in Subs : IsInjective(handled[s] \o ch[s])

IInv == TypeOK /\ SubsInv /\ TargetInv /\ OnceInv
=============================================================================
