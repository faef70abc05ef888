------------------------------- MODULE Match --------------------------------
(***************************************************************************)
(* pkg/game/match: an authoritative session.  One loop goroutine runs the  *)
(* frames and signals that wait in callCh; inputs (and joins and leaves,   *)
(* which differ in nothing but their channel) wait for the next frame;     *)
(* outputs fan out to subscribers.  The session stops on request, when the *)
(* handler fails, when callCh overflows or after idle frames.  Callers     *)
(* look at stopped first and act later.                                    *)
(***************************************************************************)
EXTENDS Naturals, Sequences, FiniteSets

CONSTANTS
    Inputs, Subscribers,
    InputQueue, CallQueue,  \* capacities
    MaxEmptyTicks           \* m.maxEmptyTicks; 0 means no limit

VARIABLES
    input,     \* input[i]: "none", "checked", "queued", "refused" or "handled"
    sub,       \* sub[s]: "none", "checked", "open" (in m.subs), "closed", "late"
    callCh,    \* frames and signals
    signaller, \* a caller of Signal: "out" or "checked"
    empty,     \* m.emptyTicks
    halt,      \* Stop: "no", "marked" (stopped is set), "closed" (stopCh too)
    loop       \* "run", "exit" (closeSubs is next), "done"

vars == <<input, sub, callCh, signaller, empty, halt, loop>>

TypeOK ==
    /\ input \in [Inputs -> {"none", "checked", "queued", "refused", "handled"}]
    /\ sub \in [Subscribers -> {"none", "checked", "open", "closed", "late"}]
    /\ callCh \in Seq({"tick", "signal"}) /\ Len(callCh) <= CallQueue

Init ==
    /\ input = [i \in Inputs |-> "none"]
    /\ sub = [s \in Subscribers |-> "none"]
    /\ callCh = <<>> /\ signaller = "out"
    /\ empty = 0
    /\ halt = "no" /\ loop = "run"

Queued == {i \in Inputs : input[i] = "queued"}
Open == {s \in Subscribers : sub[s] = "open"}

\* Stop, in two steps for its callers; the loop's own call ends with both done.
Stop ==
    /\ halt # "closed"
    /\ halt' = IF halt = "no" THEN "marked" ELSE "closed"
    /\ UNCHANGED <<input, sub, callCh, signaller, empty, loop>>

\* QueueInput, QueueJoin, QueueLeave: look at stopped, then a send that does not
\* wait.
QueueInput(i) ==
    /\ \/ /\ input[i] = "none"
          /\ input' = [input EXCEPT ![i] = IF halt = "no" THEN "checked" ELSE "refused"]
       \/ /\ input[i] = "checked"
          /\ input' = [input EXCEPT ![i] =
                IF Cardinality(Queued) < InputQueue THEN "queued" ELSE "refused"]
    /\ UNCHANGED <<sub, callCh, signaller, empty, halt, loop>>

\* queueCall: an overflow stops the session.
QueueCall(f) ==
    IF Len(callCh) < CallQueue
    THEN callCh' = Append(callCh, f) /\ UNCHANGED halt
    ELSE halt' = "closed" /\ UNCHANGED callCh
Signal ==
    /\ \/ /\ signaller = "out" /\ halt = "no"
          /\ signaller' = "checked" /\ UNCHANGED <<callCh, halt>>
       \/ /\ signaller = "checked"
          /\ signaller' = "out"
          /\ QueueCall("signal") \/ (halt # "no" /\ UNCHANGED <<callCh, halt>>)
    /\ UNCHANGED <<input, sub, empty, loop>>

\* Subscribe: look at stopped, then join m.subs, maybe after closeSubs.
Subscribe(s) ==
    /\ \/ /\ sub[s] = "none"
          /\ sub' = [sub EXCEPT ![s] = IF halt = "no" THEN "checked" ELSE "closed"]
       \/ /\ sub[s] = "checked"
          /\ sub' = [sub EXCEPT ![s] = IF loop = "done" THEN "late" ELSE "open"]
    /\ UNCHANGED <<input, callCh, signaller, empty, halt, loop>>
Unsubscribe(s) ==
    /\ sub[s] \in {"open", "late"}
    /\ sub' = [sub EXCEPT ![s] = "closed"]
    /\ UNCHANGED <<input, callCh, signaller, empty, halt, loop>>

\* loop: the ticker queues a frame, or finds the session stopped or overloaded.
Ticker ==
    /\ loop = "run"
    /\ IF halt = "no" THEN QueueCall("tick") ELSE UNCHANGED <<callCh, halt>>
    /\ loop' = IF halt = "no" /\ Len(callCh) < CallQueue THEN "run" ELSE "exit"
    /\ UNCHANGED <<input, sub, signaller, empty>>

\* drainAndTick: all inputs go to Tick, which fails, or returns outputs or none;
\* frames without inputs, outputs and subscribers are counted.
DrainAndTick(out) ==
    /\ input' = [i \in Inputs |-> IF i \in Queued THEN "handled" ELSE input[i]]
    /\ IF out = "error"
       THEN halt' = "closed" /\ UNCHANGED empty
       ELSE LET n == IF Queued = {} /\ out = "none" /\ Open = {} THEN empty + 1 ELSE 0 IN
            /\ empty' = IF MaxEmptyTicks = 0 THEN 0 ELSE n
            /\ halt' = IF MaxEmptyTicks > 0 /\ n >= MaxEmptyTicks THEN "closed" ELSE halt
Call ==
    /\ loop = "run" /\ callCh # <<>>
    /\ callCh' = Tail(callCh)
    /\ IF Head(callCh) = "tick"
       THEN \E out \in {"error", "some", "none"} : DrainAndTick(out)
       ELSE UNCHANGED <<input, empty, halt>>
    /\ UNCHANGED <<sub, signaller, loop>>

\* case <-m.stopCh, and the deferred closeSubs and close(m.done).
Leave ==
    /\ \/ /\ loop = "run" /\ halt = "closed"
          /\ loop' = "exit" /\ UNCHANGED sub
       \/ /\ loop = "exit"
          /\ loop' = "done"
          /\ sub' = [s \in Subscribers |-> IF s \in Open THEN "closed" ELSE sub[s]]
    /\ UNCHANGED <<input, callCh, signaller, empty, halt>>

Loop == Ticker \/ Call \/ Leave

Next ==
    \/ Stop \/ Signal \/ Loop
    \/ \E i \in Inputs : QueueInput(i)
    \/ \E s \in Subscribers : Subscribe(s) \/ Unsubscribe(s)

\* The loop serves each ready channel now and then; calls that began return.
Fairness ==
    /\ WF_vars(Ticker) /\ WF_vars(Call) /\ WF_vars(Leave)
    /\ WF_vars(halt # "no" /\ Stop)
    /\ \A s \in Subscribers : WF_vars(sub[s] = "checked" /\ Subscribe(s))

Spec == Init /\ [][Next]_vars /\ Fairness

-----------------------------------------------------------------------------
(* Properties *)

\* match.go:206-208, 259-261, 301: an accepted input is handled unless the session
\* stops; and a stopped session ends and closes the channels of its subscribers,
\* but for one whose Subscribe looked before Stop and joined after the end.
Handled(i) == input[i] = "queued" => halt # "no"
Told(s) == sub[s] \in {"checked", "open"} => halt = "no"
Ended == halt = "no" \/ loop = "done"
MatchEnds == (\A i \in Inputs : []<>Handled(i)) /\ (\A s \in Subscribers : []<>Told(s)) /\ []<>Ended
=============================================================================
