-------------------------------- MODULE Batch -------------------------------
(***************************************************************************)
(* pkg/messaging/mq, Batch: a handler that collects messages and hands     *)
(* them to fn when there are size of them or when the timer of the first   *)
(* one goes off.  A timer whose callback has begun cannot be stopped; it   *)
(* takes the lock later and finds whatever is there by then.               *)
(* What fn returns and the contexts change nothing in the code and are not *)
(* in the model: a timer's flush drops the error (batch.go:79), a full one *)
(* returns it for its last message only, and no ctx is looked at.  So the  *)
(* batch is not failed as a whole and nothing is flushed when ctx is       *)
(* cancelled, which batch.go:16-17 promise; no property here is about it.  *)
(***************************************************************************)
EXTENDS Naturals, Sequences, FiniteSets, Functions

CONSTANTS Messages, Size

VARIABLES
    buf,     \* b.buf
    timer,   \* b.timer: an index, 0 for nil
    alarm,   \* alarm[i]: "none", "armed", "begun" (waits for the lock), "over"
    flushed  \* history: the messages that fn got, in the order of the drains

vars == <<buf, timer, alarm, flushed>>

Timers == 1..Cardinality(Messages)

TypeOK ==
    /\ buf \in Seq(Messages) /\ flushed \in Seq(Messages)
    /\ timer \in Timers \cup {0}
    /\ alarm \in [Timers -> {"none", "armed", "begun", "over"}]

Init ==
    /\ buf = <<>> /\ timer = 0 /\ flushed = <<>>
    /\ alarm = [i \in Timers |-> "none"]

\* Mutant of Drain: the timer is stopped but not forgotten.
DrainKeepsTimer(batch, alarms) ==
    /\ flushed' = flushed \o batch /\ buf' = <<>>
    /\ alarm' = IF timer # 0 /\ alarms[timer] = "armed" THEN [alarms EXCEPT ![timer] = "over"] ELSE alarms
    /\ UNCHANGED timer

\* drain, with the call of fn that follows: a batch goes out, the current timer
\* is stopped if its callback has not begun, and forgotten.
Drain(batch, alarms) ==
    /\ flushed' = flushed \o batch /\ buf' = <<>>
    /\ timer' = 0
    /\ alarm' = IF timer # 0 /\ alarms[timer] = "armed" THEN [alarms EXCEPT ![timer] = "over"] ELSE alarms

Handle(m) ==
    LET more == Append(buf, m) IN
    /\ m \notin Range(flushed \o buf)
    /\ \/ Len(more) >= Size /\ Drain(more, alarm)
       \/ /\ Len(more) < Size /\ buf' = more
          /\ \/ timer # 0 /\ UNCHANGED <<timer, alarm>>
             \/ /\ timer = 0
                /\ timer' = CHOOSE i \in Timers : alarm[i] = "none" /\ \A j \in Timers : j < i => alarm[j] # "none"
                /\ alarm' = [alarm EXCEPT ![timer'] = "armed"]
          /\ UNCHANGED flushed

\* The timer goes off, and its callback gets the lock.
GoesOff(i) ==
    /\ alarm[i] = "armed" /\ alarm' = [alarm EXCEPT ![i] = "begun"]
    /\ UNCHANGED <<buf, timer, flushed>>
Callback(i) ==
    /\ alarm[i] = "begun"
    /\ \/ buf # <<>> /\ Drain(buf, [alarm EXCEPT ![i] = "over"])
       \/ buf = <<>> /\ alarm' = [alarm EXCEPT ![i] = "over"] /\ UNCHANGED <<buf, timer, flushed>>

Next == (\E m \in Messages : Handle(m)) \/ \E i \in Timers : GoesOff(i) \/ Callback(i)

Fairness == \A i \in Timers : WF_vars(GoesOff(i)) /\ WF_vars(Callback(i))

Spec == Init /\ [][Next]_vars /\ Fairness

-----------------------------------------------------------------------------
(* Properties *)

\* batch.go:15: what waits has a timer, though an old callback may come late
\* and stop a new timer; no message is flushed twice or is still in the buffer.
WaitingHasTimer ==
    /\ buf # <<>> => timer # 0 /\ alarm[timer] \in {"armed", "begun"}
    /\ Len(buf) < Size /\ IsInjective(flushed \o buf)

\* batch.go:15: every message is flushed, full batch or not, by the timer at the
\* latest (and not before it when ctx is cancelled).
Empty == buf = <<>>
AllFlushed == []<>Empty

-----------------------------------------------------------------------------
(* The inductive invariant behind WaitingHasTimer. *)

\* There is a timer exactly while messages wait, and no more timers have been
\* started than messages have come.
TimerInv ==
    /\ buf # <<>> <=> timer # 0
    /\ \E k \in 0..Len(flushed \o buf) : \A i \in Timers : alarm[i] # "none" <=> i <= k

IInv == TypeOK /\ TimerInv /\ WaitingHasTimer
=============================================================================
