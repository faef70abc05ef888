------------------------------- MODULE Batcher ------------------------------
(***************************************************************************)
(* pkg/foundation/syncx, Batcher: one goroutine collects the items of a    *)
(* channel and flushes them when there are maxSize of them, when the timer *)
(* of the first one expires, or at Close, which drains the channel.  An    *)
(* Add that races with Close may put its item into the channel too late.   *)
(***************************************************************************)
EXTENDS Naturals, Sequences, Functions

CONSTANTS Items, MaxBatch

VARIABLES
    in,       \* b.in
    adder,    \* adder[i]: where the Add of i is
    buf,      \* buf of run
    timerOn,  \* the timer runs
    run,      \* where run is
    closer,   \* where Close is; b.quit is closed from "wait" on
    flushed,  \* history: what flush got
    early     \* history: the items whose Add returned before Close was called

vars == <<in, adder, buf, timerOn, run, closer, flushed, early>>

TypeOK ==
    /\ in \in Seq(Items) /\ Len(in) <= MaxBatch /\ buf \in Seq(Items)
    /\ adder \in [Items -> {"none", "select", "added", "dropped"}]
    /\ run \in {"loop", "drain", "exited"} /\ closer \in {"no", "wait", "done"}
    /\ flushed \in Seq(Items) /\ timerOn \in BOOLEAN /\ early \subseteq Items

Init ==
    /\ in = <<>> /\ buf = <<>> /\ timerOn = FALSE
    /\ adder = [i \in Items |-> "none"]
    /\ run = "loop" /\ closer = "no"
    /\ flushed = <<>> /\ early = {}

Add(i) ==
    /\ \/ adder[i] = "none" /\ adder' = [adder EXCEPT ![i] = "select"] /\ UNCHANGED in
       \/ /\ adder[i] = "select" /\ Len(in) < MaxBatch
          /\ in' = Append(in, i) /\ adder' = [adder EXCEPT ![i] = "added"]
       \/ adder[i] = "select" /\ closer # "no" /\ adder' = [adder EXCEPT ![i] = "dropped"] /\ UNCHANGED in
    /\ UNCHANGED <<buf, timerOn, run, closer, flushed, early>>

\* Close, which every caller waits in; quit is closed once.
Close ==
    /\ \/ /\ closer = "no" /\ closer' = "wait"
          /\ early' = {i \in Items : adder[i] = "added"}
       \/ closer = "wait" /\ run = "exited" /\ closer' = "done" /\ UNCHANGED early
    /\ UNCHANGED <<in, adder, buf, timerOn, run, flushed>>

Flush(items) == flushed' = flushed \o items /\ buf' = <<>> /\ timerOn' = FALSE

\* An item from the channel: the first of a batch starts the timer, except while
\* draining, where the batch goes out anyway.
Take ==
    LET more == Append(buf, Head(in)) IN
    /\ run # "exited" /\ in # <<>> /\ in' = Tail(in)
    /\ \/ Len(more) >= MaxBatch /\ Flush(more)
       \/ /\ Len(more) < MaxBatch /\ buf' = more
          /\ timerOn' = (timerOn \/ (run = "loop" /\ Len(more) = 1))
          /\ UNCHANGED flushed
    /\ UNCHANGED <<adder, run, closer, early>>
Timer ==
    /\ run = "loop" /\ timerOn
    /\ Flush(buf)
    /\ UNCHANGED <<in, adder, run, closer, early>>

\* Mutant of Quit: the goroutine flushes its buffer and leaves the channel.
QuitAtOnce ==
    /\ run = "loop" /\ closer # "no" /\ run' = "exited" /\ Flush(buf)
    /\ UNCHANGED <<in, adder, closer, early>>

\* quit is seen: the channel is drained, and what remains is flushed.
Quit ==
    /\ \/ run = "loop" /\ closer # "no" /\ run' = "drain" /\ UNCHANGED <<buf, timerOn, flushed>>
       \/ run = "drain" /\ in = <<>> /\ run' = "exited" /\ Flush(buf)
    /\ UNCHANGED <<in, adder, closer, early>>
Loop == Take \/ Timer \/ Quit

Next == (\E i \in Items : Add(i)) \/ Close \/ Loop

Fairness ==
    /\ WF_vars(Loop) /\ WF_vars(closer # "no" /\ Close)
    /\ \A i \in Items : WF_vars(adder[i] = "select" /\ Add(i))

Spec == Init /\ [][Next]_vars /\ Fairness

-----------------------------------------------------------------------------
(* Properties *)

\* batcher.go:46: once Close returns, every item whose Add returned before it was
\* called has been flushed, and none twice, whatever was added meanwhile.
CloseFlushes ==
    /\ closer = "done" => early \subseteq Range(flushed)
    /\ IsInjective(flushed \o buf \o in)

\* batcher.go:8, 46: every item is flushed or left in the channel by a late Add,
\* every Add and Close returns.
Empty == (in = <<>> /\ buf = <<>>) \/ run = "exited"
Closed == closer # "wait"
Returned(i) == adder[i] # "select"
BatcherServes == []<>Empty /\ []<>Closed /\ \A i \in Items : []<>Returned(i)

-----------------------------------------------------------------------------
(* The inductive invariant behind CloseFlushes. *)

\* What was added is flushed, collected or in the channel, in that order, and
\* the goroutine only ends after it flushed what was added before Close.
FlushInv ==
    /\ Range(flushed \o buf \o in) = {i \in Items : adder[i] = "added"}
    /\ early \subseteq Range(flushed \o buf \o in)
    /\ run # "loop" => closer # "no"
    /\ closer = "done" => run = "exited"
    /\ run = "exited" => early \subseteq Range(flushed)

IInv == TypeOK /\ FlushInv /\ CloseFlushes
=============================================================================
