----------------------------- MODULE TimerQueue -----------------------------
(***************************************************************************)
(* pkg/orchestration/timerqueue: one-off timers of one goroutine.  Callers *)
(* put commands into a bounded channel and are refused when it is full;    *)
(* the goroutine takes commands in order and, at each tick of its ticker,  *)
(* fires what is due.  A timer is numbered by the AddAt that made it; its  *)
(* ID may be empty (None), and then it cannot be cancelled.                *)
(***************************************************************************)
EXTENDS Naturals, Sequences, FiniteSets

CONSTANTS
    Ids, None,
    ChanSize,
    MaxAdds,  \* bound on the timers
    MaxClock  \* bound on the clock

VARIABLES
    timer,    \* timer[n]: ID and ExecuteAt
    cmdCh,    \* the channel: numbers of timers to add, IDs to cancel
    pending,  \* h: the numbers in the heap
    idIndex,  \* idIndex[id]: the number of its timer in the heap
    running,  \* Start has not returned
    clock,
    called,   \* history: the timers whose Fn was started
    dropped   \* history: the timers that a command removed from the heap

vars == <<timer, cmdCh, pending, idIndex, running, clock, called, dropped>>

Timers == 1..MaxAdds
Added == DOMAIN timer

TypeOK ==
    /\ Added \subseteq Timers /\ pending \subseteq Added
    /\ timer \in [Added -> [id : Ids \cup {None}, at : 0..MaxClock]]
    /\ cmdCh \in Seq([add : Added \cup {None}, cancel : Ids \cup {None}]) /\ Len(cmdCh) <= ChanSize
    /\ idIndex \in [Ids -> Added \cup {None}]
    /\ running \in BOOLEAN /\ clock \in 0..MaxClock
    /\ called \subseteq Added /\ dropped \subseteq Added

\* New, and Start up to its loop.
Init ==
    /\ timer = [n \in {} |-> 0]
    /\ cmdCh = <<>>
    /\ pending = {}
    /\ idIndex = [id \in Ids |-> None]
    /\ running = TRUE
    /\ clock = 0
    /\ called = {} /\ dropped = {}

\* A send that does not wait: a command that finds no room is refused.
Offer(cmd) == Len(cmdCh) < ChanSize /\ cmdCh' = Append(cmdCh, cmd)

AddAt(id, at) ==
    LET n == Cardinality(Added) + 1 IN
    /\ n \in Timers
    /\ Offer([add |-> n, cancel |-> None])
    /\ timer' = [m \in Added \cup {n} |-> IF m = n THEN [id |-> id, at |-> at] ELSE timer[m]]
    /\ UNCHANGED <<pending, idIndex, running, clock, called, dropped>>
Cancel(id) ==
    /\ Offer([add |-> None, cancel |-> id])
    /\ UNCHANGED <<timer, pending, idIndex, running, clock, called, dropped>>

\* case cmd := <-q.cmdCh: a timer replaces the one with its ID; a cancelled ID
\* leaves the heap and the index.
Command ==
    LET cmd == Head(cmdCh)
        n == cmd.add
        id == IF n = None THEN cmd.cancel ELSE timer[n].id
        old == IF id = None \/ idIndex[id] = None THEN {} ELSE {idIndex[id]}
    IN
    /\ running /\ cmdCh # <<>>
    /\ cmdCh' = Tail(cmdCh)
    /\ pending' = (pending \ old) \cup ({n} \ {None})
    /\ idIndex' = IF id = None THEN idIndex ELSE [idIndex EXCEPT ![id] = n]
    /\ dropped' = dropped \cup old
    /\ UNCHANGED <<timer, running, clock, called>>

\* case now := <-ticker.C, whose time may be late by one buffered tick: pop and
\* fire what is due, with its entry in the index.
TickerFires ==
    /\ running
    /\ \E now \in {clock - 1, clock} \cap Nat :
          LET due == {n \in pending : timer[n].at <= now} IN
          /\ due # {}
          /\ pending' = pending \ due
          /\ idIndex' = [id \in Ids |-> IF \E n \in due : timer[n].id = id THEN None ELSE idIndex[id]]
          /\ called' = called \cup due
    /\ UNCHANGED <<timer, cmdCh, running, clock, dropped>>

\* case <-ctx.Done()
Done ==
    /\ running /\ running' = FALSE
    /\ UNCHANGED <<timer, cmdCh, pending, idIndex, clock, called, dropped>>

Tick ==
    /\ clock < MaxClock /\ clock' = clock + 1
    /\ UNCHANGED <<timer, cmdCh, pending, idIndex, running, called, dropped>>

Next ==
    \/ \E id \in Ids \cup {None}, at \in clock..MaxClock : AddAt(id, at)
    \/ \E id \in Ids : Cancel(id)
    \/ Command \/ TickerFires \/ Done \/ Tick

\* The loop serves its channel and its ticker in turn, and time passes.
Fairness == WF_vars(Command) /\ WF_vars(TickerFires) /\ WF_vars(Tick)

Spec == Init /\ [][Next]_vars /\ Fairness

-----------------------------------------------------------------------------
(* Properties *)

\* timerqueue.go:208, 218: the index only names timers that are in the heap and
\* carry the ID (heap.Remove of another would panic or take a stranger out), so
\* that a timer a command removed never fires and none fires twice.
IndexNamesHeap ==
    /\ \A id \in Ids : idIndex[id] # None => idIndex[id] \in pending /\ timer[idIndex[id]].id = id
    /\ called \cap (dropped \cup pending) = {}

\* timerqueue.go:151-153: an accepted timer fires unless it is cancelled or
\* replaced, or the queue stops.
Served(n) == n \in Added /\ running => n \in called \cup dropped
TimersFire == \A n \in Timers : []<>Served(n)

-----------------------------------------------------------------------------
(* The inductive invariant behind IndexNamesHeap. *)

\* Timers are numbered in turn; one that is still in the channel is there once
\* and was never in the heap; one that left the heap is not in it again.
CommandInv ==
    /\ Added = 1..Cardinality(Added)
    /\ \A i \in DOMAIN cmdCh : cmdCh[i].add # None =>
          /\ cmdCh[i].add \notin pending \cup called \cup dropped
          /\ \A j \in DOMAIN cmdCh : cmdCh[j].add = cmdCh[i].add => i = j
    /\ pending \cap (called \cup dropped) = {}

IInv == TypeOK /\ CommandInv /\ IndexNamesHeap
=============================================================================
