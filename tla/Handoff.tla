------------------------------- MODULE Handoff ------------------------------
(***************************************************************************)
(* pkg/handoff: an entity moves from a source process to a target process. *)
(* The source buffers the operations that arrive while it exports, hands   *)
(* them over with a snapshot and afterwards in increments, and releases    *)
(* the entity on the target's acknowledgement; or it aborts and replays    *)
(* them itself.  Transport and callers are external and do what the        *)
(* package comment asks of them: the transport may lose the bundle, the    *)
(* caller may abort whenever a migration takes too long.  The state is a   *)
(* reference, so that the snapshot has what was executed until Export; it  *)
(* is the sequence of the operations that were executed.                   *)
(***************************************************************************)
EXTENDS Naturals, Sequences, SequencesExt

CONSTANTS
    MaxOps,   \* bound on operations; they are numbered as they arrive
    MaxMoves  \* bound on migrations begun

VARIABLES
    source,   \* phase, state, buffer
    target,   \* phase; got: a bundle was imported; state, and base, what of it was
              \* the snapshot; replay: what its caller is to execute
    bundle,   \* under way to the target, if it is full
    tail,     \* increments under way
    kept,     \* sent: the source's caller has exported; ops: its own copy of what it
              \* has taken from the buffer
    local,    \* operations the source's caller is to execute, in any order
    arrived,  \* how many operations have arrived
    moves,
    ack,      \* the target's acknowledgement is under way
    astray    \* history: operations refused, cut off by Release or executed after
              \* the snapshot, and whether an Abort came while a bundle could arrive

vars == <<source, target, bundle, tail, kept, local, arrived, moves, ack, astray>>

Ops == 1..MaxOps
NotSent == [sent |-> FALSE, ops |-> <<>>]
Nothing == [state |-> <<>>, ops |-> <<>>, full |-> FALSE]
Known == 1..arrived
TypeOK ==
    /\ source \in [phase : {"owned", "exporting", "released"}, state : Seq(Known), buffer : Seq(Known)]
    /\ target \in [phase : {"importing", "owned"}, got : BOOLEAN, state : Seq(Known),
                   base : Nat, replay : Seq(Known)]
    /\ bundle \in [state : Seq(Known), ops : Seq(Known), full : BOOLEAN]
    /\ tail \in Seq(Known)
    /\ kept \in [sent : BOOLEAN, ops : Seq(Known)]
    /\ local \subseteq Known /\ arrived \in 0..MaxOps /\ moves \in 0..MaxMoves /\ ack \in BOOLEAN
    /\ astray \in [ops : SUBSET Known, hasty : BOOLEAN]

NewTarget == [phase |-> "importing", got |-> FALSE, state |-> <<>>, base |-> 0, replay |-> <<>>]
Init ==
    /\ source = [phase |-> "owned", state |-> <<>>, buffer |-> <<>>]
    /\ target = NewTarget
    /\ bundle = Nothing /\ tail = <<>> /\ kept = NotSent
    /\ local = {} /\ arrived = 0 /\ moves = 0 /\ ack = FALSE
    /\ astray = [ops |-> {}, hasty |-> FALSE]

-----------------------------------------------------------------------------
(* Source *)

\* Buffer: refused, buffered, or left to the caller, who executes it later.
Buffer ==
    /\ arrived < MaxOps /\ arrived' = arrived + 1
    /\ \/ /\ source.phase = "owned" /\ local' = local \cup {arrived'}
          /\ UNCHANGED <<source, astray>>
       \/ /\ source.phase = "exporting"
          /\ source' = [source EXCEPT !.buffer = Append(@, arrived')]
          /\ UNCHANGED <<local, astray>>
       \/ /\ source.phase = "released"
          /\ astray' = [astray EXCEPT !.ops = @ \cup {arrived'}]
          /\ UNCHANGED <<source, local>>
    /\ UNCHANGED <<target, bundle, tail, kept, moves, ack>>

\* The caller executes, perhaps after Begin or even Export.
Execute(o) ==
    /\ o \in local /\ local' = local \ {o}
    /\ source' = [source EXCEPT !.state = Append(@, o)]
    /\ astray' = [astray EXCEPT !.ops = IF kept.sent \/ source.phase = "released" THEN @ \cup {o} ELSE @]
    /\ UNCHANGED <<target, bundle, tail, kept, arrived, moves, ack>>

Begin ==
    /\ source.phase = "owned" /\ moves < MaxMoves
    /\ source' = [source EXCEPT !.phase = "exporting", !.buffer = <<>>]
    /\ moves' = moves + 1
    /\ UNCHANGED <<target, bundle, tail, kept, local, arrived, ack, astray>>

\* Mutant of Taken: the buffer is copied and not cleared.
TakenTwice == source' = source

\* The buffer passes to the caller.
Taken == source' = [source EXCEPT !.buffer = <<>>]

Export ==
    /\ source.phase = "exporting" /\ ~kept.sent
    /\ bundle' = [state |-> source.state, ops |-> source.buffer, full |-> TRUE]
    /\ kept' = [sent |-> TRUE, ops |-> source.buffer] /\ Taken
    /\ UNCHANGED <<target, tail, local, arrived, moves, ack, astray>>

DrainBuffer ==
    /\ source.phase = "exporting" /\ kept.sent /\ source.buffer # <<>>
    /\ tail' = tail \o source.buffer /\ kept' = [kept EXCEPT !.ops = @ \o source.buffer] /\ Taken
    /\ UNCHANGED <<target, bundle, local, arrived, moves, ack, astray>>

\* On the acknowledgement: what is in the buffer is gone.
Release ==
    /\ ack /\ source.phase = "exporting"
    /\ source' = [source EXCEPT !.phase = "released", !.buffer = <<>>]
    /\ astray' = [astray EXCEPT !.ops = @ \cup ToSet(source.buffer)]
    /\ ack' = FALSE
    /\ UNCHANGED <<target, bundle, tail, kept, local, arrived, moves>>

\* The caller replays what Abort returns after what it had taken before.
Abort ==
    /\ source.phase = "exporting"
    /\ local' = local \cup ToSet(kept.ops \o source.buffer)
    /\ source' = [source EXCEPT !.phase = "owned", !.buffer = <<>>]
    /\ kept' = NotSent /\ tail' = <<>>
    /\ astray' = [astray EXCEPT !.hasty = @ \/ bundle.full \/ target.got]
    /\ UNCHANGED <<target, bundle, arrived, moves, ack>>

-----------------------------------------------------------------------------
(* Transport and target *)

Lose ==
    /\ bundle.full /\ bundle' = Nothing
    /\ UNCHANGED <<source, target, tail, kept, local, arrived, moves, ack, astray>>

Import ==
    /\ bundle.full /\ target.phase = "importing"
    /\ target' = [target EXCEPT !.got = TRUE, !.state = bundle.state,
                  !.base = Len(bundle.state), !.replay = bundle.ops]
    /\ bundle' = Nothing
    /\ UNCHANGED <<source, tail, kept, local, arrived, moves, ack, astray>>

Receive ==
    /\ target.got /\ tail # <<>>
    /\ target' = [target EXCEPT !.replay = @ \o tail]
    /\ tail' = <<>>
    /\ UNCHANGED <<source, bundle, kept, local, arrived, moves, ack, astray>>

UpdateState ==
    /\ target.replay # <<>>
    /\ target' = [target EXCEPT !.state = Append(@, Head(target.replay)), !.replay = Tail(@)]
    /\ UNCHANGED <<source, bundle, tail, kept, local, arrived, moves, ack, astray>>

Accept ==
    /\ target.phase = "importing" /\ target.got /\ target.replay = <<>>
    /\ target' = [target EXCEPT !.phase = "owned"]
    /\ ack' = TRUE
    /\ UNCHANGED <<source, bundle, tail, kept, local, arrived, moves, astray>>

Next ==
    \/ Buffer \/ Begin \/ Export \/ DrainBuffer \/ Release \/ Abort
    \/ Lose \/ Import \/ Receive \/ UpdateState \/ Accept
    \/ \E o \in Ops : Execute(o)

Spec == Init /\ [][Next]_vars

-----------------------------------------------------------------------------
(* Properties *)

\* handoff.go:7: one process at most may write, unless the source aborted a
\* migration whose bundle could still arrive.
OneWriter == ~astray.hasty => ~(source.phase = "owned" /\ target.phase = "owned")

\* What is on the target's side, or still on the source's, and what is to follow.
Line == IF target.got THEN target.state \o target.replay \o tail ELSE source.state \o kept.ops
Entity == Line \o source.buffer

\* o does not occur in s, and it occurs in one place.
Never(s, o) == \A i \in DOMAIN s : s[i] # o
Once(s, o) == \E i \in DOMAIN s : \A j \in DOMAIN s : s[j] = o <=> j = i

\* handoff.go:8: through migrations and clean aborts every operation is executed,
\* or waits to be, exactly once.  Not those that Release cut off, or that a caller
\* executed after the snapshot although Buffer had let it.
OperationsSurvive ==
    ~astray.hasty =>
        \A o \in Known \ astray.ops :
            IF o \in local THEN Never(Entity, o) ELSE Once(Entity, o)

\* handoff.go:90-91: what was buffered is replayed in the order of its arrival.
ReplayInOrder ==
    ~astray.hasty /\ target.got =>
        LET s == SubSeq(Entity, target.base + 1, Len(Entity))
        IN  \A i \in 1..Len(s) - 1 : s[i] < s[i + 1]

-----------------------------------------------------------------------------
(* The inductive invariant behind the three, as long as no Abort was hasty.      *)

\* A bundle is on its way or has arrived once the source has exported, and the
\* source does not own the entity again before it forgets that it has.
HandInv ==
    /\ bundle.full \/ target.got => kept.sent
    /\ ~(bundle.full /\ target.got)
    /\ IF kept.sent THEN source.phase # "owned"
       ELSE source.phase # "released" /\ kept.ops = <<>> /\ tail = <<>>
    /\ source.phase # "exporting" => source.buffer = <<>>
    /\ ~target.got => target.phase = "importing" /\ target.replay = <<>>
    /\ ack => target.got

\* s is n elements and then t.
Ends(s, n, t) == Len(s) = n + Len(t) /\ \A i \in DOMAIN t : s[n + i] = t[i]

\* The caller's own copy of what it took is what the target has beyond the
\* snapshot; a snapshot under way lacks only what was executed after it.
CopyInv ==
    /\ bundle.full =>
          /\ kept.ops = bundle.ops \o tail
          /\ \A o \in Known \ astray.ops :
                /\ Never(bundle.state, o) <=> Never(source.state, o)
                /\ Once(bundle.state, o) <=> Once(source.state, o)
    /\ target.got => Ends(Line, target.base, kept.ops)

Pending == kept.ops \o source.buffer
OrderInv == \A j \in DOMAIN Pending : \A i \in 1..j - 1 : Pending[i] < Pending[j]

IInv == TypeOK /\ (~astray.hasty => HandInv /\ CopyInv /\ OrderInv /\ OperationsSurvive)
=============================================================================
