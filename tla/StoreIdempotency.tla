-------------------------- MODULE StoreIdempotency --------------------------
(***************************************************************************)
(* pkg/store/idempotency over a shared kvstore: processes call Do, or      *)
(* Acquire and then Commit or Release, on one key (keys are independent).  *)
(* The record is a placeholder or a result, it runs out, and it does not   *)
(* say whose it is; Do runs fn before it writes anything.  A store call    *)
(* may fail, with or without its effect; a process may die.                *)
(* The result of a caller's fn is the caller itself.                       *)
(***************************************************************************)
EXTENDS Naturals, FiniteSets

CONSTANTS
    Callers, None,
    MaxErrors,   \* bound on failed store calls
    MaxExpiries  \* bound on records that run out or are forgotten

VARIABLES
    record,    \* what the store has under the key
    request,   \* request[c]: where the call of c is, and its answer
    storeLeft, \* the errors and expiries left
    spoiled    \* history: what an expiry, an error or a meeting has undone

vars == <<record, request, storeLeft, spoiled>>

TypeOK ==
    /\ record \in Callers \cup {None, "processing"}
    /\ request \in [Callers ->
          [at : {"idle", "fn", "bare", "write", "reread", "look", "owner", "done", "dead"},
           answer : Callers \cup {None}]]
    /\ storeLeft \in [errors : 0..MaxErrors, expiries : 0..MaxExpiries]
    /\ spoiled \subseteq {"owner", "result"}

Init ==
    /\ record = None
    /\ request = [c \in Callers |-> [at |-> "idle", answer |-> None]]
    /\ storeLeft = [errors |-> MaxErrors, expiries |-> MaxExpiries]
    /\ spoiled = {}

Owners == {c \in Callers : request[c].at = "owner"}

Goto(c, place) == request' = [request EXCEPT ![c].at = place]
Answer(c, a) == request' = [request EXCEPT ![c] = [at |-> "done", answer |-> a]]
Again(c) == request' = [request EXCEPT ![c] = [at |-> "idle", answer |-> None]]
Works == UNCHANGED <<storeLeft, spoiled>>
Spoils(what) == spoiled' = spoiled \cup what
Fails ==
    /\ storeLeft.errors > 0
    /\ storeLeft' = [storeLeft EXCEPT !.errors = @ - 1]
    /\ Spoils({"result"})
\* A call of the store with effect e on the record, by a caller that goes on
\* with ok, or with err when it fails.
Call(e, ok, err) == (e /\ ok /\ Works) \/ ((e \/ UNCHANGED record) /\ err /\ Fails)

\* SetNX of v: at most one of the concurrent ones finds no record.
SetNX(v) == record = None /\ record' = v

\* doStore: Get; a failed Get and a placeholder, which is no result, make Do run
\* fn without keeping its result.
DoGet(c) ==
    /\ request[c].at = "idle"
    /\ \/ record = None /\ Goto(c, "fn") /\ Works
       \/ record \in Callers /\ Answer(c, record) /\ Works
       \/ record = "processing" /\ Goto(c, "bare") /\ Spoils({"result"}) /\ UNCHANGED storeLeft
       \/ Fails /\ Goto(c, "bare")
    /\ UNCHANGED record
\* fn: an error is returned and leaves no trace, and the caller may retry.
DoFn(c) ==
    /\ request[c].at \in {"fn", "bare"}
    /\ \/ Again(c)
       \/ request[c].at = "fn" /\ Goto(c, "write")
       \/ request[c].at = "bare" /\ Answer(c, c)
    /\ Works /\ UNCHANGED record

\* Mutant of DoWrite: the result is written whether or not there is one.
DoOverwrite(c) ==
    /\ request[c].at = "write"
    /\ Call(record' = c, Answer(c, c), Answer(c, c))
\* SetNX of the result: the first one written wins, the others read it.
DoWrite(c) ==
    /\ request[c].at = "write"
    /\ \/ Call(SetNX(c), Answer(c, c), Answer(c, c))
       \/ /\ record # None /\ Goto(c, "reread")
          /\ Spoils(IF record = "processing" THEN {"result"} ELSE {})
          /\ UNCHANGED <<record, storeLeft>>
DoReread(c) ==
    /\ request[c].at = "reread"
    /\ \/ record \in Callers /\ Answer(c, record) /\ Works
       \/ record \notin Callers /\ Answer(c, c) /\ Works
       \/ Fails /\ Answer(c, c)
    /\ UNCHANGED record

\* acquireStore: SetNX of the placeholder; otherwise Get tells a conflict, after
\* which the caller may retry, from a result.
Acquire(c) ==
    /\ request[c].at = "idle"
    /\ \/ Call(SetNX("processing"), Goto(c, "owner"), Answer(c, None))
       \/ record # None /\ Goto(c, "look") /\ Works /\ UNCHANGED record
AcquireGet(c) ==
    /\ request[c].at = "look"
    /\ \/ record \in Callers /\ Answer(c, record) /\ Works
       \/ record \notin Callers /\ Again(c) /\ Works
       \/ Fails /\ Answer(c, None)
    /\ UNCHANGED record

\* commitStore and releaseStore write and delete without a look at the record.
Commit(c) ==
    /\ request[c].at = "owner"
    /\ Call(record' = c, Answer(c, c), Answer(c, c))
Release(c) ==
    /\ request[c].at = "owner"
    /\ Call(record' = None, Again(c), Again(c))

\* The record runs out (ttl is that of results, also for the placeholder), gc
\* removes it or Forget deletes it: under an owner, unnoticed by it.
Abandoned == record = "processing" /\ Owners = {}
Vanish ==
    /\ record # None
    /\ record' = None
    /\ IF Abandoned THEN Works
       ELSE /\ storeLeft.expiries > 0
            /\ storeLeft' = [storeLeft EXCEPT !.expiries = @ - 1]
            /\ Spoils(IF Owners = {} THEN {"result"} ELSE {"result", "owner"})
    /\ UNCHANGED request

Crash(c) ==
    /\ request[c].at = "owner"
    /\ Goto(c, "dead")
    /\ UNCHANGED <<record, storeLeft, spoiled>>

DoStore(c) == DoGet(c) \/ DoFn(c) \/ DoWrite(c) \/ DoReread(c)
Own(c) == Acquire(c) \/ AcquireGet(c) \/ Commit(c) \/ Release(c) \/ Crash(c)

Next == Vanish \/ \E c \in Callers : DoStore(c) \/ Own(c)

Spec == Init /\ [][Next]_vars

-----------------------------------------------------------------------------
(* Properties *)

\* idempotency.go:348-351, 460: only one process at a time owns the key, unless
\* its placeholder ran out or was deleted under an owner.
OneOwner == Cardinality(Owners) <= 1 \/ "owner" \in spoiled

\* idempotency.go:164-169: all callers get the same result, although several may
\* run fn, unless the record vanished, a store call failed or a Do met a
\* placeholder.
SameResult ==
    \A c, d \in Callers :
        request[c].answer # None /\ request[d].answer # None
            => request[c].answer = request[d].answer \/ "result" \in spoiled

-----------------------------------------------------------------------------
(* The inductive invariant. *)

\* As long as nothing was deleted under an owner, there is one owner at most and
\* the record is its placeholder.
OwnerInv ==
    /\ "owner" \in spoiled => "result" \in spoiled
    /\ "owner" \notin spoiled =>
          \A c \in Owners : record = "processing" /\ \A d \in Owners : c = d

\* As long as no result was spoiled, the record is what everybody was answered,
\* and whoever found a result in its way will read one.
ResultInv ==
    "result" \notin spoiled =>
        \A c \in Callers :
            /\ request[c].answer # None => record = request[c].answer
            /\ request[c].at # "bare"
            /\ request[c].at = "reread" => record \in Callers

IInv == TypeOK /\ OwnerInv /\ ResultInv
=============================================================================
