----------------------------- MODULE Idempotency -----------------------------
(***************************************************************************)
(* The in-memory mode of pkg/store/idempotency for one key: concurrent     *)
(* callers of Do (deduplication and single flight) and of the guard API    *)
(* Acquire / Commit / Release, with Forget, expiry, the gc goroutine and   *)
(* Stop.  Keys do not interact, so one key is the whole state.             *)
(*                                                                         *)
(* Every caller makes one call.  An entry is named after the caller that   *)
(* created it, and a result after the caller whose work produced it.       *)
(* Steps under s.mu are atomic.  Time is abstracted: a completed entry     *)
(* may expire at any moment.                                               *)
(***************************************************************************)
EXTENDS Naturals, FiniteSets

CONSTANTS
    Callers,      \* the calls for the key
    Guards,       \* those that use Acquire / Commit / Release; the rest use Do
    MayPanic,     \* whether fn may panic
    MaxForgets,   \* bound: how often Forget is called
    None          \* no entry, and the zero value of a result

ASSUME ConstantsAssumption ==
    /\ Guards \subseteq Callers
    /\ MayPanic \in BOOLEAN
    /\ MaxForgets \in Nat
    /\ None \notin Callers

VARIABLES
    cacheErrors,  \* config.cacheErrors, chosen when the store is made
    item,       \* s.items[key]: an entry or None
    closed,     \* the entries whose done channel is closed
    expired,    \* the completed entries whose expiry has passed
    val,        \* val[e]: entry.result
    failed,     \* the entries whose entry.err is not nil
    pc,         \* pc[c]: where caller c is
    on,         \* on[c]: the entry caller c waits for or is about to close
    got,        \* got[c]: the result a caller returned
    forgotten,  \* the entries that Forget removed
    forgets,    \* number of calls of Forget so far
    stopped,    \* {} or {"stop"}: stopCh is closed
    crash       \* {} or {"close"}: a channel was closed twice

vars == <<cacheErrors, item, closed, expired, val, failed, pc, on, got, forgotten,
          forgets, stopped, crash>>

storeVars == <<item, closed, expired, val, failed>>
envVars   == <<cacheErrors, forgotten, forgets, stopped>>

PC == {"idle", "wait", "run", "fail", "panic", "commit", "release",
       "own", "ownErr", "panicked", "shared", "sharedErr", "conflict",
       "aborted", "released"}

TypeOK ==
    /\ cacheErrors \in BOOLEAN
    /\ item \in Callers \cup {None}
    /\ closed \subseteq Callers
    /\ expired \subseteq closed
    /\ val \in [Callers -> Callers \cup {None}]
    /\ failed \subseteq Callers
    /\ pc \in [Callers -> PC]
    /\ on \in [Callers -> Callers \cup {None}]
    /\ got \in [Callers -> Callers \cup {None}]
    /\ forgotten \subseteq Callers
    /\ forgets \in 0..MaxForgets
    /\ stopped \subseteq {"stop"}
    /\ crash \subseteq {"close"}

Init ==
    /\ cacheErrors \in BOOLEAN
    /\ item = None
    /\ closed = {}
    /\ expired = {}
    /\ val = [e \in Callers |-> None]
    /\ failed = {}
    /\ pc = [c \in Callers |-> "idle"]
    /\ on = [c \in Callers |-> None]
    /\ got = [c \in Callers |-> None]
    /\ forgotten = {}
    /\ forgets = 0
    /\ stopped = {}
    /\ crash = {}

Goto(c, s) == pc' = [pc EXCEPT ![c] = s]

\* The record is completed and still valid; or it is absent or outdated.
Fresh  == item \in closed \ expired
Absent == item = None \/ item \in expired

\* Remove the record if it is still the caller's own.
DropOwn(c) == item' = IF item = c THEN None ELSE item

\* close(e.done): closing a closed channel panics.
Close(e) ==
    /\ closed' = closed \cup {e}
    /\ crash' = IF e \in closed THEN {"close"} ELSE crash

-----------------------------------------------------------------------------
(* Do *)

\* The locked part: reuse a valid result, ...
DoReuse(c) ==
    /\ pc[c] = "idle"
    /\ c \notin Guards
    /\ Fresh
    /\ got' = [got EXCEPT ![c] = val[item]]
    /\ Goto(c, IF item \in failed THEN "sharedErr" ELSE "shared")
    /\ UNCHANGED <<storeVars, on, envVars, crash>>

\* ... join an execution in progress, ...
DoJoin(c) ==
    /\ pc[c] = "idle"
    /\ c \notin Guards
    /\ item \in Callers \ closed
    /\ on' = [on EXCEPT ![c] = item]
    /\ Goto(c, "wait")
    /\ UNCHANGED <<storeVars, got, envVars, crash>>

\* ... or put a fresh entry in place (of an expired one) and run fn.
DoFirst(c) ==
    /\ pc[c] = "idle"
    /\ c \notin Guards
    /\ Absent
    /\ item' = c
    /\ Goto(c, "run")
    /\ UNCHANGED <<closed, expired, val, failed, on, got, envVars, crash>>

\* Mutant of Wake: the error of the execution is not handed on.
WakeNoErr(c) ==
    /\ pc[c] = "wait"
    /\ on[c] \in closed
    /\ got' = [got EXCEPT ![c] = val[on[c]]]
    /\ Goto(c, "shared")
    /\ UNCHANGED <<storeVars, on, envVars, crash>>

\* A waiter sees done closed and returns what the entry holds.
Wake(c) ==
    /\ pc[c] = "wait"
    /\ on[c] \in closed
    /\ got' = [got EXCEPT ![c] = val[on[c]]]
    /\ Goto(c, IF on[c] \in failed THEN "sharedErr" ELSE "shared")
    /\ UNCHANGED <<storeVars, on, envVars, crash>>

WakeStopped(c) ==
    /\ pc[c] = "wait"
    /\ stopped # {}
    /\ Goto(c, "aborted")
    /\ UNCHANGED <<storeVars, on, got, envVars, crash>>

\* Mutant of Publish: the record is put back into the map.
PublishReinserts(c, err) ==
    /\ pc[c] = "run"
    /\ c \notin Guards
    /\ err => cacheErrors
    /\ val' = [val EXCEPT ![c] = c]
    /\ failed' = IF err THEN failed \cup {c} ELSE failed
    /\ Close(c)
    /\ got' = [got EXCEPT ![c] = c]
    /\ Goto(c, IF err THEN "ownErr" ELSE "own")
    /\ item' = c
    /\ UNCHANGED <<expired, on, envVars>>

\* Mutant of Publish: panicked is not reset, so the deferred function closes
\* the channel again.
PublishThenPanics(c, err) ==
    /\ pc[c] = "run"
    /\ c \notin Guards
    /\ err => cacheErrors
    /\ val' = [val EXCEPT ![c] = c]
    /\ failed' = IF err THEN failed \cup {c} ELSE failed
    /\ Close(c)
    /\ DropOwn(c)
    /\ Goto(c, "panic")
    /\ UNCHANGED <<expired, on, got, envVars>>

\* fn succeeded, or failed with cached errors: publish and close.
Publish(c, err) ==
    /\ pc[c] = "run"
    /\ c \notin Guards
    /\ err => cacheErrors
    /\ val' = [val EXCEPT ![c] = c]
    /\ failed' = IF err THEN failed \cup {c} ELSE failed
    /\ Close(c)
    /\ got' = [got EXCEPT ![c] = c]
    /\ Goto(c, IF err THEN "ownErr" ELSE "own")
    /\ UNCHANGED <<item, expired, on, envVars>>

\* fn failed: remove the own record first, ...
FnFails(c) ==
    /\ pc[c] = "run"
    /\ c \notin Guards
    /\ ~cacheErrors
    /\ DropOwn(c)
    /\ Goto(c, "fail")
    /\ UNCHANGED <<closed, expired, val, failed, on, got, envVars, crash>>

\* ... then hand the error to the waiters.
FailClose(c) ==
    /\ pc[c] = "fail"
    /\ val' = [val EXCEPT ![c] = c]
    /\ failed' = failed \cup {c}
    /\ Close(c)
    /\ Goto(c, "ownErr")
    /\ UNCHANGED <<item, expired, on, got, envVars>>

\* fn panicked: the deferred function removes the own record, then closes it
\* with the zero result and a nil error.
FnPanics(c) ==
    /\ pc[c] = "run"
    /\ c \notin Guards
    /\ MayPanic
    /\ DropOwn(c)
    /\ Goto(c, "panic")
    /\ UNCHANGED <<closed, expired, val, failed, on, got, envVars, crash>>

\* Mutant of PanicClose: the waiters are not woken.
PanicNoClose(c) ==
    /\ pc[c] = "panic"
    /\ Goto(c, "panicked")
    /\ UNCHANGED <<storeVars, on, got, envVars, crash>>

PanicClose(c) ==
    /\ pc[c] = "panic"
    /\ Close(c)
    /\ Goto(c, "panicked")
    /\ UNCHANGED <<item, expired, val, failed, on, got, envVars>>

-----------------------------------------------------------------------------
(* Acquire, Commit and Release *)

AcquireHit(c) ==
    /\ pc[c] = "idle"
    /\ c \in Guards
    /\ Fresh
    /\ got' = [got EXCEPT ![c] = val[item]]
    /\ Goto(c, "shared")
    /\ UNCHANGED <<storeVars, on, envVars, crash>>

AcquireConflict(c) ==
    /\ pc[c] = "idle"
    /\ c \in Guards
    /\ item \in Callers \ closed
    /\ Goto(c, "conflict")
    /\ UNCHANGED <<storeVars, on, got, envVars, crash>>

\* Mutant of Acquire: the placeholder of another caller is overwritten.
AcquireOverwrites(c) ==
    /\ pc[c] = "idle"
    /\ c \in Guards
    /\ ~Fresh
    /\ item' = c
    /\ Goto(c, "run")
    /\ UNCHANGED <<closed, expired, val, failed, on, got, envVars, crash>>

Acquire(c) ==
    /\ pc[c] = "idle"
    /\ c \in Guards
    /\ Absent
    /\ item' = c
    /\ Goto(c, "run")
    /\ UNCHANGED <<closed, expired, val, failed, on, got, envVars, crash>>

\* Commit looks the entry up by key under the lock, ...
Commit(c) ==
    /\ pc[c] = "run"
    /\ c \in Guards
    /\ on' = [on EXCEPT ![c] = item]
    /\ Goto(c, IF item = None THEN "own" ELSE "commit")
    /\ UNCHANGED <<storeVars, got, envVars, crash>>

\* ... and writes and closes it after the unlock.
CommitClose(c) ==
    /\ pc[c] = "commit"
    /\ val' = [val EXCEPT ![on[c]] = c]
    /\ Close(on[c])
    /\ Goto(c, "own")
    /\ UNCHANGED <<item, expired, failed, on, got, envVars>>

\* Release removes whatever entry the key has, ...
Release(c) ==
    /\ pc[c] = "run"
    /\ c \in Guards
    /\ on' = [on EXCEPT ![c] = item]
    /\ item' = None
    /\ Goto(c, IF item = None THEN "released" ELSE "release")
    /\ UNCHANGED <<closed, expired, val, failed, got, envVars, crash>>

\* ... and closes it unless it is closed.
ReleaseClose(c) ==
    /\ pc[c] = "release"
    /\ closed' = closed \cup {on[c]}
    /\ Goto(c, "released")
    /\ UNCHANGED <<item, expired, val, failed, on, got, envVars, crash>>

-----------------------------------------------------------------------------
(* Forget, expiry, gc, Stop *)

Forget ==
    /\ forgets < MaxForgets
    /\ forgets' = forgets + 1
    /\ forgotten' = forgotten \cup ({item} \ {None})
    /\ item' = None
    /\ UNCHANGED <<closed, expired, val, failed, pc, on, got, cacheErrors, stopped, crash>>

\* The TTL of the completed record runs out.
Expire ==
    /\ item \in closed \ expired
    /\ expired' = expired \cup {item}
    /\ UNCHANGED <<item, closed, val, failed, pc, on, got, envVars, crash>>

GC ==
    /\ item \in expired
    /\ stopped = {}
    /\ item' = None
    /\ UNCHANGED <<closed, expired, val, failed, pc, on, got, envVars, crash>>

Stop ==
    /\ stopped = {}
    /\ stopped' = {"stop"}
    /\ UNCHANGED <<storeVars, pc, on, got, cacheErrors, forgotten, forgets, crash>>

-----------------------------------------------------------------------------

\* What a caller does once it has begun.
CallerStep(c) ==
    \/ Wake(c) \/ WakeStopped(c)
    \/ \E err \in BOOLEAN : Publish(c, err)
    \/ FnFails(c) \/ FailClose(c) \/ FnPanics(c) \/ PanicClose(c)
    \/ Commit(c) \/ CommitClose(c) \/ Release(c) \/ ReleaseClose(c)

Begin(c) ==
    \/ DoReuse(c) \/ DoJoin(c) \/ DoFirst(c)
    \/ AcquireHit(c) \/ AcquireConflict(c) \/ Acquire(c)

Next ==
    \/ \E c \in Callers : Begin(c) \/ CallerStep(c)
    \/ Expire \/ Forget \/ GC \/ Stop

\* fn returns or panics, and a guard commits or releases: calls go on.
Fairness == \A c \in Callers : WF_vars(CallerStep(c))

Spec == Init /\ [][Next]_vars

FairSpec == Spec /\ Fairness

-----------------------------------------------------------------------------
(* Properties *)

Running == {c \in Callers : pc[c] = "run"}

\* A Forget hit the record of a guard, whose Commit or Release will then act
\* on whatever record the key has.
GuardForgotten == forgotten \cap Guards # {}

\* idempotency.go:12-14 and 19: while a record has not been forgotten, its
\* caller is the only one executing for the key, and nobody executes while a
\* valid result is on record.
ExclusiveUnlessForgotten ==
    ~GuardForgotten =>
        /\ \A a, b \in Running \ forgotten : a = b
        /\ Fresh => Running \subseteq forgotten

\* The result caller c returned is that of an execution that succeeded.
GotReal(c) == got[c] # None /\ pc[got[c]] \notin {"run", "fail", "ownErr", "panicked"}

\* idempotency.go:187-190: a call that reports a shared success returns the
\* result of an execution that succeeded.
SharedIsReal == \A c \in Callers : pc[c] = "shared" => GotReal(c)

\* idempotency.go:187-190 as the code has it: a shared success of Do is the
\* result of an execution that succeeded, or the zero value when the execution
\* it had joined panicked or was released by its guard.
SharedIsRealOrZero ==
    \A c \in Callers \ Guards :
        pc[c] = "shared" /\ ~GuardForgotten =>
            \/ GotReal(c)
            \/ got[c] = None /\ on[c] # None /\ pc[on[c]] \in {"panicked", "released"}

\* idempotency.go:296: the result of an execution whose record was forgotten
\* meanwhile is not what later calls find on record.
ForgottenResultNotReused ==
    ~GuardForgotten /\ item \in closed => val[item] \notin forgotten

\* idempotency.go:48: a done channel is closed by one party only.
NeverClosedTwice == ~GuardForgotten => crash = {}

\* idempotency.go:187: a call that joined an execution returns, even if the
\* execution panics, is released, or is forgotten while it runs.
WaitersWake ==
    \A c \in Callers : pc[c] = "wait" ~> (pc[c] # "wait" \/ GuardForgotten)

-----------------------------------------------------------------------------
(* The inductive invariant *)

\* While no record of a guard was forgotten: the record of the key is that of the
\* one caller that is executing or of one that has a result; a caller closes its
\* own channel, last of all; and what an entry holds is its caller's result.
RecordInv ==
    ~GuardForgotten =>
        /\ crash = {}
        /\ \A c \in Callers :
              /\ c \in closed <=> pc[c] \in {"own", "ownErr", "panicked", "released"}
              /\ item = c => pc[c] \in {"run", "commit", "own", "ownErr"}
              /\ pc[c] \in {"run", "commit"} /\ c \notin forgotten => item = c
              /\ c \in forgotten => item # c /\ pc[c] # "idle"
              /\ pc[c] \in {"commit", "release"} => c \in Guards /\ on[c] = c
              /\ pc[c] \in {"fail", "panic"} => c \notin Guards
              /\ val[c] = IF pc[c] \in {"own", "ownErr"} THEN c ELSE None
              /\ pc[c] = "ownErr" => c \in failed

\* What a Do returned as shared: a result, or the zero value of an entry that was
\* closed without one.
SharedInv ==
    ~GuardForgotten =>
        \A c \in Callers \ Guards :
            pc[c] = "shared" =>
                \/ got[c] \in Callers /\ pc[got[c]] = "own"
                \/ got[c] = None /\ on[c] \in Callers /\ pc[on[c]] \in {"panicked", "released"}

\* A caller that waits, commits or releases has an entry in its hands.
HasEntry == \A c \in Callers : pc[c] \in {"wait", "commit", "release"} => on[c] \in Callers

IInv == TypeOK /\ HasEntry /\ RecordInv /\ SharedInv
=============================================================================
