-------------------------------- MODULE Tcc --------------------------------
(***************************************************************************)
(* pkg/orchestration/tcc: Execute tries (reserves) every branch in order,  *)
(* then confirms all of them; when a Try fails it cancels the tried ones   *)
(* backwards.  Nothing is persisted: after a crash the package relies on   *)
(* idempotent operations and on a trigger that delivers again.             *)
(*                                                                         *)
(* state[b] is the resource of branch b behind its service.  The           *)
(* operations are idempotent under a stable key: Try freezes a free        *)
(* resource, Confirm and Cancel settle a frozen one, and otherwise they    *)
(* succeed without effect.  A call may fail before or after it took effect.*)
(***************************************************************************)
EXTENDS Naturals

CONSTANTS
    N,                      \* the branches are 1..N, N > 0
    HasConfirm, HasCancel,  \* the branches with a Confirm, a Cancel function
    ConfirmRetries, CancelRetries,
    MaxCrashes              \* bound: crashes of the coordinator

VARIABLES
    pc,         \* "try", "confirm", "cancel", "returned", "acked", "crashed"
    b,          \* the branch the loop is at
    failed,     \* the branch whose Try failed, 0 when none has
    tries,      \* failed attempts of the current retryOp
    status,     \* res.Status
    outcome,    \* outcome[c]: res.Branches[c], what confirm or cancel recorded
    cancelled,  \* ctx.Err() # nil
    state,
    crashes

vars == <<pc, b, failed, tries, status, outcome, cancelled, state, crashes>>

Branches == 1..N

TypeOK ==
    /\ pc \in {"try", "confirm", "cancel", "returned", "acked", "crashed"}
    /\ b \in 0..N + 1 /\ failed \in 0..N
    /\ tries \in (0..ConfirmRetries) \cup (0..CancelRetries)
    /\ status \in {"confirmed", "cancelled", "cancel_failed", "confirm_failed"}
    /\ outcome \in [Branches -> {"none", "ok", "failed"}]
    /\ cancelled \in BOOLEAN
    /\ state \in [Branches -> {"free", "frozen", "confirmed", "released"}]
    /\ crashes \in 0..MaxCrashes

\* The services: what an operation does to the resource it is called on.
Froze(s) == IF s = "free" THEN "frozen" ELSE s
Confirmed(s) == IF s = "frozen" THEN "confirmed" ELSE s
Released(s) == IF s = "frozen" THEN "released" ELSE s

Init ==
    /\ pc = "try" /\ b = 1 /\ failed = 0 /\ tries = 0
    /\ status = "confirmed"
    /\ outcome = [c \in Branches |-> "none"]
    /\ cancelled = FALSE
    /\ state = [c \in Branches |-> "free"]
    /\ crashes = 0

TryOk ==
    /\ pc = "try" /\ b <= N /\ ~cancelled
    /\ state' = [state EXCEPT ![b] = Froze(@)]
    /\ b' = b + 1
    /\ UNCHANGED <<pc, failed, tries, status, outcome, cancelled, crashes>>

\* cancelAll over the tried branches, 1..b - 1.
CancelAll ==
    /\ pc' = "cancel"
    /\ failed' = b
    /\ b' = b - 1
    /\ status' = "cancelled"
    /\ UNCHANGED <<tries, outcome, cancelled, crashes>>

ContextDone ==
    /\ pc = "try" /\ b <= N /\ cancelled
    /\ CancelAll
    /\ UNCHANGED state

TryFails(effect) ==
    /\ pc = "try" /\ b <= N /\ ~cancelled
    /\ state' = [state EXCEPT ![b] = IF effect THEN Froze(@) ELSE @]
    /\ CancelAll

\* Mutant: the last branch is not tried.
ConfirmAllEarly ==
    /\ pc = "try" /\ b >= N
    /\ pc' = "confirm" /\ b' = 1
    /\ UNCHANGED <<failed, tries, status, outcome, cancelled, state, crashes>>

ConfirmAll ==
    /\ pc = "try" /\ b = N + 1
    /\ pc' = "confirm" /\ b' = 1
    /\ UNCHANGED <<failed, tries, status, outcome, cancelled, state, crashes>>

\* Mutant: the loop ends at the first failure.
AttemptStops(r, ok, retries, next) ==
    /\ state' = [state EXCEPT ![b] = r]
    /\ IF ~ok /\ tries < retries
       THEN tries' = tries + 1 /\ UNCHANGED <<b, outcome>>
       ELSE /\ tries' = 0
            /\ outcome' = [outcome EXCEPT ![b] = IF ok THEN "ok" ELSE "failed"]
            /\ b' = IF ok THEN next ELSE IF pc = "confirm" THEN N + 1 ELSE 0
    /\ UNCHANGED <<pc, failed, cancelled, crashes>>

\* One attempt of retryOp on branch b: r is what the service makes of its
\* resource, ok whether the call succeeded, next where the loop goes from here.
Attempt(r, ok, retries, next) ==
    /\ state' = [state EXCEPT ![b] = r]
    /\ IF ~ok /\ tries < retries
       THEN tries' = tries + 1 /\ UNCHANGED <<b, outcome>>
       ELSE /\ tries' = 0
            /\ outcome' = [outcome EXCEPT ![b] = IF ok THEN "ok" ELSE "failed"]
            /\ b' = next
    /\ UNCHANGED <<pc, failed, cancelled, crashes>>

\* A branch without a Confirm (or a Cancel) function counts as done.
Confirm(effect, ok) ==
    /\ pc = "confirm" /\ b <= N
    /\ ok => effect
    /\ b \notin HasConfirm => ok
    /\ Attempt(IF effect /\ b \in HasConfirm THEN Confirmed(state[b]) ELSE state[b],
               ok, ConfirmRetries, b + 1)
    /\ UNCHANGED status

Cancel(effect, ok) ==
    /\ pc = "cancel" /\ b > 0
    /\ ok => effect
    /\ b \notin HasCancel => ok
    /\ Attempt(IF effect /\ b \in HasCancel THEN Released(state[b]) ELSE state[b],
               ok, CancelRetries, b - 1)
    /\ status' = IF ~ok /\ tries = CancelRetries THEN "cancel_failed" ELSE status

Return ==
    /\ \/ pc = "confirm" /\ b = N + 1
       \/ pc = "cancel" /\ b = 0
    /\ pc' = "returned"
    /\ status' = IF pc = "confirm" /\ \E c \in Branches : outcome[c] = "failed"
                 THEN "confirm_failed"
                 ELSE status
    /\ UNCHANGED <<b, failed, tries, outcome, cancelled, state, crashes>>

Run ==
    \/ TryOk
    \/ ContextDone
    \/ \E effect \in BOOLEAN : TryFails(effect)
    \/ ConfirmAll
    \/ \E effect, ok \in BOOLEAN : Confirm(effect, ok) \/ Cancel(effect, ok)
    \/ Return

\* The caller's context is cancelled, or times out.
CtxDone ==
    /\ pc \in {"try", "confirm", "cancel"} /\ ~cancelled
    /\ cancelled' = TRUE
    /\ UNCHANGED <<pc, b, failed, tries, status, outcome, state, crashes>>

\* The trigger: acknowledged after Execute, delivered again after a crash.
Ack ==
    /\ pc = "returned"
    /\ pc' = "acked"
    /\ UNCHANGED <<b, failed, tries, status, outcome, cancelled, state, crashes>>

Crash ==
    /\ pc \notin {"acked", "crashed"} /\ crashes < MaxCrashes
    /\ crashes' = crashes + 1
    /\ pc' = "crashed"
    /\ UNCHANGED <<b, failed, tries, status, outcome, cancelled, state>>

Redeliver ==
    /\ pc = "crashed"
    /\ pc' = "try" /\ b' = 1 /\ failed' = 0 /\ tries' = 0
    /\ status' = "confirmed"
    /\ outcome' = [c \in Branches |-> "none"]
    /\ cancelled' = FALSE
    /\ UNCHANGED <<state, crashes>>

Next == Run \/ CtxDone \/ Ack \/ Crash \/ Redeliver

\* Operations return, and the trigger delivers.
Fairness == WF_vars(Run) /\ WF_vars(Ack) /\ WF_vars(Redeliver)

Spec == Init /\ [][Next]_vars

FairSpec == Spec /\ Fairness

-----------------------------------------------------------------------------
(* Properties *)

\* tcc.go:57-64: what Execute returns is what happened to the resources, when
\* one execution handles the trigger.  The branch whose Try failed is left to
\* its service: it may stay frozen, although Execute reports cancelled.
StatusIsHonest ==
    pc = "returned" /\ crashes = 0 =>
        /\ status = "confirmed" => \A c \in HasConfirm : state[c] = "confirmed"
        /\ status = "cancelled" => \A c \in HasCancel : c < failed => state[c] = "released"
        /\ status \in {"cancelled", "cancel_failed"} => \A c \in Branches : state[c] # "confirmed"
        /\ status \in {"confirmed", "confirm_failed"} => \A c \in Branches : state[c] # "released"
        /\ status \in {"cancel_failed", "confirm_failed"} =>
              \E c \in Branches : outcome[c] = "failed"

\* tcc.go:16-18: nothing is confirmed before every branch is reserved, when
\* one execution handles the trigger.
ConfirmNeedsAll ==
    [][\A c \in Branches :
          crashes = 0 /\ state'[c] = "confirmed" /\ state[c] # "confirmed" =>
              \A d \in Branches : state[d] \in {"frozen", "confirmed"}]_vars

\* tcc.go:222, 246-248: neither a cancelled context nor crashes keep a trigger
\* from being settled, with no tried branch passed over.
Settled ==
    /\ pc = "acked"
    /\ \A c \in Branches : (failed = 0 \/ c < failed) => outcome[c] # "none"
Settles == <>Settled

-----------------------------------------------------------------------------
(* The inductive invariant.  What it says of the resources is about a first *)
(* execution: after a crash they are what earlier ones left.                *)

Returned == pc \in {"returned", "acked"}
Confirming == pc = "confirm" \/ (Returned /\ failed = 0)
Cancelling == pc = "cancel" \/ (Returned /\ failed # 0)

TryInv ==
    pc = "try" =>
        /\ status = "confirmed" /\ failed = 0 /\ tries = 0 /\ b >= 1
        /\ \A c \in Branches :
              /\ outcome[c] = "none"
              /\ crashes = 0 => state[c] = IF c < b THEN "frozen" ELSE "free"

\* Every branch is reserved before the first is confirmed, and those behind the
\* loop have an outcome.
ConfirmInv ==
    Confirming =>
        /\ failed = 0 /\ b >= 1 /\ tries <= ConfirmRetries
        /\ status = IF Returned /\ \E c \in Branches : outcome[c] = "failed"
                    THEN "confirm_failed" ELSE "confirmed"
        /\ Returned => b = N + 1
        /\ \A c \in Branches :
              /\ outcome[c] # "none" <=> c < b
              /\ crashes = 0 =>
                    /\ state[c] \in {"frozen", "confirmed"}
                    /\ outcome[c] = "ok" /\ c \in HasConfirm => state[c] = "confirmed"

\* The branches between the loop and the failed one have an outcome, and the
\* status tells whether a Cancel was given up.
CancelInv ==
    Cancelling =>
        /\ b < failed /\ tries <= CancelRetries
        /\ status = IF \E c \in Branches : outcome[c] = "failed"
                    THEN "cancel_failed" ELSE "cancelled"
        /\ Returned => b = 0
        /\ \A c \in Branches :
              /\ outcome[c] # "none" => b < c
              /\ b < c /\ c < failed => outcome[c] # "none"
              /\ crashes = 0 =>
                    /\ state[c] # "confirmed"
                    /\ c < failed => state[c] # "free"
                    /\ outcome[c] = "ok" /\ c \in HasCancel => state[c] = "released"

\* Only a crash loses an execution.
CrashInv == pc = "crashed" => crashes > 0

IInv == TypeOK /\ CrashInv /\ TryInv /\ ConfirmInv /\ CancelInv
=============================================================================
