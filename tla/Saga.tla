-------------------------------- MODULE Saga --------------------------------
(***************************************************************************)
(* pkg/orchestration/saga: Execute runs the steps in order; when one fails *)
(* it compensates the completed ones backwards.  Nothing is persisted: the *)
(* package relies on a trigger that delivers again after a crash, and on   *)
(* actions and compensations that are idempotent under stable keys.        *)
(*                                                                         *)
(* The services behind the steps are the sets applied and undone: an       *)
(* idempotent operation adds its step once, and a call may fail before or  *)
(* after it took effect.                                                   *)
(***************************************************************************)
EXTENDS Naturals

CONSTANTS
    N,             \* the steps are 1..N, N > 0
    Compensable,   \* the steps with a Compensate function
    CompRetries,   \* compRetries
    MaxCrashes     \* bound: crashes of the coordinator

VARIABLES
    pc,         \* "forward", "compensate", "returned", "acked", "crashed"
    step,       \* the loop variable of Execute, and of compensate
    failed,     \* the step that failed, 0 when none has
    tries,      \* attempts at the current compensation
    status,     \* res.Status
    comp,       \* comp[s]: the compensation recorded in res.Steps
    cancelled,  \* ctx.Err() # nil
    applied, undone,  \* the services: steps whose action, compensation took effect
    crashes

vars == <<pc, step, failed, tries, status, comp, cancelled, applied, undone, crashes>>

Steps == 1..N

TypeOK ==
    /\ pc \in {"forward", "compensate", "returned", "acked", "crashed"}
    /\ step \in 0..N + 1 /\ failed \in 0..N /\ tries \in 0..CompRetries
    /\ status \in {"committed", "compensated", "compensation_failed"}
    /\ comp \in [Steps -> {"none", "ok", "failed"}]
    /\ cancelled \in BOOLEAN
    /\ applied \subseteq Steps /\ undone \subseteq Steps
    /\ crashes \in 0..MaxCrashes

Init ==
    /\ pc = "forward" /\ step = 1 /\ failed = 0 /\ tries = 0
    /\ status = "committed"
    /\ comp = [s \in Steps |-> "none"]
    /\ cancelled = FALSE
    /\ applied = {} /\ undone = {}
    /\ crashes = 0

\* A step succeeds and joins completed, which is always 1..step - 1.
ActionOk ==
    /\ pc = "forward" /\ step <= N /\ ~cancelled
    /\ applied' = applied \cup {step}
    /\ step' = step + 1
    /\ UNCHANGED <<pc, failed, tries, status, comp, cancelled, undone, crashes>>

\* Mutants: compensate starts at the first completed step, or at the failed one.
FailFromFirst ==
    /\ failed' = step
    /\ step' = IF step > 1 THEN 1 ELSE 0
    /\ pc' = "compensate"
    /\ status' = "compensated"
    /\ UNCHANGED <<tries, comp, cancelled, undone, crashes>>

FailInclusive ==
    /\ failed' = step
    /\ step' = step
    /\ pc' = "compensate"
    /\ status' = "compensated"
    /\ UNCHANGED <<tries, comp, cancelled, undone, crashes>>

\* Enter compensate with the completed steps.
Fail ==
    /\ failed' = step
    /\ step' = step - 1
    /\ pc' = "compensate"
    /\ status' = "compensated"
    /\ UNCHANGED <<tries, comp, cancelled, undone, crashes>>

\* The context is done before the step, or its action returns an error or
\* panics, with or without having taken effect.
ContextDone ==
    /\ pc = "forward" /\ step <= N /\ cancelled
    /\ Fail
    /\ UNCHANGED applied

ActionFails(effect) ==
    /\ pc = "forward" /\ step <= N /\ ~cancelled
    /\ applied' = applied \cup effect
    /\ Fail

Commit ==
    /\ pc = "forward" /\ step = N + 1
    /\ pc' = "returned"
    /\ UNCHANGED <<step, failed, tries, status, comp, cancelled, applied, undone, crashes>>

\* Go to the step before, with the result r of the compensation.
Record(r) ==
    /\ comp' = [comp EXCEPT ![step] = r]
    /\ step' = step - 1
    /\ tries' = 0
    /\ UNCHANGED <<pc, failed, cancelled, applied, crashes>>

Skip ==
    /\ pc = "compensate" /\ step > 0 /\ step \notin Compensable
    /\ Record("none")
    /\ UNCHANGED <<status, undone>>

\* Mutant: a success overwrites the status an earlier failure left.
CompensateOkForgets ==
    /\ pc = "compensate" /\ step \in Compensable
    /\ undone' = undone \cup {step}
    /\ Record("ok")
    /\ status' = "compensated"

CompensateOk ==
    /\ pc = "compensate" /\ step \in Compensable
    /\ undone' = undone \cup {step}
    /\ Record("ok")
    /\ UNCHANGED status

\* An attempt fails: try again, or record the failure and go on with the others.
CompensateFails(effect) ==
    /\ pc = "compensate" /\ step \in Compensable
    /\ undone' = undone \cup effect
    /\ IF tries < CompRetries
       THEN /\ tries' = tries + 1
            /\ UNCHANGED <<pc, step, failed, status, comp, cancelled, applied, crashes>>
       ELSE /\ status' = "compensation_failed"
            /\ Record("failed")

Return ==
    /\ pc = "compensate" /\ step = 0
    /\ pc' = "returned"
    /\ UNCHANGED <<step, failed, tries, status, comp, cancelled, applied, undone, crashes>>

Run ==
    \/ ActionOk
    \/ \E effect \in {{}, {step}} : ActionFails(effect) \/ CompensateFails(effect)
    \/ ContextDone
    \/ Commit
    \/ Skip
    \/ CompensateOk
    \/ Return

\* The caller's context is cancelled, or times out.
Cancel ==
    /\ pc \in {"forward", "compensate"} /\ ~cancelled
    /\ cancelled' = TRUE
    /\ UNCHANGED <<pc, step, failed, tries, status, comp, applied, undone, crashes>>

\* The trigger (a message delivered at least once): acknowledged when Execute
\* has returned, delivered again when the process died before.
Ack ==
    /\ pc = "returned"
    /\ pc' = "acked"
    /\ UNCHANGED <<step, failed, tries, status, comp, cancelled, applied, undone, crashes>>

Crash ==
    /\ pc \notin {"acked", "crashed"} /\ crashes < MaxCrashes
    /\ crashes' = crashes + 1
    /\ pc' = "crashed"
    /\ UNCHANGED <<step, failed, tries, status, comp, cancelled, applied, undone>>

Redeliver ==
    /\ pc = "crashed"
    /\ pc' = "forward" /\ step' = 1 /\ failed' = 0 /\ tries' = 0
    /\ status' = "committed"
    /\ comp' = [s \in Steps |-> "none"]
    /\ cancelled' = FALSE
    /\ UNCHANGED <<applied, undone, crashes>>

Next == Run \/ Cancel \/ Ack \/ Crash \/ Redeliver

\* Actions and compensations return, and the trigger delivers.
Fairness == WF_vars(Run) /\ WF_vars(Ack) /\ WF_vars(Redeliver)

Spec == Init /\ [][Next]_vars

FairSpec == Spec /\ Fairness

-----------------------------------------------------------------------------
(* Properties *)

\* saga.go:65-72: what Execute returns is what happened in the services, when
\* one execution handles the trigger.  The failed step itself is the caller's.
StatusIsHonest ==
    pc = "returned" /\ crashes = 0 =>
        /\ status = "committed" => applied = Steps /\ undone = {}
        /\ status # "committed" =>
              /\ applied \subseteq 1..failed
              /\ undone \subseteq 1..failed - 1
              /\ \A s \in Compensable : s < failed => comp[s] # "none"
        /\ status = "compensated" => \A s \in Compensable : s < failed => s \in undone
        /\ status = "compensation_failed" => \E s \in Compensable : comp[s] = "failed"

\* saga.go:207, 223: a step is compensated after every later completed one.
ReverseOrder ==
    [][\A s \in undone' \ undone :
          \A r \in Compensable : s < r /\ r < failed => comp[r] # "none"]_vars

\* saga.go:14, 24: only what was done is compensated, however often the trigger
\* is delivered.
UndoneWasApplied == undone \subseteq applied

\* saga.go:28: a cancelled caller does not interrupt the compensation: the
\* trigger is always settled, and with every completed step dealt with.
Settled ==
    /\ pc = "acked"
    /\ status # "committed" => \A s \in Compensable : s < failed => comp[s] # "none"
Settles == <>Settled

-----------------------------------------------------------------------------
(* The inductive invariant. *)

Returned == pc \in {"returned", "acked"}
Forward == pc = "forward" \/ (Returned /\ status = "committed")
Backward == pc = "compensate" \/ (Returned /\ status # "committed")

\* On the way forward the steps before the current one are applied; in a first
\* execution no others, and nothing is undone.
ForwardInv ==
    Forward =>
        /\ status = "committed" /\ step >= 1
        /\ Returned => step = N + 1
        /\ \A s \in Steps :
              /\ comp[s] = "none"
              /\ s < step => s \in applied
              /\ crashes = 0 => (s \in applied => s < step) /\ s \notin undone

\* On the way back the compensable steps between the current and the failed one
\* have a record, which says what was done and agrees with the status.
BackwardInv ==
    Backward =>
        /\ status # "committed" /\ step < failed
        /\ Returned => step = 0
        /\ \A s \in Steps :
              /\ s < failed => s \in applied
              /\ comp[s] # "none" => step < s
              /\ comp[s] = "ok" => s \in undone
              /\ comp[s] = "failed" => status = "compensation_failed"
              /\ s \in Compensable /\ step < s /\ s < failed => comp[s] # "none"
              /\ crashes = 0 => (s \in applied => s <= failed) /\ (s \in undone => s < failed)
        /\ status = "compensation_failed" => \E s \in Compensable : comp[s] = "failed"

\* Only a crash loses an execution.
CrashInv == pc = "crashed" => crashes > 0

IInv == TypeOK /\ CrashInv /\ UndoneWasApplied /\ ForwardInv /\ BackwardInv
=============================================================================
