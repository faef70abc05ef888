------------------------------- MODULE Hedge --------------------------------
(***************************************************************************)
(* pkg/resilience/hedge: Do starts one call of fn, another each time the   *)
(* delay passes, and returns the first success, or the last error when all *)
(* have failed.  Results go through a channel with room for every call.    *)
(***************************************************************************)
EXTENDS Naturals, Sequences, FiniteSets

CONSTANTS
    Total,  \* maxHedge + 1
    Delay   \* whether delay > 0; otherwise all calls start at once

VARIABLES
    attempt,  \* attempt[a]: "none", "running", then its result once sent
    results,  \* the channel: the results in it
    main,     \* Do: place, results taken, the last one, and the armed timer
    ctx       \* "live", "cancelled" by the caller, "done" by Do's return

vars == <<attempt, results, main, ctx>>

Attempts == 1..Total
Launched == {a \in Attempts : attempt[a] # "none"}

TypeOK ==
    /\ attempt \in [Attempts -> {"none", "running", "ok", "err"}]
    /\ results \in Seq({"ok", "err"})
    /\ main \in [at : {"select", "ok", "err", "cancelled"}, completed : Nat,
                 last : {"none", "err"}, armed : BOOLEAN]
    /\ ctx \in {"live", "cancelled", "done"}

\* Do up to its loop: the first call is launched, and arm() sets the timer or
\* launches the rest.
Init ==
    /\ attempt = [a \in Attempts |-> IF a = 1 \/ ~Delay THEN "running" ELSE "none"]
    /\ results = <<>>
    /\ main = [at |-> "select", completed |-> 0, last |-> "none", armed |-> Delay /\ Total > 1]
    /\ ctx = "live"

\* fn returns, panics or gives up on ctx: the result is sent, never blocking.
Answer(a, r) ==
    /\ attempt[a] = "running"
    /\ attempt' = [attempt EXCEPT ![a] = r]
    /\ results' = Append(results, r)
    /\ UNCHANGED <<main, ctx>>

\* Do returns r; its deferred cancel ends the calls still running.
Return(r, done) ==
    /\ main' = [main EXCEPT !.at = r, !.completed = done]
    /\ ctx' = IF ctx = "live" THEN "done" ELSE ctx

\* Mutant of Receive: Do gives up when every launched call has failed.
ReceiveGivesUpEarly ==
    /\ main.at = "select" /\ results # <<>>
    /\ results' = Tail(results)
    /\ LET r == Head(results)
           done == main.completed + 1
       IN  IF r = "ok" \/ \A a \in Launched : attempt[a] = "err"
           THEN Return(r, done)
           ELSE main' = [main EXCEPT !.last = r, !.completed = done] /\ UNCHANGED ctx
    /\ UNCHANGED attempt

\* case r := <-results
Receive ==
    /\ main.at = "select" /\ results # <<>>
    /\ results' = Tail(results)
    /\ LET r == Head(results)
           done == main.completed + 1
       IN  IF r = "ok" \/ done >= Total
           THEN Return(r, done)
           ELSE main' = [main EXCEPT !.last = r, !.completed = done] /\ UNCHANGED ctx
    /\ UNCHANGED attempt

\* case <-tick: launch the next call and arm the timer while calls remain.
Hedged ==
    /\ main.at = "select" /\ main.armed
    /\ \E a \in Attempts \ Launched :
          /\ \A b \in Attempts \ Launched : a <= b
          /\ attempt' = [attempt EXCEPT ![a] = "running"]
          /\ main' = [main EXCEPT !.armed = a < Total]
    /\ UNCHANGED <<results, ctx>>

\* case <-ctx.Done(), which the caller's context may cause at any time.
Cancel ==
    /\ main.at = "select" /\ ctx = "live"
    /\ ctx' = "cancelled"
    /\ UNCHANGED <<attempt, results, main>>
Cancelled ==
    /\ main.at = "select" /\ ctx = "cancelled"
    /\ Return(IF main.last = "err" THEN "err" ELSE "cancelled", main.completed)
    /\ UNCHANGED <<attempt, results>>

DoStep == Receive \/ Hedged \/ Cancelled
Answers(a) == \E r \in {"ok", "err"} : Answer(a, r)

Next == DoStep \/ Cancel \/ \E a \in Attempts : Answers(a)

\* Do and the calls it launched run on.
Fairness == WF_vars(DoStep) /\ \A a \in Attempts : WF_vars(Answers(a))

Spec == Init /\ [][Next]_vars /\ Fairness

-----------------------------------------------------------------------------
(* Properties *)

\* hedge.go:18: Do succeeds only with a success, and unless the caller
\* cancelled it fails only when all Total calls have failed.
AnswerIsRight ==
    /\ main.at = "ok" => \E a \in Attempts : attempt[a] = "ok"
    /\ main.at = "err" /\ ctx # "cancelled" => \A a \in Attempts : attempt[a] = "err"

\* hedge.go:18: Do returns once the calls do.
Returned == main.at # "select"
DoReturns == []<>Returned

-----------------------------------------------------------------------------
(* The inductive invariant behind AnswerIsRight. *)

\* Every answer was taken or is in the channel; a success is there until Do
\* takes it and returns; and a failing Do has taken Total answers.
Answered == {a \in Attempts : attempt[a] \in {"ok", "err"}}
ResultInv ==
    /\ main.completed + Len(results) = Cardinality(Answered)
    /\ main.at = "select" => ctx # "done"
    /\ \A i \in DOMAIN results : results[i] = "ok" => \E a \in Attempts : attempt[a] = "ok"
    /\ main.at = "select" /\ (\E a \in Attempts : attempt[a] = "ok") =>
          \E i \in DOMAIN results : results[i] = "ok"

IInv == TypeOK /\ ResultInv /\ AnswerIsRight
=============================================================================
