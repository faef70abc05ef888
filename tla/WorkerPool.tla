----------------------------- MODULE WorkerPool -----------------------------
(***************************************************************************)
(* pkg/foundation/xgo: a pool of goroutines over an unbounded task list,   *)
(* with one pending signal for all of them, and an ErrorGroup with a       *)
(* context whose tasks it runs.  A submission starts a worker while there  *)
(* are fewer than cap; workers leave only when the pool closes.  A task    *)
(* whose context is done is dropped without a word to its group.           *)
(***************************************************************************)
EXTENDS Naturals, Sequences, FiniteSets, Functions

CONSTANTS Tasks, None, Cap, ScaleThreshold

VARIABLES
    tasks,    \* p.tasks
    taskCh,   \* p.taskCh holds its signal
    submit,   \* submit[t]: where the Go of task t is
    worker,   \* worker[t]: place and task of the worker that this Go started
    group,    \* the ErrorGroup: wg, err, and whether its context is done
    closing,  \* where Close is
    ended     \* history: the tasks that ran, failed or were skipped

vars == <<tasks, taskCh, submit, worker, group, closing, ended>>

TypeOK ==
    /\ tasks \in Seq(Tasks) /\ taskCh \in BOOLEAN
    /\ submit \in [Tasks -> {"none", "add", "count", "scale", "zero", "run", "returned", "refused"}]
    /\ worker \in [Tasks -> [at : {"none", "pop", "exec", "select", "exited"}, task : Tasks \cup {None}]]
    /\ group \in [wg : Nat, err : Tasks \cup {None}, done : BOOLEAN]
    /\ ended \in [Tasks -> {"no", "ran", "failed", "skipped"}]
    /\ closing \in {"no", "flag", "wait", "done", "timeout"}

Init ==
    /\ tasks = <<>> /\ taskCh = FALSE
    /\ submit = [t \in Tasks |-> "none"]
    /\ worker = [t \in Tasks |-> [at |-> "none", task |-> None]]
    /\ group = [wg |-> 0, err |-> None, done |-> FALSE]
    /\ closing = "no"
    /\ ended = [t \in Tasks |-> "no"]

Alive == {t \in Tasks : worker[t].at \in {"pop", "exec", "select"}}

\* ErrorGroup.Go (Go and WaitGroup.Go differ in what the task reports): the
\* closed flag, addTask with its signal, then the decision to start a worker,
\* which reads three counters one after the other.
Go(t) ==
    /\ submit[t] = "none"
    /\ \/ closing # "no" /\ submit' = [submit EXCEPT ![t] = "refused"] /\ UNCHANGED group
       \/ /\ closing = "no" /\ submit' = [submit EXCEPT ![t] = "add"]
          /\ group' = [group EXCEPT !.wg = @ + 1]
    /\ UNCHANGED <<tasks, taskCh, worker, closing, ended>>
\* Mutant of AddTask: no signal while workers exist.
AddTaskSilently(t) ==
    /\ submit[t] = "add" /\ submit' = [submit EXCEPT ![t] = "count"]
    /\ tasks' = Append(tasks, t) /\ taskCh' = (taskCh \/ Alive = {})
    /\ UNCHANGED <<worker, group, closing, ended>>
AddTask(t) ==
    /\ submit[t] = "add" /\ submit' = [submit EXCEPT ![t] = "count"]
    /\ tasks' = Append(tasks, t) /\ taskCh' = TRUE
    /\ UNCHANGED <<worker, group, closing, ended>>
Decide(t) ==
    /\ \/ /\ submit[t] = "count"
          /\ submit' = [submit EXCEPT ![t] = IF Len(tasks) >= ScaleThreshold THEN "scale" ELSE "zero"]
       \/ /\ submit[t] = "scale"
          /\ submit' = [submit EXCEPT ![t] = IF Cardinality(Alive) < Cap THEN "run" ELSE "zero"]
       \/ /\ submit[t] = "zero"
          /\ submit' = [submit EXCEPT ![t] = IF Alive = {} THEN "run" ELSE "returned"]
    /\ UNCHANGED <<tasks, taskCh, worker, group, closing, ended>>
Run(t) ==
    /\ submit[t] = "run" /\ submit' = [submit EXCEPT ![t] = "returned"]
    /\ worker' = [worker EXCEPT ![t].at = "pop"]
    /\ UNCHANGED <<tasks, taskCh, group, closing, ended>>
Submitter(t) == AddTask(t) \/ Decide(t) \/ Run(t)

\* A worker drains the list, dropping tasks of a done context, before it waits.
Pop(w) ==
    /\ worker[w].at = "pop"
    /\ \/ /\ tasks = <<>>
          /\ worker' = [worker EXCEPT ![w].at = "select"] /\ UNCHANGED <<tasks, ended>>
       \/ /\ tasks # <<>> /\ tasks' = Tail(tasks)
          /\ \/ /\ group.done
                /\ ended' = [ended EXCEPT ![Head(tasks)] = "skipped"] /\ UNCHANGED worker
             \/ /\ ~group.done
                /\ worker' = [worker EXCEPT ![w] = [at |-> "exec", task |-> Head(tasks)]]
                /\ UNCHANGED ended
    /\ UNCHANGED <<taskCh, submit, group, closing>>

\* executeTask: f succeeds (or panics, which is recovered), or fails; the first
\* error is kept and cancels the context.
ExecuteTask(w, failed) ==
    LET t == worker[w].task IN
    /\ worker[w].at = "exec"
    /\ ended' = [ended EXCEPT ![t] = IF failed THEN "failed" ELSE "ran"]
    /\ group' = [wg |-> group.wg - 1,
                 err |-> IF failed /\ group.err = None THEN t ELSE group.err,
                 done |-> group.done \/ failed]
    /\ worker' = [worker EXCEPT ![w] = [at |-> "pop", task |-> None]]
    /\ UNCHANGED <<tasks, taskCh, submit, closing>>
Wait(w) ==
    /\ worker[w].at = "select"
    /\ \/ /\ closing \notin {"no", "flag"}
          /\ worker' = [worker EXCEPT ![w].at = "exited"] /\ UNCHANGED taskCh
       \/ /\ taskCh /\ taskCh' = FALSE
          /\ worker' = [worker EXCEPT ![w].at = "pop"]
    /\ UNCHANGED <<tasks, submit, group, closing, ended>>
Work(w) == Pop(w) \/ Wait(w) \/ \E failed \in BOOLEAN : ExecuteTask(w, failed)

\* CloseWithTimeout: the flag, close(closeCh), and the wait for the workers,
\* which a timeout may end.
Close ==
    /\ \/ closing = "no" /\ closing' = "flag"
       \/ closing = "flag" /\ closing' = "wait"
       \/ closing = "wait" /\ Alive = {} /\ closing' = "done"
       \/ closing = "wait" /\ closing' = "timeout"
    /\ UNCHANGED <<tasks, taskCh, submit, worker, group, ended>>

\* The context that the group was made from ends.
CtxDone ==
    /\ ~group.done /\ group' = [group EXCEPT !.done = TRUE]
    /\ UNCHANGED <<tasks, taskCh, submit, worker, closing, ended>>

Next ==
    \/ \E t \in Tasks : Go(t) \/ Submitter(t) \/ Work(t)
    \/ Close \/ CtxDone

Fairness == \A t \in Tasks : WF_vars(Submitter(t)) /\ WF_vars(Work(t))

Spec == Init /\ [][Next]_vars /\ Fairness

-----------------------------------------------------------------------------
(* Properties *)

Counted == {t \in Tasks : submit[t] \notin {"none", "refused"} /\ ended[t] \in {"no", "skipped"}}

\* xgo.go:202-208: the group counts the tasks that were submitted and have not
\* run, so Wait returns only after them; it reports an error exactly when one
\* failed, and never one that was not run.
GroupCounts ==
    /\ group.wg = Cardinality(Counted)
    /\ IF group.err = None THEN \A t \in Tasks : ended[t] # "failed"
       ELSE ended[group.err] = "failed" /\ group.done

\* xgo.go:341-348: until the pool closes every task runs or, once the context is
\* done, is dropped, so Wait returns if none was.
AllTaken == closing # "no" \/ \A t \in Tasks : submit[t] \in {"none", "refused"} \/ ended[t] # "no"
TasksRun == []<>AllTaken

-----------------------------------------------------------------------------
(* The inductive invariant behind GroupCounts. *)

\* A task that was submitted is in the list or with one worker, once, until it
\* has ended; finitely many were.
Busy == {w \in Tasks : worker[w].at = "exec"}
Waits(t) == ended[t] = "no" /\ submit[t] \notin {"none", "refused", "add"}
TaskInv ==
    /\ IsInjective(tasks) /\ IsFiniteSet(Counted)
    /\ \A t \in Range(tasks) : Waits(t)
    /\ \A w \in Busy :
          /\ worker[w].task \in Tasks \ Range(tasks) /\ Waits(worker[w].task)
          /\ \A v \in Busy : worker[v].task = worker[w].task => v = w
    /\ \A t \in Tasks : submit[t] \in {"none", "refused", "add"} => ended[t] = "no"

IInv == TypeOK /\ TaskInv /\ GroupCounts
=============================================================================
