-------------------------------- MODULE Txn --------------------------------
(***************************************************************************)
(* pkg/orchestration/txn: one Coordinator shared by several goroutines,    *)
(* each of which calls Run once.  A Run takes runMu, prepares the          *)
(* participants in order, calls its body, commits or rolls back, and       *)
(* drains the post-commit hooks, which are kept in one list of the         *)
(* coordinator.                                                            *)
(*                                                                         *)
(* A participant is what the coordinator knows of it: open[p] is the run   *)
(* that prepared p and has called neither Commit nor Rollback yet, data[p] *)
(* the runs whose Commit took effect.  The hook that the caller of run r   *)
(* registers, before Run or in its body, is r itself.                      *)
(***************************************************************************)
EXTENDS Naturals

CONSTANTS
    Runs, None,
    NParts,      \* bound: participants enlisted
    EarlyHooks,  \* callers may register their hook before they call Run
    Panics       \* a participant or a body may panic, and the caller recovers

ASSUME ConstantsAssumption ==
    /\ None \notin Runs
    /\ NParts \in Nat
    /\ EarlyHooks \in BOOLEAN /\ Panics \in BOOLEAN

VARIABLES
    enlisted,  \* len(c.ordered)
    runMu,     \* the run that holds c.runMu
    onCommit,  \* c.onCommit
    pc,        \* where each run is
    snap,      \* snap[r]: len(participants) of run r
    i,         \* the loop variable of the run that holds runMu
    result,    \* what Run returned, or is about to return
    open, data,
    early,     \* hooks that were registered before Run
    starter,   \* starter[h]: the run that started the goroutine of hook h
    fired      \* hooks that have run

vars == <<enlisted, runMu, onCommit, pc, snap, i, result, open, data, early, starter, fired>>
hooks == <<onCommit, early, starter, fired>>

Parts == 1..NParts
Started == {h \in Runs : starter[h] # None}

TypeOK ==
    /\ enlisted \in 0..NParts
    /\ runMu \in Runs \cup {None}
    /\ onCommit \subseteq Runs
    /\ pc \in [Runs -> {"idle", "registered", "prepare", "body", "commit", "rollback",
                        "unlock", "done", "panicked"}]
    /\ snap \in [Runs -> 0..NParts] /\ i \in 0..NParts + 1
    /\ result \in [Runs -> {"none", "ok", "aborted", "partial"}]
    /\ open \in [Parts -> Runs \cup {None}]
    /\ data \in [Parts -> SUBSET Runs]
    /\ early \subseteq Runs /\ fired \subseteq Runs
    /\ starter \in [Runs -> Runs \cup {None}]

Init ==
    /\ enlisted = 0
    /\ runMu = None
    /\ onCommit = {}
    /\ pc = [r \in Runs |-> "idle"]
    /\ snap = [r \in Runs |-> 0] /\ i = 0
    /\ result = [r \in Runs |-> "none"]
    /\ open = [p \in Parts |-> None]
    /\ data = [p \in Parts |-> {}]
    /\ early = {} /\ fired = {}
    /\ starter = [h \in Runs |-> None]

Enlist ==
    /\ enlisted < NParts
    /\ enlisted' = enlisted + 1
    /\ UNCHANGED <<runMu, pc, snap, i, result, open, data, hooks>>

\* OnCommit before Run, which txn.go:128 allows.
OnCommitEarly(r) ==
    /\ EarlyHooks
    /\ pc[r] = "idle"
    /\ pc' = [pc EXCEPT ![r] = "registered"]
    /\ onCommit' = onCommit \cup {r}
    /\ early' = early \cup {r}
    /\ UNCHANGED <<enlisted, runMu, snap, i, result, open, data, starter, fired>>

\* Take runMu and copy the participants.
Begin(r) ==
    /\ pc[r] \in {"idle", "registered"}
    /\ runMu = None
    /\ runMu' = r
    /\ snap' = [snap EXCEPT ![r] = enlisted]
    /\ i' = 1
    /\ pc' = [pc EXCEPT ![r] = "prepare"]
    /\ UNCHANGED <<enlisted, result, open, data, hooks>>

PrepareOk(r) ==
    /\ pc[r] = "prepare" /\ i <= snap[r]
    /\ open' = [open EXCEPT ![i] = r]
    /\ i' = i + 1
    /\ UNCHANGED <<enlisted, runMu, pc, snap, result, data, hooks>>

\* Roll back the first k participants.
Abort(r, k) ==
    /\ pc' = [pc EXCEPT ![r] = "rollback"]
    /\ i' = k
    /\ result' = [result EXCEPT ![r] = "aborted"]
    /\ UNCHANGED <<enlisted, runMu, snap, open, data, hooks>>

PrepareFails(r) ==
    /\ pc[r] = "prepare" /\ i <= snap[r]
    /\ Abort(r, i - 1)

InBody(r) == pc[r] = "body" \/ (pc[r] = "prepare" /\ i = snap[r] + 1)

\* OnCommit inside the body; a caller registers its hook once.
OnCommit(r) ==
    /\ pc[r] = "prepare" /\ InBody(r)
    /\ r \notin early
    /\ pc' = [pc EXCEPT ![r] = "body"]
    /\ onCommit' = onCommit \cup {r}
    /\ UNCHANGED <<enlisted, runMu, snap, i, result, open, data, early, starter, fired>>

BodyOk(r) ==
    /\ InBody(r)
    /\ pc' = [pc EXCEPT ![r] = "commit"]
    /\ i' = 1
    /\ UNCHANGED <<enlisted, runMu, snap, result, open, data, hooks>>

BodyFails(r) ==
    /\ InBody(r)
    /\ Abort(r, snap[r])

\* Mutant: the error of a Commit is dropped.
CommitUnchecked(r, effect, err) ==
    /\ pc[r] = "commit" /\ i <= snap[r]
    /\ effect \/ err
    /\ open' = [open EXCEPT ![i] = None]
    /\ data' = [data EXCEPT ![i] = IF effect THEN @ \cup {r} ELSE @]
    /\ i' = i + 1
    /\ UNCHANGED <<enlisted, runMu, pc, snap, result, hooks>>

\* Commit of the next participant, best effort: it may fail, with or without
\* having taken effect, and the loop goes on.
Commit(r, effect, err) ==
    /\ pc[r] = "commit" /\ i <= snap[r]
    /\ effect \/ err
    /\ open' = [open EXCEPT ![i] = None]
    /\ data' = [data EXCEPT ![i] = IF effect THEN @ \cup {r} ELSE @]
    /\ result' = [result EXCEPT ![r] = IF err THEN "partial" ELSE @]
    /\ i' = i + 1
    /\ UNCHANGED <<enlisted, runMu, pc, snap, hooks>>

\* Mutant: the oldest participant goes first.
RollbackForward(r) ==
    /\ pc[r] = "rollback" /\ i > 0
    /\ LET first == CHOOSE p \in Parts : open[p] = r /\ \A q \in Parts : open[q] = r => p <= q
       IN open' = [open EXCEPT ![first] = None]
    /\ i' = i - 1
    /\ UNCHANGED <<enlisted, runMu, pc, snap, result, data, hooks>>

\* rollbackAll ignores what Rollback returns.
Rollback(r) ==
    /\ pc[r] = "rollback" /\ i > 0
    /\ open' = [open EXCEPT ![i] = None]
    /\ i' = i - 1
    /\ UNCHANGED <<enlisted, runMu, pc, snap, result, data, hooks>>

\* Run r starts the goroutines of the hooks in h.
RunHooks(r, h) == [k \in Runs |-> IF k \in h THEN r ELSE starter[k]]

\* Mutants of drainHooks and runHooks: hooks stay when the run fails; the list
\* is cleared before it is read.
DrainHooksOnSuccess(r) ==
    /\ \/ pc[r] = "rollback" /\ i = 0
       \/ pc[r] = "commit" /\ i = snap[r] + 1
    /\ onCommit' = IF result[r] = "none" THEN {} ELSE onCommit
    /\ starter' = IF result[r] = "none" THEN RunHooks(r, onCommit) ELSE starter
    /\ result' = [result EXCEPT ![r] = IF @ = "none" THEN "ok" ELSE @]
    /\ pc' = [pc EXCEPT ![r] = "unlock"]
    /\ UNCHANGED <<enlisted, runMu, snap, i, open, data, early, fired>>

DrainHooksFirst(r) ==
    /\ \/ pc[r] = "rollback" /\ i = 0
       \/ pc[r] = "commit" /\ i = snap[r] + 1
    /\ onCommit' = {}
    /\ starter' = IF result[r] = "none" THEN RunHooks(r, onCommit') ELSE starter
    /\ result' = [result EXCEPT ![r] = IF @ = "none" THEN "ok" ELSE @]
    /\ pc' = [pc EXCEPT ![r] = "unlock"]
    /\ UNCHANGED <<enlisted, runMu, snap, i, open, data, early, fired>>

\* drainHooks on every exit, and runHooks when all commits succeeded.
DrainHooks(r) ==
    /\ \/ pc[r] = "rollback" /\ i = 0
       \/ pc[r] = "commit" /\ i = snap[r] + 1
    /\ onCommit' = {}
    /\ starter' = IF result[r] = "none" THEN RunHooks(r, onCommit) ELSE starter
    /\ result' = [result EXCEPT ![r] = IF @ = "none" THEN "ok" ELSE @]
    /\ pc' = [pc EXCEPT ![r] = "unlock"]
    /\ UNCHANGED <<enlisted, runMu, snap, i, open, data, early, fired>>

Return(r) ==
    /\ pc[r] = "unlock"
    /\ runMu' = None
    /\ pc' = [pc EXCEPT ![r] = "done"]
    /\ UNCHANGED <<enlisted, snap, i, result, open, data, hooks>>

\* The deferred unlock is all that Run does about a panic of a participant or
\* of the body.
Panic(r) ==
    /\ Panics
    /\ \/ pc[r] \in {"prepare", "body"}
       \/ pc[r] = "commit" /\ i <= snap[r]
       \/ pc[r] = "rollback" /\ i > 0
    /\ runMu' = None
    /\ pc' = [pc EXCEPT ![r] = "panicked"]
    /\ UNCHANGED <<enlisted, snap, i, result, open, data, hooks>>

\* The goroutine of a hook.
HookRuns(h) ==
    /\ h \in Started \ fired
    /\ fired' = fired \cup {h}
    /\ UNCHANGED <<enlisted, runMu, pc, snap, i, result, open, data, onCommit, early, starter>>

\* Run from inside: everything up to the return.
Progress(r) ==
    \/ Begin(r)
    \/ PrepareOk(r)
    \/ PrepareFails(r)
    \/ BodyOk(r)
    \/ BodyFails(r)
    \/ \E effect, err \in BOOLEAN : Commit(r, effect, err)
    \/ Rollback(r)
    \/ DrainHooks(r)
    \/ Return(r)

Next ==
    \/ Enlist
    \/ \E r \in Runs : OnCommitEarly(r) \/ OnCommit(r) \/ Progress(r) \/ Panic(r) \/ HookRuns(r)

\* Participants and bodies return, mutexes are granted, goroutines run.
Fairness == \A r \in Runs : WF_vars(Progress(r)) /\ WF_vars(HookRuns(r))

Spec == Init /\ [][Next]_vars

FairSpec == Spec /\ Fairness

-----------------------------------------------------------------------------
(* Properties *)

\* txn.go:25, 147: nil means that every participant committed, an abort that
\* none did, and no Run leaves a prepared participant behind.
AllOrNothing ==
    \A r \in Runs :
        /\ result[r] = "ok" => \A p \in 1..snap[r] : r \in data[p]
        /\ result[r] = "aborted" => \A p \in Parts : r \notin data[p]
        /\ pc[r] = "done" => \A p \in Parts : open[p] # r

\* txn.go:108: participants are rolled back in reverse order.
ReverseRollback ==
    [][\A r \in Runs, p \in Parts :
          pc[r] = "rollback" /\ open[p] = r /\ open'[p] = None =>
              \A q \in Parts : q > p => open[q] # r]_vars

Committed(r) == result[r] = "ok" /\ \A p \in 1..snap[r] : r \in data[p]

\* txn.go:160-168 and 195-197: a hook is only started by a Run all of whose
\* participants have committed, and that Run is the hook's own unless the hook
\* was put in the shared list before its Run, or its Run panicked and left it
\* there.
HooksFollowCommit ==
    \A h \in Started :
        /\ Committed(starter[h])
        /\ starter[h] = h \/ h \in early \/ pc[h] = "panicked"

\* txn.go:35-38 and 121-122: if one Commit fails or the transaction rolls back,
\* its hook is not executed.  Not so of a hook that was registered before Run.
NoHookOfFailedRun == \A h \in fired : result[h] \notin {"aborted", "partial"}

\* txn.go:195-197: a hook that is in the list while its own transaction commits
\* is run once it has committed, whatever the other Runs do.
HookIsRun ==
    /\ [][\A h \in onCommit \ onCommit' : pc[h] = "commit" =>
             h \in Started' \/ result'[h] = "partial" \/ pc'[h] = "panicked"]_vars
    /\ \A h \in Runs : []<>(pc[h] # "commit" /\ (h \in Started => h \in fired))

-----------------------------------------------------------------------------
(* The inductive invariant.  A Run works on the participants only while it  *)
(* holds runMu, and i tells how far it got: Prepare has reached those below *)
(* i, Commit has left those from i on, Rollback those up to i.              *)

Inside == {"prepare", "body", "commit", "rollback", "unlock"}

RunInv ==
    \A r \in Runs :
        /\ pc[r] \in Inside <=> runMu = r
        /\ result[r] = "ok" => pc[r] \in {"unlock", "done"}
        /\ pc[r] \in {"idle", "registered", "prepare", "body"} => result[r] = "none"
        /\ pc[r] = "commit" => result[r] \in {"none", "partial"}
        /\ pc[r] = "rollback" => result[r] = "aborted"
        /\ pc[r] \in {"prepare", "body", "commit"} => 1 <= i /\ i <= snap[r] + 1
        /\ pc[r] = "rollback" => i <= snap[r]
        /\ pc[r] = "body" => i = snap[r] + 1

OpenInv ==
    \A r \in Runs, p \in Parts : open[p] = r =>
        /\ pc[r] \in {"prepare", "body", "commit", "rollback", "panicked"}
        /\ pc[r] \in {"prepare", "body"} => p < i
        /\ pc[r] = "commit" => i <= p /\ p <= snap[r]
        /\ pc[r] = "rollback" => p <= i

DataInv ==
    \A r \in Runs :
        /\ \A p \in Parts : r \in data[p] =>
              /\ result[r] # "aborted"
              /\ pc[r] \in {"commit", "unlock", "done", "panicked"}
              /\ pc[r] = "commit" => p < i
        /\ pc[r] = "commit" /\ result[r] = "none" =>
              \A p \in 1..snap[r] : p < i => r \in data[p]
        /\ result[r] = "ok" => \A p \in 1..snap[r] : r \in data[p]

IInv == TypeOK /\ RunInv /\ OpenInv /\ DataInv

\* The list holds no hook but those registered early, those that a panic left
\* behind and that of the body that holds runMu.
HookInv ==
    /\ \A h \in onCommit : h \in early \/ pc[h] \in {"body", "commit", "rollback", "panicked"}
    /\ \A h \in Started :
          /\ result[starter[h]] = "ok"
          /\ starter[h] = h \/ h \in early \/ pc[h] = "panicked"
=============================================================================
