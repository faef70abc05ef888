------------------------- MODULE CoordinationProofs -------------------------
(***************************************************************************)
(* Proofs about the coordinators of pkg/orchestration (txn, saga and tcc), *)
(* the Store mode of idempotency, webhooks, the discovery client, handoff  *)
(* and the job queue in Redis, for any number of runs, participants, steps,*)
(* retries, crashes, callers, connections, events and operations.          *)
(*                                                                         *)
(* Each part proves an invariant of one component, first for a step of the *)
(* component and then for the behaviours of MCCoordination, in which one   *)
(* component moves and the others keep their variables.  The last part     *)
(* puts them together.                                                     *)
(***************************************************************************)
EXTENDS MCCoordination, FiniteSetTheorems, SequenceTheorems, TLAPS

\* A step of component w is a step of the component of this behaviour.
LEMMA OnlyWhich ==
    ASSUME NEW w, Only(w)
    PROVE  which = w /\ which' = which
BY DEF Only

-----------------------------------------------------------------------------
(* Saga *)

\* One step of Execute, of the caller or of the trigger keeps the invariant.
LEMMA SagaKeeps ==
    ASSUME Saga!IInv, Saga!Next
    PROVE  Saga!IInv'
<1> USE FlowAssumption DEF Saga!IInv, Saga!TypeOK, Saga!UndoneWasApplied, Saga!CrashInv, Saga!Steps
<1>1. CASE Saga!ActionOk
  <2>1. Saga!TypeOK' /\ Saga!CrashInv' /\ Saga!UndoneWasApplied'
    BY <1>1
       DEF Saga!ActionOk, Saga!ForwardInv, Saga!BackwardInv, Saga!Forward, Saga!Backward,
           Saga!Returned
  <2>2. Saga!ForwardInv'
    BY <1>1
       DEF Saga!ActionOk, Saga!ForwardInv, Saga!BackwardInv, Saga!Forward, Saga!Backward,
           Saga!Returned
  <2>3. Saga!BackwardInv'
    BY <1>1
       DEF Saga!ActionOk, Saga!ForwardInv, Saga!BackwardInv, Saga!Forward, Saga!Backward,
           Saga!Returned
  <2> QED BY <2>1, <2>2, <2>3
<1>2. CASE Saga!ContextDone
  <2>1. Saga!TypeOK' /\ Saga!CrashInv' /\ Saga!UndoneWasApplied'
    BY <1>2
       DEF Saga!ContextDone, Saga!Fail, Saga!ForwardInv, Saga!BackwardInv, Saga!Forward,
           Saga!Backward, Saga!Returned
  <2>2. Saga!ForwardInv'
    BY <1>2
       DEF Saga!ContextDone, Saga!Fail, Saga!ForwardInv, Saga!BackwardInv, Saga!Forward,
           Saga!Backward, Saga!Returned
  <2>3. Saga!BackwardInv'
    BY <1>2
       DEF Saga!ContextDone, Saga!Fail, Saga!ForwardInv, Saga!BackwardInv, Saga!Forward,
           Saga!Backward, Saga!Returned
  <2> QED BY <2>1, <2>2, <2>3
<1>3. ASSUME NEW effect \in {{}, {step}}, Saga!ActionFails(effect)
      PROVE  Saga!IInv'
  <2>0. effect = {} \/ (effect = {step} /\ step \in 1..NSteps)
    BY <1>3 DEF Saga!ActionFails, Saga!Fail, Saga!ForwardInv, Saga!Forward
  <2>a. applied' \subseteq 1..NSteps /\ undone' \subseteq 1..NSteps /\ undone' \subseteq applied'
    BY <2>0, <1>3
       DEF Saga!ActionFails, Saga!Fail, Saga!BackwardInv, Saga!Forward, Saga!Backward,
           Saga!Returned
  <2>1. Saga!TypeOK' /\ Saga!CrashInv' /\ Saga!UndoneWasApplied'
    BY <2>0, <2>a, <1>3
       DEF Saga!ActionFails, Saga!Fail, Saga!ForwardInv, Saga!BackwardInv, Saga!Forward,
           Saga!Backward, Saga!Returned
  <2>2. Saga!ForwardInv'
    BY <1>3
       DEF Saga!ActionFails, Saga!Fail, Saga!ForwardInv, Saga!BackwardInv, Saga!Forward,
           Saga!Backward, Saga!Returned
  <2>3. Saga!BackwardInv'
    BY <1>3
       DEF Saga!ActionFails, Saga!Fail, Saga!ForwardInv, Saga!BackwardInv, Saga!Forward,
           Saga!Backward, Saga!Returned
  <2> QED BY <2>1, <2>2, <2>3
<1>4. CASE Saga!Commit
  <2>1. Saga!TypeOK' /\ Saga!CrashInv' /\ Saga!UndoneWasApplied'
    BY <1>4
       DEF Saga!Commit, Saga!ForwardInv, Saga!BackwardInv, Saga!Forward, Saga!Backward,
           Saga!Returned
  <2>2. Saga!ForwardInv'
    BY <1>4
       DEF Saga!Commit, Saga!ForwardInv, Saga!BackwardInv, Saga!Forward, Saga!Backward,
           Saga!Returned
  <2>3. Saga!BackwardInv'
    BY <1>4
       DEF Saga!Commit, Saga!ForwardInv, Saga!BackwardInv, Saga!Forward, Saga!Backward,
           Saga!Returned
  <2> QED BY <2>1, <2>2, <2>3
<1>5. CASE Saga!Skip
  <2>1. Saga!TypeOK' /\ Saga!CrashInv' /\ Saga!UndoneWasApplied'
    BY <1>5
       DEF Saga!Skip, Saga!Record, Saga!ForwardInv, Saga!BackwardInv, Saga!Forward, Saga!Backward,
           Saga!Returned
  <2>2. Saga!ForwardInv'
    BY <1>5
       DEF Saga!Skip, Saga!Record, Saga!ForwardInv, Saga!BackwardInv, Saga!Forward, Saga!Backward,
           Saga!Returned
  <2>3. Saga!BackwardInv'
    BY <1>5
       DEF Saga!Skip, Saga!Record, Saga!ForwardInv, Saga!BackwardInv, Saga!Forward, Saga!Backward,
           Saga!Returned
  <2> QED BY <2>1, <2>2, <2>3
<1>6. CASE Saga!CompensateOk
  <2>1. Saga!TypeOK' /\ Saga!CrashInv' /\ Saga!UndoneWasApplied'
    BY <1>6
       DEF Saga!CompensateOk, Saga!Record, Saga!ForwardInv, Saga!BackwardInv, Saga!Forward,
           Saga!Backward, Saga!Returned
  <2>2. Saga!ForwardInv'
    BY <1>6
       DEF Saga!CompensateOk, Saga!Record, Saga!ForwardInv, Saga!BackwardInv, Saga!Forward,
           Saga!Backward, Saga!Returned
  <2>3. Saga!BackwardInv'
    BY <1>6
       DEF Saga!CompensateOk, Saga!Record, Saga!ForwardInv, Saga!BackwardInv, Saga!Forward,
           Saga!Backward, Saga!Returned
  <2> QED BY <2>1, <2>2, <2>3
<1>7. ASSUME NEW effect \in {{}, {step}}, Saga!CompensateFails(effect)
      PROVE  Saga!IInv'
  <2>0. effect = {} \/ (effect = {step} /\ step \in 1..NSteps)
    BY <1>7 DEF Saga!CompensateFails, Saga!Record, Saga!ForwardInv, Saga!Forward
  <2>a. applied' \subseteq 1..NSteps /\ undone' \subseteq 1..NSteps /\ undone' \subseteq applied'
    BY <2>0, <1>7
       DEF Saga!CompensateFails, Saga!Record, Saga!BackwardInv, Saga!Forward, Saga!Backward,
           Saga!Returned
  <2>1. Saga!TypeOK' /\ Saga!CrashInv' /\ Saga!UndoneWasApplied'
    BY <2>0, <2>a, <1>7
       DEF Saga!CompensateFails, Saga!Record, Saga!ForwardInv, Saga!BackwardInv, Saga!Forward,
           Saga!Backward, Saga!Returned
  <2>2. Saga!ForwardInv'
    BY <1>7
       DEF Saga!CompensateFails, Saga!Record, Saga!ForwardInv, Saga!BackwardInv, Saga!Forward,
           Saga!Backward, Saga!Returned
  <2>3. Saga!BackwardInv'
    BY <1>7
       DEF Saga!CompensateFails, Saga!Record, Saga!ForwardInv, Saga!BackwardInv, Saga!Forward,
           Saga!Backward, Saga!Returned
  <2> QED BY <2>1, <2>2, <2>3
<1>8. CASE Saga!Return
  <2>1. Saga!TypeOK' /\ Saga!CrashInv' /\ Saga!UndoneWasApplied'
    BY <1>8
       DEF Saga!Return, Saga!ForwardInv, Saga!BackwardInv, Saga!Forward, Saga!Backward,
           Saga!Returned
  <2>2. Saga!ForwardInv'
    BY <1>8
       DEF Saga!Return, Saga!ForwardInv, Saga!BackwardInv, Saga!Forward, Saga!Backward,
           Saga!Returned
  <2>3. Saga!BackwardInv'
    BY <1>8
       DEF Saga!Return, Saga!ForwardInv, Saga!BackwardInv, Saga!Forward, Saga!Backward,
           Saga!Returned
  <2> QED BY <2>1, <2>2, <2>3
<1>9. CASE Saga!Cancel
  <2>1. Saga!TypeOK' /\ Saga!CrashInv' /\ Saga!UndoneWasApplied'
    BY <1>9
       DEF Saga!Cancel, Saga!ForwardInv, Saga!BackwardInv, Saga!Forward, Saga!Backward,
           Saga!Returned
  <2>2. Saga!ForwardInv'
    BY <1>9
       DEF Saga!Cancel, Saga!ForwardInv, Saga!BackwardInv, Saga!Forward, Saga!Backward,
           Saga!Returned
  <2>3. Saga!BackwardInv'
    BY <1>9
       DEF Saga!Cancel, Saga!ForwardInv, Saga!BackwardInv, Saga!Forward, Saga!Backward,
           Saga!Returned
  <2> QED BY <2>1, <2>2, <2>3
<1>10. CASE Saga!Ack
  <2>1. Saga!TypeOK' /\ Saga!CrashInv' /\ Saga!UndoneWasApplied'
    BY <1>10
       DEF Saga!Ack, Saga!ForwardInv, Saga!BackwardInv, Saga!Forward, Saga!Backward, Saga!Returned
  <2>2. Saga!ForwardInv'
    BY <1>10
       DEF Saga!Ack, Saga!ForwardInv, Saga!BackwardInv, Saga!Forward, Saga!Backward, Saga!Returned
  <2>3. Saga!BackwardInv'
    BY <1>10
       DEF Saga!Ack, Saga!ForwardInv, Saga!BackwardInv, Saga!Forward, Saga!Backward, Saga!Returned
  <2> QED BY <2>1, <2>2, <2>3
<1>11. CASE Saga!Crash
  <2>1. Saga!TypeOK' /\ Saga!CrashInv' /\ Saga!UndoneWasApplied'
    BY <1>11
       DEF Saga!Crash, Saga!ForwardInv, Saga!BackwardInv, Saga!Forward, Saga!Backward,
           Saga!Returned
  <2>2. Saga!ForwardInv'
    BY <1>11
       DEF Saga!Crash, Saga!ForwardInv, Saga!BackwardInv, Saga!Forward, Saga!Backward,
           Saga!Returned
  <2>3. Saga!BackwardInv'
    BY <1>11
       DEF Saga!Crash, Saga!ForwardInv, Saga!BackwardInv, Saga!Forward, Saga!Backward,
           Saga!Returned
  <2> QED BY <2>1, <2>2, <2>3
<1>12. CASE Saga!Redeliver
  <2>a. cancelled' \in BOOLEAN /\ outcome' \in [1..NSteps -> {"none", "ok", "failed"}]
    BY <1>12 DEF Saga!Redeliver
  <2>1. Saga!TypeOK' /\ Saga!CrashInv' /\ Saga!UndoneWasApplied'
    BY <2>a, <1>12 DEF Saga!Redeliver
  <2>2. Saga!ForwardInv'
    BY <1>12
       DEF Saga!Redeliver, Saga!ForwardInv, Saga!BackwardInv, Saga!Forward, Saga!Backward,
           Saga!Returned
  <2>3. Saga!BackwardInv'
    BY <1>12
       DEF Saga!Redeliver, Saga!ForwardInv, Saga!BackwardInv, Saga!Forward, Saga!Backward,
           Saga!Returned
  <2> QED BY <2>1, <2>2, <2>3
<1> QED BY <1>1, <1>2, <1>3, <1>4, <1>5, <1>6, <1>7, <1>8, <1>9, <1>10, <1>11, <1>12 DEF Saga!Next, Saga!Run

\* saga.go:65-72 and 180-260: in every behaviour of a saga, whatever fails, is
\* cancelled or crashes, the services and the records are where Execute is.
THEOREM SagaInvariant == MCSpec => [](which = "saga" => Saga!IInv)
<1>1. MCInit => (which = "saga" => Saga!IInv)
  <2> SUFFICES ASSUME Saga!Init PROVE Saga!IInv
    BY DEF MCInit
  <2>1. cancelled \in BOOLEAN /\ outcome \in [1..NSteps -> {"none", "ok", "failed"}]
    BY DEF Saga!Init, Saga!Steps
  <2> QED BY <2>1, FlowAssumption
          DEF Saga!Init, Saga!IInv, Saga!TypeOK, Saga!CrashInv, Saga!UndoneWasApplied,
              Saga!ForwardInv, Saga!BackwardInv, Saga!Forward, Saga!Backward, Saga!Returned,
              Saga!Steps
<1>2. (which = "saga" => Saga!IInv) /\ [MCNext]_allVars => (which = "saga" => Saga!IInv)'
  <2> SUFFICES ASSUME which = "saga" => Saga!IInv, [MCNext]_allVars, which' = "saga"
               PROVE  Saga!IInv'
    OBVIOUS
  <2>1. CASE Only("saga") /\ Saga!Next
    BY <2>1, SagaKeeps, OnlyWhich
  <2>2. CASE UNCHANGED allVars
    BY <2>2 DEF allVars, flow, Saga!IInv, Saga!TypeOK, Saga!CrashInv, Saga!UndoneWasApplied,
                Saga!ForwardInv, Saga!BackwardInv, Saga!Forward, Saga!Backward, Saga!Returned,
                Saga!Steps
  <2> QED BY <2>1, <2>2, OnlyWhich DEF MCNext
<1> QED BY <1>1, <1>2, PTL DEF MCSpec

\* The status that a saga returns is what its services have seen.
LEMMA SagaHonest == Saga!IInv => Saga!StatusIsHonest /\ Saga!UndoneWasApplied
<1> SUFFICES ASSUME Saga!IInv PROVE Saga!StatusIsHonest
  BY DEF Saga!IInv
<1> USE FlowAssumption DEF Saga!IInv, Saga!TypeOK, Saga!Steps, Saga!Returned
<1>1. ASSUME at = "returned", crashes = 0, status = "committed"
      PROVE  applied = 1..NSteps /\ undone = {}
  <2>1. /\ step = NSteps + 1
        /\ \A s \in 1..NSteps : (s < step => s \in applied) /\ s \notin undone
    BY <1>1 DEF Saga!ForwardInv, Saga!Forward
  <2>2. \A s \in 1..NSteps : s \in applied
    BY <2>1
  <2> QED BY <2>1, <2>2
<1>2. ASSUME at = "returned", crashes = 0, status # "committed"
      PROVE  /\ applied \subseteq 1..failed /\ undone \subseteq 1..failed - 1
             /\ \A s \in Compensable : s < failed => outcome[s] # "none"
             /\ status = "compensated" => \A s \in Compensable : s < failed => s \in undone
             /\ status = "compensation_failed" => \E s \in Compensable : outcome[s] = "failed"
  BY <1>2 DEF Saga!BackwardInv, Saga!Backward
<1> QED BY <1>1, <1>2 DEF Saga!StatusIsHonest

-----------------------------------------------------------------------------
(* TCC *)

\* One step of Execute, of the caller or of the trigger keeps the invariant.
LEMMA TccKeeps ==
    ASSUME Tcc!IInv, Tcc!Next
    PROVE  Tcc!IInv'
<1> USE FlowAssumption DEF Tcc!IInv, Tcc!TypeOK, Tcc!CrashInv, Tcc!Branches
<1>1. CASE Tcc!TryOk
  <2>1. Tcc!TypeOK' /\ Tcc!CrashInv'
    BY <1>1
       DEF Tcc!TryOk, Tcc!Froze, Tcc!TryInv, Tcc!ConfirmInv, Tcc!CancelInv, Tcc!Confirming,
           Tcc!Cancelling, Tcc!Returned
  <2>2. Tcc!TryInv'
    BY <1>1 DEF Tcc!TryOk, Tcc!Froze, Tcc!TryInv, Tcc!Confirming, Tcc!Cancelling, Tcc!Returned
  <2>3. Tcc!ConfirmInv'
    BY <1>1
       DEF Tcc!TryOk, Tcc!Froze, Tcc!TryInv, Tcc!ConfirmInv, Tcc!Confirming, Tcc!Cancelling,
           Tcc!Returned
  <2>4. Tcc!CancelInv'
    BY <1>1
       DEF Tcc!TryOk, Tcc!Froze, Tcc!TryInv, Tcc!CancelInv, Tcc!Confirming, Tcc!Cancelling,
           Tcc!Returned
  <2> QED BY <2>1, <2>2, <2>3, <2>4
<1>2. CASE Tcc!ContextDone
  <2>1. Tcc!TypeOK' /\ Tcc!CrashInv'
    BY <1>2
       DEF Tcc!ContextDone, Tcc!CancelAll, Tcc!TryInv, Tcc!ConfirmInv, Tcc!CancelInv,
           Tcc!Confirming, Tcc!Cancelling, Tcc!Returned
  <2>2. Tcc!TryInv'
    BY <1>2
       DEF Tcc!ContextDone, Tcc!CancelAll, Tcc!TryInv, Tcc!Confirming, Tcc!Cancelling,
           Tcc!Returned
  <2>3. Tcc!ConfirmInv'
    BY <1>2
       DEF Tcc!ContextDone, Tcc!CancelAll, Tcc!TryInv, Tcc!ConfirmInv, Tcc!Confirming,
           Tcc!Cancelling, Tcc!Returned
  <2>4. Tcc!CancelInv'
    BY <1>2
       DEF Tcc!ContextDone, Tcc!CancelAll, Tcc!TryInv, Tcc!CancelInv, Tcc!Confirming,
           Tcc!Cancelling, Tcc!Returned
  <2> QED BY <2>1, <2>2, <2>3, <2>4
<1>3. ASSUME NEW effect \in BOOLEAN, Tcc!TryFails(effect)
      PROVE  Tcc!IInv'
  <2>1. Tcc!TypeOK' /\ Tcc!CrashInv'
    BY <1>3
       DEF Tcc!TryFails, Tcc!CancelAll, Tcc!Froze, Tcc!TryInv, Tcc!ConfirmInv, Tcc!CancelInv,
           Tcc!Confirming, Tcc!Cancelling, Tcc!Returned
  <2>2. Tcc!TryInv'
    BY <1>3
       DEF Tcc!TryFails, Tcc!CancelAll, Tcc!Froze, Tcc!TryInv, Tcc!Confirming, Tcc!Cancelling,
           Tcc!Returned
  <2>3. Tcc!ConfirmInv'
    BY <1>3
       DEF Tcc!TryFails, Tcc!CancelAll, Tcc!Froze, Tcc!TryInv, Tcc!ConfirmInv, Tcc!Confirming,
           Tcc!Cancelling, Tcc!Returned
  <2>4. Tcc!CancelInv'
    BY <1>3
       DEF Tcc!TryFails, Tcc!CancelAll, Tcc!Froze, Tcc!TryInv, Tcc!CancelInv, Tcc!Confirming,
           Tcc!Cancelling, Tcc!Returned
  <2> QED BY <2>1, <2>2, <2>3, <2>4
<1>4. CASE Tcc!ConfirmAll
  <2>1. Tcc!TypeOK' /\ Tcc!CrashInv'
    BY <1>4
       DEF Tcc!ConfirmAll, Tcc!TryInv, Tcc!ConfirmInv, Tcc!CancelInv, Tcc!Confirming,
           Tcc!Cancelling, Tcc!Returned
  <2>2. Tcc!TryInv'
    BY <1>4 DEF Tcc!ConfirmAll, Tcc!TryInv, Tcc!Confirming, Tcc!Cancelling, Tcc!Returned
  <2>3. Tcc!ConfirmInv'
    BY <1>4
       DEF Tcc!ConfirmAll, Tcc!TryInv, Tcc!ConfirmInv, Tcc!Confirming, Tcc!Cancelling,
           Tcc!Returned
  <2>4. Tcc!CancelInv'
    BY <1>4
       DEF Tcc!ConfirmAll, Tcc!TryInv, Tcc!CancelInv, Tcc!Confirming, Tcc!Cancelling, Tcc!Returned
  <2> QED BY <2>1, <2>2, <2>3, <2>4
<1>5. ASSUME NEW effect \in BOOLEAN, NEW ok \in BOOLEAN, Tcc!Confirm(effect, ok)
      PROVE  Tcc!IInv'
  <2>1. Tcc!TypeOK' /\ Tcc!CrashInv'
    BY <1>5
       DEF Tcc!Confirm, Tcc!Attempt, Tcc!Confirmed, Tcc!TryInv, Tcc!ConfirmInv, Tcc!CancelInv,
           Tcc!Confirming, Tcc!Cancelling, Tcc!Returned
  <2>2. Tcc!TryInv'
    BY <1>5
       DEF Tcc!Confirm, Tcc!Attempt, Tcc!Confirmed, Tcc!TryInv, Tcc!Confirming, Tcc!Cancelling,
           Tcc!Returned
  <2>3. Tcc!ConfirmInv'
    BY <1>5
       DEF Tcc!Confirm, Tcc!Attempt, Tcc!Confirmed, Tcc!TryInv, Tcc!ConfirmInv, Tcc!Confirming,
           Tcc!Cancelling, Tcc!Returned
  <2>4. Tcc!CancelInv'
    BY <1>5
       DEF Tcc!Confirm, Tcc!Attempt, Tcc!Confirmed, Tcc!TryInv, Tcc!CancelInv, Tcc!Confirming,
           Tcc!Cancelling, Tcc!Returned
  <2> QED BY <2>1, <2>2, <2>3, <2>4
<1>6. ASSUME NEW effect \in BOOLEAN, NEW ok \in BOOLEAN, Tcc!Cancel(effect, ok)
      PROVE  Tcc!IInv'
  <2>1. Tcc!TypeOK' /\ Tcc!CrashInv'
    BY <1>6
       DEF Tcc!Cancel, Tcc!Attempt, Tcc!Released, Tcc!TryInv, Tcc!ConfirmInv, Tcc!CancelInv,
           Tcc!Confirming, Tcc!Cancelling, Tcc!Returned
  <2>2. Tcc!TryInv'
    BY <1>6
       DEF Tcc!Cancel, Tcc!Attempt, Tcc!Released, Tcc!TryInv, Tcc!Confirming, Tcc!Cancelling,
           Tcc!Returned
  <2>3. Tcc!ConfirmInv'
    BY <1>6
       DEF Tcc!Cancel, Tcc!Attempt, Tcc!Released, Tcc!TryInv, Tcc!ConfirmInv, Tcc!Confirming,
           Tcc!Cancelling, Tcc!Returned
  <2>4. Tcc!CancelInv'
    BY <1>6
       DEF Tcc!Cancel, Tcc!Attempt, Tcc!Released, Tcc!TryInv, Tcc!CancelInv, Tcc!Confirming,
           Tcc!Cancelling, Tcc!Returned
  <2> QED BY <2>1, <2>2, <2>3, <2>4
<1>7. CASE Tcc!Return
  <2>1. Tcc!TypeOK' /\ Tcc!CrashInv'
    BY <1>7
       DEF Tcc!Return, Tcc!TryInv, Tcc!ConfirmInv, Tcc!CancelInv, Tcc!Confirming, Tcc!Cancelling,
           Tcc!Returned
  <2>2. Tcc!TryInv'
    BY <1>7 DEF Tcc!Return, Tcc!TryInv, Tcc!Confirming, Tcc!Cancelling, Tcc!Returned
  <2>3. Tcc!ConfirmInv'
    BY <1>7
       DEF Tcc!Return, Tcc!TryInv, Tcc!ConfirmInv, Tcc!CancelInv, Tcc!Confirming, Tcc!Cancelling,
           Tcc!Returned
  <2>4. Tcc!CancelInv'
    BY <1>7
       DEF Tcc!Return, Tcc!TryInv, Tcc!ConfirmInv, Tcc!CancelInv, Tcc!Confirming, Tcc!Cancelling,
           Tcc!Returned
  <2> QED BY <2>1, <2>2, <2>3, <2>4
<1>8. CASE Tcc!CtxDone
  <2>1. Tcc!TypeOK' /\ Tcc!CrashInv'
    BY <1>8
       DEF Tcc!CtxDone, Tcc!TryInv, Tcc!ConfirmInv, Tcc!CancelInv, Tcc!Confirming, Tcc!Cancelling,
           Tcc!Returned
  <2>2. Tcc!TryInv'
    BY <1>8 DEF Tcc!CtxDone, Tcc!TryInv, Tcc!Confirming, Tcc!Cancelling, Tcc!Returned
  <2>3. Tcc!ConfirmInv'
    BY <1>8
       DEF Tcc!CtxDone, Tcc!TryInv, Tcc!ConfirmInv, Tcc!Confirming, Tcc!Cancelling, Tcc!Returned
  <2>4. Tcc!CancelInv'
    BY <1>8 DEF Tcc!CtxDone, Tcc!TryInv, Tcc!CancelInv, Tcc!Confirming, Tcc!Cancelling, Tcc!Returned
  <2> QED BY <2>1, <2>2, <2>3, <2>4
<1>9. CASE Tcc!Ack
  <2>1. Tcc!TypeOK' /\ Tcc!CrashInv'
    BY <1>9
       DEF Tcc!Ack, Tcc!TryInv, Tcc!ConfirmInv, Tcc!CancelInv, Tcc!Confirming, Tcc!Cancelling,
           Tcc!Returned
  <2>2. Tcc!TryInv'
    BY <1>9 DEF Tcc!Ack, Tcc!TryInv, Tcc!Confirming, Tcc!Cancelling, Tcc!Returned
  <2>3. Tcc!ConfirmInv'
    BY <1>9 DEF Tcc!Ack, Tcc!TryInv, Tcc!ConfirmInv, Tcc!Confirming, Tcc!Cancelling, Tcc!Returned
  <2>4. Tcc!CancelInv'
    BY <1>9 DEF Tcc!Ack, Tcc!TryInv, Tcc!CancelInv, Tcc!Confirming, Tcc!Cancelling, Tcc!Returned
  <2> QED BY <2>1, <2>2, <2>3, <2>4
<1>10. CASE Tcc!Crash
  <2>1. Tcc!TypeOK' /\ Tcc!CrashInv'
    BY <1>10
       DEF Tcc!Crash, Tcc!TryInv, Tcc!ConfirmInv, Tcc!CancelInv, Tcc!Confirming, Tcc!Cancelling,
           Tcc!Returned
  <2>2. Tcc!TryInv'
    BY <1>10 DEF Tcc!Crash, Tcc!TryInv, Tcc!Confirming, Tcc!Cancelling, Tcc!Returned
  <2>3. Tcc!ConfirmInv'
    BY <1>10 DEF Tcc!Crash, Tcc!TryInv, Tcc!ConfirmInv, Tcc!Confirming, Tcc!Cancelling, Tcc!Returned
  <2>4. Tcc!CancelInv'
    BY <1>10 DEF Tcc!Crash, Tcc!TryInv, Tcc!CancelInv, Tcc!Confirming, Tcc!Cancelling, Tcc!Returned
  <2> QED BY <2>1, <2>2, <2>3, <2>4
<1>11. CASE Tcc!Redeliver
  <2>0. cancelled' \in BOOLEAN /\ outcome' \in [1..NSteps -> {"none", "ok", "failed"}]
    BY <1>11 DEF Tcc!Redeliver
  <2>1. Tcc!TypeOK' /\ Tcc!CrashInv'
    BY <2>0, <1>11
       DEF Tcc!Redeliver, Tcc!TryInv, Tcc!ConfirmInv, Tcc!CancelInv, Tcc!Confirming,
           Tcc!Cancelling, Tcc!Returned
  <2>2. Tcc!TryInv'
    BY <1>11 DEF Tcc!Redeliver, Tcc!TryInv, Tcc!Confirming, Tcc!Cancelling, Tcc!Returned
  <2>3. Tcc!ConfirmInv'
    BY <1>11
       DEF Tcc!Redeliver, Tcc!TryInv, Tcc!ConfirmInv, Tcc!Confirming, Tcc!Cancelling, Tcc!Returned
  <2>4. Tcc!CancelInv'
    BY <1>11
       DEF Tcc!Redeliver, Tcc!TryInv, Tcc!CancelInv, Tcc!Confirming, Tcc!Cancelling, Tcc!Returned
  <2> QED BY <2>1, <2>2, <2>3, <2>4
<1> QED BY <1>1, <1>2, <1>3, <1>4, <1>5, <1>6, <1>7, <1>8, <1>9, <1>10, <1>11 DEF Tcc!Next, Tcc!Run

\* tcc.go:57-64 and 175-260: in every behaviour of a TCC, whatever fails, is
\* cancelled or crashes, the resources and the records are where Execute is.
THEOREM TccInvariant == MCSpec => [](which = "tcc" => Tcc!IInv)
<1>1. MCInit => (which = "tcc" => Tcc!IInv)
  <2> SUFFICES ASSUME Tcc!Init PROVE Tcc!IInv
    BY DEF MCInit
  <2>1. /\ cancelled \in BOOLEAN /\ outcome \in [1..NSteps -> {"none", "ok", "failed"}]
        /\ resource \in [1..NSteps -> {"free", "frozen", "confirmed", "released"}]
    BY DEF Tcc!Init, Tcc!Branches
  <2> QED BY <2>1, FlowAssumption
          DEF Tcc!Init, Tcc!IInv, Tcc!TypeOK, Tcc!CrashInv, Tcc!TryInv, Tcc!ConfirmInv,
              Tcc!CancelInv, Tcc!Confirming, Tcc!Cancelling, Tcc!Returned, Tcc!Branches
<1>2. (which = "tcc" => Tcc!IInv) /\ [MCNext]_allVars => (which = "tcc" => Tcc!IInv)'
  <2> SUFFICES ASSUME which = "tcc" => Tcc!IInv, [MCNext]_allVars, which' = "tcc"
               PROVE  Tcc!IInv'
    OBVIOUS
  <2>1. CASE Only("tcc") /\ Tcc!Next
    BY <2>1, TccKeeps, OnlyWhich
  <2>2. CASE UNCHANGED allVars
    BY <2>2
       DEF allVars, flow, Tcc!IInv, Tcc!TypeOK, Tcc!CrashInv, Tcc!TryInv, Tcc!ConfirmInv,
              Tcc!CancelInv, Tcc!Confirming, Tcc!Cancelling, Tcc!Returned, Tcc!Branches
  <2> QED BY <2>1, <2>2, OnlyWhich DEF MCNext
<1> QED BY <1>1, <1>2, PTL DEF MCSpec

\* The status that a TCC returns is what became of its resources.
LEMMA TccHonest == Tcc!IInv => Tcc!StatusIsHonest
<1> SUFFICES ASSUME Tcc!IInv, at = "returned", crashes = 0
             PROVE  Tcc!StatusIsHonest
  BY DEF Tcc!StatusIsHonest
<1> USE FlowAssumption DEF Tcc!IInv, Tcc!TypeOK, Tcc!Branches, Tcc!Returned
<1>1. CASE failed = 0
  BY <1>1 DEF Tcc!ConfirmInv, Tcc!Confirming, Tcc!StatusIsHonest
<1>2. CASE failed # 0
  BY <1>2 DEF Tcc!CancelInv, Tcc!Cancelling, Tcc!StatusIsHonest
<1> QED BY <1>1, <1>2

\* saga.go:65-72, tcc.go:57-64: the status that Execute returns is what really
\* happened in the services, and to the resources.
THEOREM StatusIsHonestThm == MCSpec => []StatusIsHonest
<1>1. (which = "saga" => Saga!IInv) /\ (which = "tcc" => Tcc!IInv) => StatusIsHonest
  BY SagaHonest, TccHonest DEF StatusIsHonest
<1> QED BY <1>1, SagaInvariant, TccInvariant, PTL

\* tcc.go:16-18: nothing is confirmed before every branch is reserved.
THEOREM TccConfirmNeedsAllThm == MCSpec => TccConfirmNeedsAll
<1>1. (which = "tcc" => Tcc!IInv) /\ [MCNext]_allVars =>
          [\A c \in Tcc!Branches :
              crashes = 0 /\ resource'[c] = "confirmed" /\ resource[c] # "confirmed" =>
                  \A d \in Tcc!Branches : resource[d] \in {"frozen", "confirmed"}]_(Tcc!vars)
  <2> SUFFICES ASSUME which = "tcc" => Tcc!IInv, [MCNext]_allVars, NEW c \in Tcc!Branches,
                      crashes = 0, resource'[c] = "confirmed", resource[c] # "confirmed"
               PROVE  \A d \in Tcc!Branches : resource[d] \in {"frozen", "confirmed"}
    OBVIOUS
  <2>1. Only("tcc") /\ Tcc!Next
    BY DEF MCNext, Only, allVars
  <2>2. which = "tcc" /\ Tcc!IInv
    BY <2>1, OnlyWhich
  <2>3. PICK effect \in BOOLEAN, ok \in BOOLEAN : Tcc!Confirm(effect, ok)
    BY <2>1, <2>2, FlowAssumption
       DEF Tcc!Next, Tcc!Run, Tcc!TryOk, Tcc!ContextDone, Tcc!TryFails, Tcc!CancelAll,
           Tcc!ConfirmAll, Tcc!Cancel, Tcc!Attempt, Tcc!Return, Tcc!CtxDone, Tcc!Ack, Tcc!Crash,
           Tcc!Redeliver, Tcc!Froze, Tcc!Released, Tcc!IInv, Tcc!TypeOK, Tcc!Branches
  <2> QED BY <2>2, <2>3 DEF Tcc!Confirm, Tcc!IInv, Tcc!ConfirmInv, Tcc!Confirming
<1> QED BY <1>1, TccInvariant, PTL DEF MCSpec, TccConfirmNeedsAll, Tcc!ConfirmNeedsAll

-----------------------------------------------------------------------------
(* The Store mode of idempotency *)

\* A call of the store, or the death of a process, keeps the invariant.
LEMMA StoreCallKeeps ==
    ASSUME Store!IInv, NEW c \in Callers, Store!DoStore(c) \/ Store!Own(c)
    PROVE  Store!IInv'
<1> USE StoreAssumption
    DEF Store!IInv, Store!TypeOK, Store!Owners, Store!Goto, Store!Answer, Store!Again,
        Store!Works, Store!Spoils, Store!Fails, Store!Call, Store!SetNX
<1>1. CASE Store!DoGet(c)
  <2>1. Store!TypeOK'
    BY <1>1 DEF Store!DoGet
  <2>2. Store!OwnerInv'
    BY <1>1 DEF Store!DoGet, Store!OwnerInv
  <2>3. Store!ResultInv'
    BY <1>1 DEF Store!DoGet, Store!OwnerInv, Store!ResultInv
  <2> QED BY <2>1, <2>2, <2>3
<1>2. CASE Store!DoFn(c)
  <2>1. Store!TypeOK'
    BY <1>2 DEF Store!DoFn
  <2>2. Store!OwnerInv'
    BY <1>2 DEF Store!DoFn, Store!OwnerInv
  <2>3. Store!ResultInv'
    BY <1>2 DEF Store!DoFn, Store!OwnerInv, Store!ResultInv
  <2> QED BY <2>1, <2>2, <2>3
<1>3. CASE Store!DoWrite(c)
  <2>1. Store!TypeOK'
    BY <1>3 DEF Store!DoWrite
  <2>2. Store!OwnerInv'
    BY <1>3 DEF Store!DoWrite, Store!OwnerInv
  <2>3. Store!ResultInv'
    BY <1>3 DEF Store!DoWrite, Store!OwnerInv, Store!ResultInv
  <2> QED BY <2>1, <2>2, <2>3
<1>4. CASE Store!DoReread(c)
  <2>1. Store!TypeOK'
    BY <1>4 DEF Store!DoReread
  <2>2. Store!OwnerInv'
    BY <1>4 DEF Store!DoReread, Store!OwnerInv
  <2>3. Store!ResultInv'
    BY <1>4 DEF Store!DoReread, Store!OwnerInv, Store!ResultInv
  <2> QED BY <2>1, <2>2, <2>3
<1>5. CASE Store!Acquire(c)
  <2>1. Store!TypeOK'
    BY <1>5 DEF Store!Acquire
  <2>2. Store!OwnerInv'
    BY <1>5 DEF Store!Acquire, Store!OwnerInv
  <2>3. Store!ResultInv'
    BY <1>5 DEF Store!Acquire, Store!OwnerInv, Store!ResultInv
  <2> QED BY <2>1, <2>2, <2>3
<1>6. CASE Store!AcquireGet(c)
  <2>1. Store!TypeOK'
    BY <1>6 DEF Store!AcquireGet
  <2>2. Store!OwnerInv'
    BY <1>6 DEF Store!AcquireGet, Store!OwnerInv
  <2>3. Store!ResultInv'
    BY <1>6 DEF Store!AcquireGet, Store!OwnerInv, Store!ResultInv
  <2> QED BY <2>1, <2>2, <2>3
<1>7. CASE Store!Commit(c)
  <2>1. Store!TypeOK'
    BY <1>7 DEF Store!Commit
  <2>2. Store!OwnerInv'
    BY <1>7 DEF Store!Commit, Store!OwnerInv
  <2>3. Store!ResultInv'
    BY <1>7 DEF Store!Commit, Store!OwnerInv, Store!ResultInv
  <2> QED BY <2>1, <2>2, <2>3
<1>8. CASE Store!Release(c)
  <2>1. Store!TypeOK'
    BY <1>8 DEF Store!Release
  <2>2. Store!OwnerInv'
    BY <1>8 DEF Store!Release, Store!OwnerInv
  <2>3. Store!ResultInv'
    BY <1>8 DEF Store!Release, Store!OwnerInv, Store!ResultInv
  <2> QED BY <2>1, <2>2, <2>3
<1>9. CASE Store!Crash(c)
  <2>1. Store!TypeOK'
    BY <1>9 DEF Store!Crash
  <2>2. Store!OwnerInv'
    BY <1>9 DEF Store!Crash, Store!OwnerInv
  <2>3. Store!ResultInv'
    BY <1>9 DEF Store!Crash, Store!OwnerInv, Store!ResultInv
  <2> QED BY <2>1, <2>2, <2>3
<1> QED BY <1>1, <1>2, <1>3, <1>4, <1>5, <1>6, <1>7, <1>8, <1>9 DEF Store!DoStore, Store!Own

\* idempotency.go:164-169, 348-351 and 460: the record is the placeholder of the
\* only owner, or what everybody was answered, until something spoils it.
THEOREM StoreInvariant == MCSpec => []Store!IInv
<1>1. MCInit => Store!IInv
  BY StoreAssumption
     DEF MCInit, Store!Init, Store!IInv, Store!TypeOK, Store!OwnerInv, Store!ResultInv,
         Store!Owners
<1>2. Store!IInv /\ [MCNext]_allVars => Store!IInv'
  <2> SUFFICES ASSUME Store!IInv, [MCNext]_allVars PROVE Store!IInv'
    OBVIOUS
  <2>1. CASE Store!Vanish
    BY <2>1, StoreAssumption
       DEF Store!Vanish, Store!Abandoned, Store!Works, Store!Spoils, Store!IInv, Store!TypeOK,
           Store!OwnerInv, Store!ResultInv, Store!Owners
  <2>2. CASE UNCHANGED store
    BY <2>2 DEF store, Store!IInv, Store!TypeOK, Store!OwnerInv, Store!ResultInv, Store!Owners
  <2>3. (Only("store") /\ Store!Next) \/ UNCHANGED store
    BY DEF MCNext, Only, allVars
  <2> QED BY <2>1, <2>2, <2>3, StoreCallKeeps DEF Store!Next
<1> QED BY <1>1, <1>2, PTL DEF MCSpec

\* Owners that are all the same are at most one.
LEMMA OwnerCount == Store!IInv => Store!OneOwner
<1> SUFFICES ASSUME Store!IInv, "owner" \notin spoiled
             PROVE  Store!Cardinality(Store!Owners) <= 1
  BY DEF Store!OneOwner
<1>1. \A S : Store!Cardinality(S) = Cardinality(S)
  BY DEF Cardinality, Store!Cardinality
<1>2. CASE Store!Owners = {}
  BY <1>1, <1>2, FS_EmptySet
<1>3. CASE \E c \in Store!Owners : Store!Owners = {c}
  BY <1>1, <1>3, FS_Singleton
<1> QED BY <1>2, <1>3 DEF Store!IInv, Store!OwnerInv

\* idempotency.go:164-169, 348-351 and 460: one owner of a key and one result,
\* unless the record vanished under them.
THEOREM StoreAgreesThm == MCSpec => []StoreAgrees
<1>1. Store!IInv => Store!SameResult
  BY DEF Store!IInv, Store!ResultInv, Store!SameResult
<1>2. Store!IInv => StoreAgrees
  BY <1>1, OwnerCount DEF StoreAgrees
<1> QED BY <1>2, StoreInvariant, PTL

-----------------------------------------------------------------------------
(* Txn *)

\* Every step of a Run keeps the invariant: it moves only the Run that holds
\* runMu, and one participant at a time.
LEMMA RunKeeps ==
    ASSUME IInv, NEW r \in Runs,
           \/ OnCommitEarly(r) \/ OnCommit(r) \/ Progress(r)
           \/ Panic(r) \/ HookRuns(r)
    PROVE  IInv'
<1> USE ConstantsAssumption DEF IInv, TypeOK, Parts, Inside, hooks
<1>1. CASE OnCommitEarly(r)
  <2>1. TypeOK'
    BY <1>1 DEF OnCommitEarly, RunInv
  <2>2. RunInv'
    BY <1>1 DEF OnCommitEarly, RunInv
  <2>3. OpenInv'
    BY <1>1 DEF OnCommitEarly, RunInv, OpenInv
  <2>4. DataInv'
    BY <1>1 DEF OnCommitEarly, RunInv, DataInv
  <2> QED BY <2>1, <2>2, <2>3, <2>4
<1>2. CASE Begin(r)
  <2>1. TypeOK'
    BY <1>2 DEF Begin, RunInv
  <2>2. RunInv'
    BY <1>2 DEF Begin, RunInv
  <2>3. OpenInv'
    BY <1>2 DEF Begin, RunInv, OpenInv
  <2>4. DataInv'
    BY <1>2 DEF Begin, RunInv, DataInv
  <2> QED BY <2>1, <2>2, <2>3, <2>4
<1>3. CASE PrepareOk(r)
  <2>1. TypeOK'
    BY <1>3 DEF PrepareOk, RunInv
  <2>2. RunInv'
    BY <1>3 DEF PrepareOk, RunInv
  <2>3. OpenInv'
    BY <1>3 DEF PrepareOk, RunInv, OpenInv
  <2>4. DataInv'
    BY <1>3 DEF PrepareOk, RunInv, DataInv
  <2> QED BY <2>1, <2>2, <2>3, <2>4
<1>4. CASE PrepareFails(r)
  <2>1. TypeOK'
    BY <1>4 DEF PrepareFails, Abort, RunInv
  <2>2. RunInv'
    BY <1>4 DEF PrepareFails, Abort, RunInv
  <2>3. OpenInv'
    BY <1>4 DEF PrepareFails, Abort, RunInv, OpenInv
  <2>4. DataInv'
    BY <1>4 DEF PrepareFails, Abort, RunInv, DataInv
  <2> QED BY <2>1, <2>2, <2>3, <2>4
<1>5. CASE OnCommit(r)
  <2>1. TypeOK'
    BY <1>5 DEF OnCommit, InBody, RunInv
  <2>2. RunInv'
    BY <1>5 DEF OnCommit, InBody, RunInv
  <2>3. OpenInv'
    BY <1>5 DEF OnCommit, InBody, RunInv, OpenInv
  <2>4. DataInv'
    BY <1>5 DEF OnCommit, InBody, RunInv, DataInv
  <2> QED BY <2>1, <2>2, <2>3, <2>4
<1>6. CASE BodyOk(r)
  <2>1. TypeOK'
    BY <1>6 DEF BodyOk, InBody, RunInv
  <2>2. RunInv'
    BY <1>6 DEF BodyOk, InBody, RunInv
  <2>3. OpenInv'
    BY <1>6 DEF BodyOk, InBody, RunInv, OpenInv
  <2>4. DataInv'
    BY <1>6 DEF BodyOk, InBody, RunInv, DataInv
  <2> QED BY <2>1, <2>2, <2>3, <2>4
<1>7. CASE BodyFails(r)
  <2>1. TypeOK'
    BY <1>7 DEF BodyFails, InBody, Abort, RunInv
  <2>2. RunInv'
    BY <1>7 DEF BodyFails, InBody, Abort, RunInv
  <2>3. OpenInv'
    BY <1>7 DEF BodyFails, InBody, Abort, RunInv, OpenInv
  <2>4. DataInv'
    BY <1>7 DEF BodyFails, InBody, Abort, RunInv, DataInv
  <2> QED BY <2>1, <2>2, <2>3, <2>4
<1>8. ASSUME NEW effect \in BOOLEAN, NEW err \in BOOLEAN, Commit(r, effect, err)
      PROVE  IInv'
  <2>1. TypeOK'
    BY <1>8 DEF Commit, RunInv
  <2>2. RunInv'
    BY <1>8 DEF Commit, RunInv
  <2>3. OpenInv'
    BY <1>8 DEF Commit, RunInv, OpenInv
  <2>4. DataInv'
    BY <1>8 DEF Commit, RunInv, DataInv
  <2> QED BY <2>1, <2>2, <2>3, <2>4
<1>9. CASE Rollback(r)
  <2>1. TypeOK'
    BY <1>9 DEF Rollback, RunInv
  <2>2. RunInv'
    BY <1>9 DEF Rollback, RunInv
  <2>3. OpenInv'
    BY <1>9 DEF Rollback, RunInv, OpenInv
  <2>4. DataInv'
    BY <1>9 DEF Rollback, RunInv, DataInv
  <2> QED BY <2>1, <2>2, <2>3, <2>4
<1>10. CASE DrainHooks(r)
  <2>1. TypeOK'
    <3>1. RunHooks(r, onCommit) \in [Runs -> Runs \cup {None}]
      BY DEF RunHooks
    <3>2. starter' \in [Runs -> Runs \cup {None}]
      BY <1>10, <3>1 DEF DrainHooks
    <3> QED BY <1>10, <3>2 DEF DrainHooks, RunInv
  <2>2. RunInv'
    BY <1>10 DEF DrainHooks, RunInv
  <2>3. OpenInv'
    BY <1>10 DEF DrainHooks, RunInv, OpenInv
  <2>4. DataInv'
    BY <1>10 DEF DrainHooks, RunInv, DataInv
  <2> QED BY <2>1, <2>2, <2>3, <2>4
<1>11. CASE Return(r)
  <2>1. TypeOK'
    BY <1>11 DEF Return, RunInv
  <2>2. RunInv'
    BY <1>11 DEF Return, RunInv
  <2>3. OpenInv'
    BY <1>11 DEF Return, RunInv, OpenInv
  <2>4. DataInv'
    BY <1>11 DEF Return, RunInv, DataInv
  <2> QED BY <2>1, <2>2, <2>3, <2>4
<1>12. CASE Panic(r)
  <2>1. TypeOK'
    BY <1>12 DEF Panic, RunInv
  <2>2. RunInv'
    BY <1>12 DEF Panic, RunInv
  <2>3. OpenInv'
    BY <1>12 DEF Panic, RunInv, OpenInv
  <2>4. DataInv'
    BY <1>12 DEF Panic, RunInv, DataInv
  <2> QED BY <2>1, <2>2, <2>3, <2>4
<1>13. CASE HookRuns(r)
  BY <1>13 DEF HookRuns, RunInv, OpenInv, DataInv
<1> QED BY <1>1, <1>2, <1>3, <1>4, <1>5, <1>6, <1>7, <1>8, <1>9, <1>10, <1>11, <1>12, <1>13 DEF Progress

\* Every step of a coordinator, panics and early hooks included.
LEMMA TxnKeeps ==
    ASSUME IInv, Next \/ UNCHANGED vars
    PROVE  IInv'
<1>1. CASE Enlist
  BY <1>1, ConstantsAssumption
     DEF Enlist, hooks, IInv, TypeOK, RunInv, OpenInv, DataInv, Parts
<1>2. CASE UNCHANGED vars
  BY <1>2 DEF vars, IInv, TypeOK, RunInv, OpenInv, DataInv, Parts
<1> QED BY <1>1, <1>2, RunKeeps DEF Next

\* A new coordinator has nothing enlisted and nothing open.
LEMMA TxnInit == Init => IInv
BY ConstantsAssumption DEF Init, IInv, TypeOK, RunInv, OpenInv, DataInv, Parts, Inside

\* What the behaviours of MCCoordination do to a coordinator.
LEMMA TxnSteps ==
    ASSUME [MCNext]_allVars
    PROVE  Next \/ UNCHANGED vars
BY DEF MCNext, Only, allVars

\* txn.go:43-155: what a Run has prepared, committed and rolled back is what its
\* position says, for any number of Runs and participants, with or without
\* panics.
THEOREM TxnInvariant == (Spec => []IInv) /\ (MCSpec => []IInv)
<1>1. IInv /\ [Next]_vars => IInv'
  BY TxnKeeps
<1>2. IInv /\ [MCNext]_allVars => IInv'
  BY TxnKeeps, TxnSteps
<1>3. MCInit => IInv
  BY TxnInit DEF MCInit
<1> QED BY <1>1, <1>2, <1>3, TxnInit, PTL DEF Spec, MCSpec

\* txn.go:25, 147: nil means that every participant committed, an abort that
\* none did, and a Run that returned left no participant prepared.
THEOREM AllOrNothingThm == (Spec => []AllOrNothing) /\ (MCSpec => []AllOrNothing)
<1>1. IInv => AllOrNothing
  BY DEF IInv, OpenInv, DataInv, AllOrNothing
<1> QED BY <1>1, TxnInvariant, PTL

\* saga.go:207 and 223, txn.go:108: a saga compensates a step after every later
\* completed one; and whoever else runs or panics, a transaction rolls its
\* participants back last first.
THEOREM ReverseOrderThm == MCSpec => ReverseOrder
<1>1. IInv /\ [MCNext]_allVars =>
          [\A r \in Runs, p \in Parts :
              pc[r] = "rollback" /\ open[p] = r /\ open'[p] = None =>
                  \A q \in Parts : q > p => open[q] # r]_vars
  <2> SUFFICES ASSUME IInv, [MCNext]_allVars, NEW r \in Runs, NEW p \in Parts,
                      pc[r] = "rollback", open[p] = r, open'[p] = None,
                      NEW q \in Parts, q > p
               PROVE  open[q] # r
    OBVIOUS
  <2> USE ConstantsAssumption DEF IInv, TypeOK, Parts
  <2>1. runMu = r /\ r # None
    BY DEF RunInv, Inside
  <2>2. Next
    BY <2>1, TxnSteps DEF vars
  <2>3. PICK s \in Runs : \/ PrepareOk(s) \/ Rollback(s)
                          \/ \E effect, err \in BOOLEAN : Commit(s, effect, err)
    BY <2>1, <2>2
       DEF Next, Progress, Enlist, OnCommitEarly,
           OnCommit, Begin, PrepareFails, BodyOk,
           BodyFails, Abort, DrainHooks, Return,
           Panic, HookRuns
  <2>4. s = r
    BY <2>1, <2>3 DEF RunInv, Inside, PrepareOk, Rollback, Commit
  <2>5. p = i
    BY <2>1, <2>3, <2>4 DEF PrepareOk, Rollback, Commit
  <2> QED BY <2>5 DEF OpenInv
<1>2. (which = "saga" => Saga!IInv) /\ [MCNext]_allVars =>
          [\A s \in undone' \ undone :
              \A r \in Compensable : s < r /\ r < failed => outcome[r] # "none"]_(Saga!vars)
  <2> SUFFICES ASSUME which = "saga" => Saga!IInv, [MCNext]_allVars,
                      NEW s \in undone' \ undone, NEW r \in Compensable, s < r, r < failed
               PROVE  outcome[r] # "none"
    OBVIOUS
  <2>1. Only("saga") /\ Saga!Next
    BY DEF MCNext, Only, allVars
  <2>2. which = "saga" /\ Saga!IInv
    BY <2>1, OnlyWhich
  <2>3. at = "compensate" /\ s = step
    BY <2>1 DEF Saga!Next, Saga!Run, Saga!ActionOk, Saga!ContextDone, Saga!ActionFails, Saga!Fail,
                Saga!Commit, Saga!Skip, Saga!Record, Saga!CompensateOk, Saga!CompensateFails,
                Saga!Return, Saga!Cancel, Saga!Ack, Saga!Crash, Saga!Redeliver
  <2> QED BY <2>2, <2>3, FlowAssumption
          DEF Saga!IInv, Saga!BackwardInv, Saga!Backward, Saga!Steps
<1> QED BY <1>1, <1>2, TxnInvariant, SagaInvariant, PTL
        DEF MCSpec, ReverseOrder, ReverseRollback, Saga!ReverseOrder

\* A hook leaves the list with the Run that commits, whoever registered it.
LEMMA HooksKeep ==
    ASSUME IInv, HookInv, [Next]_vars
    PROVE  HookInv'
<1> USE ConstantsAssumption DEF IInv, TypeOK, hooks, HookInv, Started
<1>1. CASE Enlist \/ UNCHANGED vars
  BY <1>1 DEF Enlist, vars
<1>2. ASSUME NEW r \in Runs, OnCommitEarly(r) \/ Panic(r)
      PROVE  HookInv'
  BY <1>2 DEF OnCommitEarly, Panic
<1>3. ASSUME NEW r \in Runs, OnCommit(r) \/ Progress(r) \/ HookRuns(r)
      PROVE  HookInv'
  <2>1. CASE Begin(r) \/ PrepareOk(r) \/ PrepareFails(r)
    BY <2>1 DEF Begin, PrepareOk, PrepareFails, Abort, RunInv
  <2>2. CASE OnCommit(r) \/ BodyOk(r) \/ BodyFails(r)
    BY <2>2 DEF OnCommit, BodyOk, BodyFails, Abort, InBody, RunInv
  <2>3. ASSUME NEW effect \in BOOLEAN, NEW err \in BOOLEAN, Commit(r, effect, err)
        PROVE  HookInv'
    BY <2>3 DEF Commit, RunInv
  <2>4. CASE Rollback(r) \/ HookRuns(r) \/ Return(r)
    BY <2>4 DEF Rollback, HookRuns, Return
  <2>5. CASE DrainHooks(r)
    <3>1. \A h \in onCommit : h = r \/ h \in early \/ pc[h] = "panicked"
      BY <2>5 DEF DrainHooks, RunInv, Inside
    <3>2. /\ \A h \in Runs : pc[h] = "panicked" => pc'[h] = "panicked"
          /\ \A h \in Runs : result[h] = "ok" => result'[h] = "ok"
          /\ onCommit' = {} /\ early' = early
          /\ result[r] = "none" => result'[r] = "ok" /\ starter' = RunHooks(r, onCommit)
          /\ result[r] # "none" => starter' = starter
      BY <2>5 DEF DrainHooks, RunInv, Inside
    <3>3. CASE result[r] # "none"
      BY <3>2, <3>3
    <3>4. CASE result[r] = "none"
      <4>1. \A h \in Runs : starter'[h] = IF h \in onCommit THEN r ELSE starter[h]
        BY <3>2, <3>4 DEF RunHooks
      <4> QED BY <3>1, <3>2, <3>4, <4>1
    <3> QED BY <3>3, <3>4
  <2> QED BY <1>3, <2>1, <2>2, <2>3, <2>4, <2>5 DEF Progress
<1> QED BY <1>1, <1>2, <1>3 DEF Next

\* txn.go:160-168 and 195-197: whether hooks are registered early or in the body, and
\* whoever panics, a hook is only started by a Run all of whose participants have
\* committed, and by another Run than its own only if it was registered before Run or
\* its own Run panicked.
THEOREM HooksFollowCommitThm ==
    (Spec => []HooksFollowCommit) /\ (MCSpec => [](which = "txn" => HooksFollowCommit))
<1>1. Init => HookInv
  BY DEF Init, HookInv, Started
<1>2. IInv /\ HookInv /\ [Next]_vars => HookInv'
  BY HooksKeep
<1>3. IInv /\ HookInv => HooksFollowCommit
  BY DEF IInv, TypeOK, DataInv, HookInv, HooksFollowCommit, Started, Committed
<1>4. IInv /\ (which = "txn" => HookInv) /\ [MCNext]_allVars => (which = "txn" => HookInv)'
  <2> SUFFICES ASSUME IInv, which = "txn" => HookInv, [MCNext]_allVars, which' = "txn"
               PROVE  HookInv'
    OBVIOUS
  <2>1. (Only("txn") /\ Next) \/ UNCHANGED allVars
    BY OnlyWhich DEF MCNext
  <2>2. which = "txn"
    BY <2>1, OnlyWhich DEF allVars
  <2>3. [Next]_vars
    BY <2>1 DEF allVars
  <2> QED BY <2>2, <2>3, HooksKeep
<1>5. MCInit => Init
  BY DEF MCInit
<1> QED BY <1>1, <1>2, <1>3, <1>4, <1>5, TxnInvariant, PTL DEF Spec, MCSpec

-----------------------------------------------------------------------------
(* Webhooks *)

\* The calls that deliver the event, those that gave up, and the replays.
Busy == Hook!Those(Runs, {"post", "failed", "taken", "delivered"})
Dead == Hook!Those(Runs, {"dead"})
Out  == Hook!Those(Loops, {"post", "failed", "delivered"})

\* A letter is counted once: the dead ones are those in the queue and the replayed.
LEMMA Letters ==
    /\ Hook!DeadLettersKept <=> Cardinality(Dead) = dlq + Cardinality(Out)
    /\ Hook!NotifiedOnce <=> Cardinality(Busy) <= 1
BY DEF Hook!DeadLettersKept, Hook!NotifiedOnce, Hook!Many, Dead, Out, Busy, Cardinality,
       Hook!Cardinality

\* What a step does to the two sets and to the queue keeps that count.
LEMMA LettersKept ==
    ASSUME Hook!TypeOK, Hook!DeadLettersKept, dlq' \in Nat,
           \/ Dead' = Dead /\ Out' = Out /\ dlq' = dlq
           \/ dlq > 0 /\ dlq' = dlq - 1 /\ Dead' = Dead /\ \E r \in Loops \ Out : Out' = Out \cup {r}
           \/ dlq' = dlq + 1 /\ Out' = Out /\ \E c \in Runs \ Dead : Dead' = Dead \cup {c}
           \/ dlq' = dlq + 1 /\ Dead' = Dead /\ \E r \in Out : Out' = Out \ {r}
    PROVE  Hook!DeadLettersKept'
<1>1. IsFiniteSet(Dead) /\ IsFiniteSet(Out)
  BY HookAssumption, FS_Subset DEF Dead, Out, Hook!Those
<1>2. /\ Cardinality(Dead) \in Nat /\ Cardinality(Out) \in Nat
      /\ \A r : r \notin Out => Cardinality(Out \cup {r}) = Cardinality(Out) + 1
      /\ \A c : c \notin Dead => Cardinality(Dead \cup {c}) = Cardinality(Dead) + 1
      /\ \A r \in Out : Cardinality(Out \ {r}) = Cardinality(Out) - 1
  BY <1>1, FS_CardinalityType, FS_AddElement, FS_RemoveElement
<1>3. Cardinality(Dead) = dlq + Cardinality(Out)
  BY Letters
<1>4. Cardinality(Dead') = dlq' + Cardinality(Out')
  BY <1>2, <1>3 DEF Hook!TypeOK
<1> QED BY <1>4
        DEF Hook!DeadLettersKept, Hook!Many, Dead, Out, Cardinality, Hook!Cardinality

\* One step of Notify, Replay or of a delivery keeps the invariant.
LEMMA HookKeeps ==
    ASSUME Hook!IInv, Hook!Next
    PROVE  Hook!IInv'
<1> USE HookAssumption
    DEF Hook!IInv, Hook!TypeOK, Hook!PostInv, Hook!Calls, Hook!Places, Hook!At, Hook!Goto
<1>m. Hook!MarkInv <=> (Busy # {} => marked) /\ \A c, d \in Busy : c = d
  BY DEF Hook!MarkInv, Busy
<1>n. Hook!MarkInv' <=> (Busy' # {} => marked') /\ \A c, d \in Busy' : c = d
  BY DEF Hook!MarkInv, Busy
<1>1. ASSUME NEW c \in Runs, Hook!Notify(c)
      PROVE  Hook!IInv'
  <2>1. Hook!TypeOK' /\ Hook!PostInv'
    BY <1>1 DEF Hook!Notify
  <2>2. Dead' = Dead /\ Out' = Out /\ dlq' = dlq
    BY <1>1 DEF Hook!Notify, Dead, Out, Hook!Those
  <2>3. marked' /\ Busy' = IF marked THEN Busy ELSE Busy \cup {c}
    BY <1>1 DEF Hook!Notify, Busy, Hook!Those
  <2> QED BY <2>1, <2>2, <2>3, <1>m, <1>n, LettersKept
<1>2. ASSUME NEW r \in Loops, Hook!Replay(r)
      PROVE  Hook!IInv'
  <2>1. Hook!TypeOK' /\ Hook!PostInv'
    BY <1>2 DEF Hook!Replay
  <2>2. Dead' = Dead /\ r \in Loops \ Out /\ Out' = Out \cup {r} /\ dlq > 0 /\ dlq' = dlq - 1
    BY <1>2 DEF Hook!Replay, Dead, Out, Hook!Those
  <2>3. marked' = marked /\ Busy' = Busy
    BY <1>2 DEF Hook!Replay, Busy, Hook!Those
  <2> QED BY <2>1, <2>2, <2>3, <1>m, <1>n, LettersKept
<1>3. ASSUME NEW c \in Runs \cup Loops, Hook!PostOk(c) \/ Hook!PostFails(c)
      PROVE  Hook!IInv'
  <2>1. Hook!TypeOK' /\ Hook!PostInv'
    BY <1>3 DEF Hook!PostOk, Hook!PostFails
  <2>2. Dead' = Dead /\ Out' = Out /\ dlq' = dlq
    BY <1>3 DEF Hook!PostOk, Hook!PostFails, Dead, Out, Hook!Those
  <2>3. marked' = marked /\ Busy' = Busy
    BY <1>3 DEF Hook!PostOk, Hook!PostFails, Busy, Hook!Those
  <2> QED BY <2>1, <2>2, <2>3, <1>m, <1>n, LettersKept
<1>4. ASSUME NEW c \in Runs, Hook!RecordDelivered(c) \/ Hook!RecordFailed(c)
      PROVE  Hook!IInv'
  <2>1. Hook!TypeOK' /\ Hook!PostInv'
    BY <1>4 DEF Hook!RecordDelivered, Hook!RecordFailed
  <2>2. Dead' = Dead /\ Out' = Out /\ dlq' = dlq
    BY <1>4 DEF Hook!RecordDelivered, Hook!RecordFailed, Dead, Out, Hook!Those
  <2>3. marked' = marked /\ Busy' = Busy
    BY <1>4 DEF Hook!RecordDelivered, Hook!RecordFailed, Busy, Hook!Those
  <2> QED BY <2>1, <2>2, <2>3, <1>m, <1>n, LettersKept
<1>5. ASSUME NEW c \in Runs, Hook!UnmarkDelivered(c)
      PROVE  Hook!IInv'
  <2>1. Hook!TypeOK' /\ Hook!PostInv'
    BY <1>5 DEF Hook!UnmarkDelivered
  <2>2. Dead' = Dead /\ Out' = Out /\ dlq' = dlq
    BY <1>5 DEF Hook!UnmarkDelivered, Dead, Out, Hook!Those
  <2>3. c \in Busy /\ Busy' = Busy \ {c}
    BY <1>5 DEF Hook!UnmarkDelivered, Busy, Hook!Those
  <2> QED BY <2>1, <2>2, <2>3, <1>m, <1>n, LettersKept
<1>6. ASSUME NEW c \in Runs \cup Loops, Hook!Push(c)
      PROVE  Hook!IInv'
  <2>1. Hook!TypeOK' /\ Hook!PostInv'
    BY <1>6 DEF Hook!Push
  <2>2. marked' = marked /\ Busy' = Busy /\ dlq' = dlq + 1
    BY <1>6 DEF Hook!Push, Busy, Hook!Those
  <2>3. CASE c \in Runs
    <3>1. Out' = Out /\ c \in Runs \ Dead /\ Dead' = Dead \cup {c}
      BY <1>6, <2>3 DEF Hook!Push, Dead, Out, Hook!Those
    <3> QED BY <2>1, <2>2, <3>1, <1>m, <1>n, LettersKept
  <2>4. CASE c \in Loops
    <3>1. Dead' = Dead /\ c \in Out /\ Out' = Out \ {c}
      BY <1>6, <2>4 DEF Hook!Push, Dead, Out, Hook!Those
    <3> QED BY <2>1, <2>2, <3>1, <1>m, <1>n, LettersKept
  <2> QED BY <2>3, <2>4
<1> QED BY <1>1, <1>2, <1>3, <1>4, <1>5, <1>6 DEF Hook!Next

\* webhook.go:140 and 172-202: whatever fails and is replayed, the mark belongs to the
\* Notify that delivers the event, and the letters add up.
THEOREM HookInvariant == MCSpec => []Hook!IInv
<1>1. MCInit => Hook!IInv
  <2> SUFFICES ASSUME Hook!Init PROVE Hook!IInv
    BY DEF MCInit
  <2>1. Dead = {} /\ Out = {} /\ Busy = {} /\ dlq = 0
    BY DEF Hook!Init, Dead, Out, Busy, Hook!Those, Hook!Calls
  <2>2. Hook!DeadLettersKept /\ Hook!MarkInv
    BY <2>1, Letters, FS_EmptySet DEF Hook!MarkInv, Busy
  <2>3. [at |-> "no", posts |-> 0] \in [at : Hook!Places, posts : 0..MaxPosts] /\ 0 < MaxPosts
    BY HookAssumption DEF Hook!Places
  <2>4. Hook!TypeOK /\ Hook!PostInv
    BY <2>3 DEF Hook!Init, Hook!TypeOK, Hook!PostInv
  <2> QED BY <2>2, <2>4 DEF Hook!IInv
<1>2. Hook!IInv /\ [MCNext]_allVars => Hook!IInv'
  <2> SUFFICES ASSUME Hook!IInv, [MCNext]_allVars PROVE Hook!IInv'
    OBVIOUS
  <2>1. Hook!Next \/ UNCHANGED webhook
    BY DEF MCNext, Only, allVars
  <2>2. CASE UNCHANGED webhook
    BY <2>2 DEF webhook, Hook!IInv, Hook!TypeOK, Hook!MarkInv, Hook!PostInv,
                Hook!DeadLettersKept, Hook!Many, Hook!Those, Hook!Calls
  <2> QED BY <2>1, <2>2, HookKeeps
<1> QED BY <1>1, <1>2, PTL DEF MCSpec

\* webhook.go:172 and 179: one Notify at most has delivered the event, or does.
LEMMA OneNotify == Hook!IInv => Hook!NotifiedOnce
<1> SUFFICES ASSUME Hook!IInv PROVE Cardinality(Busy) <= 1
  BY Letters
<1>1. CASE Busy = {}
  BY <1>1, FS_EmptySet
<1>2. ASSUME NEW c \in Busy PROVE Cardinality(Busy) <= 1
  <2>1. Busy = {c}
    BY <1>2 DEF Hook!IInv, Hook!MarkInv, Busy
  <2> QED BY <2>1, FS_Singleton
<1> QED BY <1>1, <1>2

-----------------------------------------------------------------------------
(* The discovery client *)

\* A change of the registry or another mishap uses up one of the bounded events.
LEMMA SpendKeeps ==
    ASSUME left \in 0..MaxEvents, Client!Spend PROVE left' \in 0..MaxEvents
BY ClientAssumption DEF Client!Spend

\* A call that returns, or goes on to its next attempt, has no node.
LEMMA AttemptEnds ==
    ASSUME Client!CallInv, NEW c \in Clients \cup Getters, NEW banned \in SUBSET Addrs,
           Client!Return(c) \/ Client!Fails(c, banned)
    PROVE  Client!CallInv'
<1> USE ClientAssumption DEF Client!CallInv, Client!Lists
<1>1. Client!NewCall \in Client!CallState /\ Client!NewCall.at = "start"
  BY DEF Client!NewCall, Client!CallState
<1>2. CASE Client!Return(c)
  <2>1. PICK new \in Client!CallState : new.at = "done" /\ calls' = [calls EXCEPT ![c] = new]
    BY <1>1, <1>2 DEF Client!Return, Client!CallState
  <2> QED BY <2>1 DEF Client!RetryElsewhere
<1>3. CASE ~Client!Return(c)
  <2>1. calls[c].try + 1 \in 0..Retries
    BY <1>3 DEF Client!Fails, Client!CallState
  <2>2. PICK new \in Client!CallState : new.at = "start" /\ calls' = [calls EXCEPT ![c] = new]
    BY <1>1, <1>3, <2>1 DEF Client!Fails, Client!CallState
  <2> QED BY <2>2 DEF Client!RetryElsewhere
<1> QED BY <1>2, <1>3

\* A call that has its connection goes on to invoke, or returns it.
LEMMA ConnectedKeeps ==
    ASSUME Client!CallInv, NEW c \in Clients \cup Getters, calls[c].at \in {"conn", "dial"},
           Client!Connected(c)
    PROVE  Client!CallInv'
<1>1. CASE c \in Getters
  BY <1>1, AttemptEnds DEF Client!Connected
<1>2. CASE c \notin Getters
  BY <1>2 DEF Client!Connected, Client!CallInv, Client!CallState, Client!Lists, Client!RetryElsewhere
<1> QED BY <1>1, <1>2

\* Start, the watch, the drains, the health check and Close leave the calls alone.
LEMMA ConnsKeep ==
    ASSUME Client!IInv,
           \/ Client!Change \/ Client!EndOnce \/ Client!Callback \/ Client!ApplyServiceUpdate
           \/ Client!HealthCheck \/ Client!Cancel \/ Client!Close
           \/ \E how \in {"start", "auto"} : Client!BeginOnce(how)
           \/ \E a \in Addrs : Client!Drained(a) \/ Client!Shut(a)
    PROVE  Client!IInv'
<1> USE ClientAssumption
    DEF Client!IInv, Client!TypeOK, Client!Lists, Client!ConnInv, Client!Conns
<1>0. CASE calls' = calls /\ Client!TypeOK' /\ Client!ConnInv'
  BY <1>0 DEF Client!CallInv, Client!RetryElsewhere
<1>1. CASE Client!Change \/ Client!Callback \/ Client!Cancel
  <2>a. left' \in 0..MaxEvents
    BY <1>1, SpendKeeps DEF Client!Change, Client!Callback, Client!Cancel
  <2>1. Client!TypeOK'
    <3>1. CASE Client!Change
      BY <2>a, <3>1 DEF Client!Change
    <3>2. CASE Client!Callback
      <4>1. feed' \in [news : BOOLEAN, ch : (SUBSET Addrs) \cup {None}]
        BY <3>2 DEF Client!Callback
      <4> QED BY <2>a, <3>2, <4>1 DEF Client!Callback
    <3>3. CASE Client!Cancel
      BY <2>a, <3>3 DEF Client!Cancel
    <3> QED BY <1>1, <3>1, <3>2, <3>3
  <2>2. client' = client /\ calls' = calls
    BY <1>1 DEF Client!Change, Client!Callback, Client!Cancel
  <2> QED BY <1>0, <2>1, <2>2 DEF Client!NoConnectionLost
<1>a. ASSUME NEW how \in {"start", "auto"}, Client!BeginOnce(how)
      PROVE  Client!IInv'
  <2>1. Client!TypeOK'
    BY <1>a DEF Client!BeginOnce, Client!Spend
  <2>2. client' = client /\ calls' = calls
    BY <1>a DEF Client!BeginOnce
  <2> QED BY <1>0, <2>1, <2>2 DEF Client!NoConnectionLost
<1>2. CASE Client!EndOnce
  BY <1>0, <1>2 DEF Client!EndOnce, Client!Refreshed, Client!NoConnectionLost
<1>3. CASE Client!ApplyServiceUpdate
  <2> DEFINE gone == client.conns \ feed.ch
  <2>1. feed.ch \in SUBSET Addrs
    BY <1>3 DEF Client!ApplyServiceUpdate
  <2>2. /\ client'.open = client.open
        /\ client'.conns = client.conns \ gone /\ client'.shut = client.shut \ gone
        /\ client'.draining =
               [a \in Addrs |-> client.draining[a] + IF a \in gone \ client.shut THEN 1 ELSE 0]
    BY <1>3 DEF Client!ApplyServiceUpdate
  <2>a. client'.draining \in [Addrs -> Nat]
    BY <2>2
  <2>3. client' \in Client!Conns
    BY <1>3, <2>1, <2>2, <2>a DEF Client!ApplyServiceUpdate
  <2>4. Client!NoConnectionLost'
    BY <2>2 DEF Client!NoConnectionLost
  <2>5. Client!TypeOK' /\ calls' = calls
    BY <1>3, <2>3 DEF Client!ApplyServiceUpdate
  <2> QED BY <1>0, <2>2, <2>3, <2>4, <2>5
<1>4. CASE Client!HealthCheck
  BY <1>0, <1>4 DEF Client!HealthCheck, Client!NoConnectionLost
<1>5. CASE Client!Close
  <2>1. /\ client'.conns = {} /\ client'.shut = {} /\ client'.draining = client.draining
        /\ client'.open = [a \in Addrs |-> client.open[a] -
                              IF a \in client.conns \ client.shut THEN 1 ELSE 0]
    BY <1>5 DEF Client!Close
  <2>2. Client!NoConnectionLost' /\ client'.open \in [Addrs -> Nat]
    BY <2>1 DEF Client!NoConnectionLost
  <2>3. client' \in Client!Conns
    BY <1>5, <2>1, <2>2 DEF Client!Close
  <2>4. Client!TypeOK' /\ calls' = calls
    BY <1>5, <2>3 DEF Client!Close
  <2> QED BY <1>0, <2>1, <2>2, <2>3, <2>4
<1>6. ASSUME NEW a \in Addrs, Client!Drained(a)
      PROVE  Client!IInv'
  <2>1. /\ client'.conns = client.conns /\ client'.shut = client.shut
        /\ client'.draining = [client.draining EXCEPT ![a] = @ - 1]
        /\ client'.open = [client.open EXCEPT ![a] = @ - 1]
    BY <1>6 DEF Client!Drained
  <2>2. /\ Client!NoConnectionLost'
        /\ client'.open \in [Addrs -> Nat] /\ client'.draining \in [Addrs -> Nat]
    <3>a. client.draining[a] \in Nat /\ client.open[a] \in Nat /\ client.draining[a] > 0
      BY <1>6 DEF Client!Drained
    <3>b. client.open[a] = client.draining[a] \/ client.open[a] = client.draining[a] + 1
      BY <3>a DEF Client!NoConnectionLost
    <3>1. client.draining[a] > 0 /\ client.draining[a] \in Nat /\ client.open[a] >= client.draining[a]
      BY <3>a, <3>b
    <3>2. client'.open \in [Addrs -> Nat] /\ client'.draining \in [Addrs -> Nat]
      BY <2>1, <3>1
    <3> QED BY <2>1, <3>1, <3>2 DEF Client!NoConnectionLost
  <2>3. client' \in Client!Conns
    BY <1>6, <2>1, <2>2 DEF Client!Drained
  <2>4. Client!TypeOK' /\ calls' = calls
    BY <1>6, <2>3 DEF Client!Drained
  <2> QED BY <1>0, <2>1, <2>2, <2>3, <2>4
<1>7. ASSUME NEW a \in Addrs, Client!Shut(a)
      PROVE  Client!IInv'
  <2>1. /\ client'.conns = client.conns /\ client'.shut = client.shut \cup {a}
        /\ client'.draining = client.draining /\ a \in client.conns \ client.shut
        /\ client'.open = [client.open EXCEPT ![a] = @ - 1]
    BY <1>7 DEF Client!Shut
  <2>2. Client!NoConnectionLost' /\ client'.open \in [Addrs -> Nat]
    BY <2>1 DEF Client!NoConnectionLost
  <2>3. client' \in Client!Conns
    BY <1>7, <2>1, <2>2 DEF Client!Shut
  <2>a. left' \in 0..MaxEvents
    BY <1>7, SpendKeeps DEF Client!Shut
  <2>4. Client!TypeOK' /\ calls' = calls
    BY <1>7, <2>3, <2>a DEF Client!Shut
  <2> QED BY <1>0, <2>1, <2>2, <2>3, <2>4
<1> QED BY <1>1, <1>a, <1>2, <1>3, <1>4, <1>5, <1>6, <1>7

\* Every step of a call keeps the invariant; one that dials adds a connection
\* where the map has none.
LEMMA CallKeeps ==
    ASSUME Client!IInv, NEW c \in Clients \cup Getters, Client!GiveUp(c) \/ Client!Progress(c)
    PROVE  Client!IInv'
<1> USE ClientAssumption
<1>0. Client!TypeOK /\ Client!ConnInv /\ Client!CallInv /\ calls[c] \in Client!CallState
  BY DEF Client!IInv, Client!CallInv
<1>a. ASSUME Client!CallInv', UNCHANGED <<members, client, once, feed, bg, stopping>>,
             left' \in 0..MaxEvents
      PROVE  Client!IInv'
  BY <1>0, <1>a
     DEF Client!IInv, Client!TypeOK, Client!ConnInv, Client!NoConnectionLost, Client!CallInv
<1>1. CASE Client!GiveUp(c)
  BY <1>0, <1>1, <1>a, AttemptEnds DEF Client!GiveUp, Client!TypeOK
<1>2. CASE Client!At(c, "start") /\ Client!BeginOnce("auto")
  BY <1>2, ConnsKeep
<1>3. CASE Client!Lookup(c)
  <2>1. left' \in 0..MaxEvents
    BY <1>0, <1>3 DEF Client!Lookup, Client!Spend, Client!TypeOK
  <2>2. CASE Client!Fails(c, calls[c].banned)
    BY <1>0, <1>3, <1>a, <2>1, <2>2, AttemptEnds DEF Client!Lookup, Client!CallState, Client!Lists
  <2>3. CASE ~Client!Fails(c, calls[c].banned)
    <3>1. Client!CallInv'
      BY <1>0, <1>3, <2>3
         DEF Client!Lookup, Client!CallInv, Client!CallState, Client!Lists, Client!TypeOK,
             Client!Conns, Client!RetryElsewhere
    <3> QED BY <1>3, <1>a, <2>1, <3>1 DEF Client!Lookup
  <2> QED BY <2>2, <2>3
<1>4. CASE Client!Refresh(c)
  <2>1. Client!CallInv'
    BY <1>0, <1>4
       DEF Client!Refresh, Client!Goto, Client!CallInv, Client!CallState, Client!RetryElsewhere
  <2>2. Client!ConnInv'
    BY <1>0, <1>4
       DEF Client!Refresh, Client!Refreshed, Client!ConnInv, Client!Conns, Client!CallState,
           Client!Lists, Client!NoConnectionLost
  <2> QED BY <1>0, <1>4, <2>1, <2>2
          DEF Client!Refresh, Client!IInv, Client!TypeOK, Client!ConnInv, Client!CallInv
<1>5. CASE Client!Reread(c)
  <2>1. CASE Client!Fails(c, calls[c].banned)
    BY <1>0, <1>5, <1>a, <2>1, AttemptEnds
       DEF Client!Reread, Client!CallState, Client!Lists, Client!TypeOK
  <2>2. CASE calls' = [calls EXCEPT ![c].at = "pick", ![c].list = client.services]
    <3>1. Client!CallInv'
      BY <1>0, <2>2
         DEF Client!CallInv, Client!CallState, Client!Lists, Client!TypeOK, Client!Conns,
             Client!RetryElsewhere
    <3> QED BY <1>0, <1>5, <1>a, <3>1 DEF Client!Reread, Client!TypeOK
  <2> QED BY <1>5, <2>1, <2>2 DEF Client!Reread
<1>6. CASE Client!SelectService(c)
  <2>1. CASE Client!Fails(c, calls[c].banned)
    BY <1>0, <1>6, <1>a, <2>1, AttemptEnds
       DEF Client!SelectService, Client!CallState, Client!Lists, Client!TypeOK
  <2>2. ASSUME NEW a \in Client!Candidates(calls[c]),
               calls' = [calls EXCEPT ![c].at = "conn", ![c].node = a]
        PROVE  Client!IInv'
    <3>1. a \in Addrs /\ (a \in calls[c].banned => calls[c].list \subseteq calls[c].banned)
      BY <1>0, <2>2 DEF Client!Candidates, Client!CallState, Client!Lists
    <3>2. Client!CallInv'
      BY <1>0, <2>2, <3>1 DEF Client!CallInv, Client!CallState, Client!RetryElsewhere
    <3> QED BY <1>0, <1>6, <1>a, <3>2 DEF Client!SelectService, Client!TypeOK
  <2> QED BY <1>6, <2>1, <2>2 DEF Client!SelectService
<1>7. CASE Client!GetConn(c)
  <2>1. CASE Client!Connected(c)
    BY <1>0, <1>7, <1>a, <2>1, ConnectedKeeps DEF Client!GetConn, Client!At, Client!TypeOK
  <2>2. CASE Client!Goto(c, "dial")
    <3>1. Client!CallInv'
      BY <1>0, <1>7, <2>2
         DEF Client!GetConn, Client!At, Client!Goto, Client!CallInv, Client!CallState,
             Client!RetryElsewhere
    <3> QED BY <1>0, <1>7, <1>a, <3>1 DEF Client!GetConn, Client!TypeOK
  <2> QED BY <1>7, <2>1, <2>2 DEF Client!GetConn
<1>8. CASE Client!CreateConn(c)
  <2>1. Client!CallInv'
    BY <1>0, <1>8, AttemptEnds, ConnectedKeeps
       DEF Client!CreateConn, Client!At, Client!CallState, Client!Lists
  <2>2. CASE client' = client
    BY <1>0, <1>8, <1>a, <2>1, <2>2 DEF Client!CreateConn, Client!TypeOK
  <2>3. CASE client' # client
    <3>1. PICK a \in Addrs : a = calls[c].node
      BY <1>0, <1>8 DEF Client!CreateConn, Client!At, Client!CallInv
    <3>a. /\ a \notin client.conns
          /\ client' = [client EXCEPT !.conns = @ \cup {a}, !.open[a] = @ + 1]
      BY <1>8, <2>3, <3>1 DEF Client!CreateConn
    <3>b. client \in Client!Conns
      BY <1>0 DEF Client!ConnInv
    <3>c. [client.open EXCEPT ![a] = @ + 1] \in [Addrs -> Nat]
      BY <3>1, <3>b DEF Client!Conns
    <3>2. /\ a \notin client.conns /\ client' \in Client!Conns
          /\ client'.conns = client.conns \cup {a} /\ client'.shut = client.shut
          /\ client'.open = [client.open EXCEPT ![a] = @ + 1]
          /\ client'.draining = client.draining
      BY <3>1, <3>a, <3>b, <3>c DEF Client!Conns, Client!Lists
    <3>3. Client!ConnInv'
      BY <1>0, <3>2 DEF Client!ConnInv, Client!Conns, Client!NoConnectionLost
    <3> QED BY <1>0, <1>8, <2>1, <3>3
            DEF Client!CreateConn, Client!IInv, Client!TypeOK, Client!ConnInv, Client!CallInv
  <2> QED BY <2>2, <2>3
<1>9. CASE Client!Invoke(c)
  <2>1. calls[c].banned \cup {calls[c].node} \in SUBSET Addrs
    BY <1>0, <1>9 DEF Client!Invoke, Client!At, Client!CallInv, Client!CallState, Client!Lists
  <2>2. Client!CallInv'
    BY <1>0, <1>9, <2>1, AttemptEnds DEF Client!Invoke
  <2> QED BY <1>0, <1>9, <1>a, <2>2 DEF Client!Invoke, Client!TypeOK
<1> QED BY <1>1, <1>2, <1>3, <1>4, <1>5, <1>6, <1>7, <1>8, <1>9 DEF Client!Progress

\* discovery.go:361, 595-638 and 695-787: however calls, updates and Close interleave,
\* the connections are accounted for and every attempt has its node.
THEOREM ClientInvariant == MCSpec => []Client!IInv
<1>1. MCInit => Client!IInv
  <2> SUFFICES ASSUME Client!Init PROVE Client!IInv
    BY DEF MCInit
  <2> USE ClientAssumption DEF Client!Init, Client!Lists
  <2>1. Client!ConnInv
    BY DEF Client!ConnInv, Client!Conns, Client!NoConnectionLost
  <2>2. Client!NewCall \in Client!CallState /\ Client!NewCall.at = "start"
    BY DEF Client!NewCall, Client!CallState
  <2>3. Client!CallInv
    BY <2>2 DEF Client!CallInv, Client!RetryElsewhere
  <2>4. once \in [at : {"no", "start", "auto", "done"}, found : SUBSET Addrs]
    OBVIOUS
  <2>5. feed \in [news : BOOLEAN, ch : (SUBSET Addrs) \cup {None}]
    <3>1. feed = [news |-> TRUE, ch |-> None]
      BY Zenon
    <3> HIDE DEF Client!Init
    <3> QED BY <3>1
  <2>6. members \in SUBSET Addrs /\ left \in 0..MaxEvents
    OBVIOUS
  <2>8. bg \in BOOLEAN
    BY Zenon
  <2>7. Client!TypeOK
    BY <2>1, <2>3, <2>4, <2>5, <2>6, <2>8 DEF Client!TypeOK, Client!ConnInv, Client!CallInv
  <2> QED BY <2>1, <2>3, <2>7 DEF Client!IInv
<1>2. Client!IInv /\ [MCNext]_allVars => Client!IInv'
  <2> SUFFICES ASSUME Client!IInv, [MCNext]_allVars PROVE Client!IInv'
    OBVIOUS
  <2>1. Client!Next \/ UNCHANGED discovery
    BY DEF MCNext, Only, allVars
  <2>2. CASE UNCHANGED discovery
    BY <2>2
       DEF discovery, Client!IInv, Client!TypeOK, Client!ConnInv, Client!CallInv,
           Client!NoConnectionLost, Client!RetryElsewhere
  <2> QED BY <2>1, <2>2, ConnsKeep, CallKeeps DEF Client!Next, Client!Drains
<1> QED BY <1>1, <1>2, PTL DEF MCSpec

-----------------------------------------------------------------------------
(* Handoff *)

\* An operation occurs in a concatenation where it occurs in a part.
LEMMA OccursConcat ==
    ASSUME NEW S, NEW s \in Seq(S), NEW t \in Seq(S), NEW o
    PROVE  /\ Migration!Never(s \o t, o) <=> Migration!Never(s, o) /\ Migration!Never(t, o)
           /\ Migration!Once(s \o t, o) <=> \/ Migration!Once(s, o) /\ Migration!Never(t, o)
                                            \/ Migration!Never(s, o) /\ Migration!Once(t, o)
<1> DEFINE u == s \o t
<1>0. /\ Len(s) \in Nat /\ Len(t) \in Nat
      /\ DOMAIN s = 1..Len(s) /\ DOMAIN t = 1..Len(t) /\ DOMAIN u = 1..Len(s) + Len(t)
  BY LenProperties, ConcatProperties
<1>1. /\ \A m \in DOMAIN s : m \in DOMAIN u /\ u[m] = s[m]
      /\ \A m \in DOMAIN t : Len(s) + m \in DOMAIN u /\ u[Len(s) + m] = t[m]
      /\ \A m \in DOMAIN u : m \in DOMAIN s \/ \E k \in DOMAIN t : m = Len(s) + k
  <2>1. ASSUME NEW m \in DOMAIN s PROVE m \in DOMAIN u /\ u[m] = s[m]
    BY <1>0, ConcatProperties
  <2>2. ASSUME NEW m \in DOMAIN t PROVE Len(s) + m \in DOMAIN u /\ u[Len(s) + m] = t[m]
    BY <1>0, ConcatProperties
  <2>3. ASSUME NEW m \in DOMAIN u PROVE m \in DOMAIN s \/ \E k \in DOMAIN t : m = Len(s) + k
    <3>1. CASE m <= Len(s)
      BY <1>0, <3>1
    <3>2. CASE m > Len(s)
      <4>1. m - Len(s) \in DOMAIN t /\ m = Len(s) + (m - Len(s))
        BY <1>0, <3>2
      <4> QED BY <4>1
    <3> QED BY <1>0, <3>1, <3>2
  <2> QED BY <2>1, <2>2, <2>3
<1> HIDE DEF u
<1>2. Migration!Never(u, o) <=> Migration!Never(s, o) /\ Migration!Never(t, o)
  BY <1>1 DEF Migration!Never
<1>3. ASSUME Migration!Once(s, o), Migration!Never(t, o)
      PROVE  Migration!Once(u, o)
  <2>1. PICK m \in DOMAIN s : \A j \in DOMAIN s : s[j] = o <=> j = m
    BY <1>3 DEF Migration!Once
  <2>2. ASSUME NEW j \in DOMAIN u PROVE u[j] = o <=> j = m
    BY <1>0, <1>1, <1>3, <2>1, <2>2 DEF Migration!Never
  <2> QED BY <1>1, <2>1, <2>2 DEF Migration!Once
<1>4. ASSUME Migration!Never(s, o), Migration!Once(t, o)
      PROVE  Migration!Once(u, o)
  <2>1. PICK m \in DOMAIN t : \A j \in DOMAIN t : t[j] = o <=> j = m
    BY <1>4 DEF Migration!Once
  <2>2. ASSUME NEW j \in DOMAIN u PROVE u[j] = o <=> j = Len(s) + m
    BY <1>0, <1>1, <1>4, <2>1, <2>2 DEF Migration!Never
  <2> QED BY <1>1, <2>1, <2>2 DEF Migration!Once
<1>5. ASSUME Migration!Once(u, o)
      PROVE  \/ Migration!Once(s, o) /\ Migration!Never(t, o)
             \/ Migration!Never(s, o) /\ Migration!Once(t, o)
  <2>1. PICK m \in DOMAIN u : \A j \in DOMAIN u : u[j] = o <=> j = m
    BY <1>5 DEF Migration!Once
  <2>2. CASE m \in DOMAIN s
    <3>1. Migration!Once(s, o)
      BY <1>1, <2>1, <2>2 DEF Migration!Once
    <3>2. Migration!Never(t, o)
      BY <1>0, <1>1, <2>1, <2>2 DEF Migration!Never
    <3> QED BY <3>1, <3>2
  <2>3. CASE m \notin DOMAIN s
    <3>1. PICK k \in DOMAIN t : m = Len(s) + k
      BY <1>1, <2>3
    <3>2. Migration!Never(s, o)
      BY <1>1, <2>1, <2>3 DEF Migration!Never
    <3>3. ASSUME NEW j \in DOMAIN t PROVE t[j] = o <=> j = k
      BY <1>0, <1>1, <2>1, <3>1
    <3> QED BY <3>2, <3>3 DEF Migration!Once
  <2> QED BY <2>2, <2>3
<1> QED BY <1>2, <1>3, <1>4, <1>5 DEF u

\* No operation occurs in the empty sequence, and one in a sequence of one.
LEMMA OccursSmall ==
    ASSUME NEW o, NEW p
    PROVE  /\ Migration!Never(<<>>, o) /\ ~Migration!Once(<<>>, o)
           /\ Migration!Once(<<o>>, o) /\ ~Migration!Never(<<o>>, o)
           /\ p # o => Migration!Never(<<p>>, o) /\ ~Migration!Once(<<p>>, o)
<1>1. \A q : DOMAIN <<q>> = {1} /\ <<q>>[1] = q
  OBVIOUS
<1>2. DOMAIN <<>> = {}
  OBVIOUS
<1>3. Migration!Never(<<>>, o) /\ ~Migration!Once(<<>>, o)
  BY <1>2 DEF Migration!Never, Migration!Once
<1>4. Migration!Once(<<o>>, o) /\ ~Migration!Never(<<o>>, o)
  BY <1>1 DEF Migration!Never, Migration!Once
<1>5. p # o => Migration!Never(<<p>>, o) /\ ~Migration!Once(<<p>>, o)
  BY <1>1 DEF Migration!Never, Migration!Once
<1> QED BY <1>3, <1>4, <1>5

\* What ends in t goes on to end in t and what is put after both.
LEMMA EndsConcat ==
    ASSUME NEW S, NEW s \in Seq(S), NEW t \in Seq(S), NEW u \in Seq(S), NEW n \in Nat
    PROVE  /\ Migration!Ends(s \o t, Len(s), t)
           /\ Migration!Ends(s, n, t) => Migration!Ends(s \o u, n, t \o u)
<1>0. /\ Len(s) \in Nat /\ Len(t) \in Nat /\ Len(u) \in Nat
      /\ DOMAIN t = 1..Len(t) /\ DOMAIN (t \o u) = 1..Len(t) + Len(u)
  BY LenProperties, ConcatProperties
<1>1. Migration!Ends(s \o t, Len(s), t)
  BY <1>0, ConcatProperties DEF Migration!Ends
<1>2. ASSUME Migration!Ends(s, n, t)
      PROVE  Migration!Ends(s \o u, n, t \o u)
  <2>a. Len(s \o u) = Len(s) + Len(u) /\ Len(t \o u) = Len(t) + Len(u)
    BY ConcatProperties
  <2>1. Len(s) = n + Len(t) /\ Len(s \o u) = n + Len(t \o u)
    BY <1>0, <1>2, <2>a DEF Migration!Ends
  <2>2. ASSUME NEW m \in DOMAIN (t \o u) PROVE (s \o u)[n + m] = (t \o u)[m]
    <3>1. CASE m <= Len(t)
      <4>1. n + m <= Len(s) /\ n + m \in 1..Len(s) + Len(u) /\ m \in 1..Len(t) + Len(u) /\ m \in DOMAIN t
        BY <1>0, <2>1, <3>1
      <4>2. (s \o u)[n + m] = s[n + m] /\ (t \o u)[m] = t[m]
        BY <3>1, <4>1, ConcatProperties
      <4> QED BY <1>2, <4>1, <4>2 DEF Migration!Ends
    <3>2. CASE ~(m <= Len(t))
      <4>1. /\ ~(n + m <= Len(s)) /\ n + m \in 1..Len(s) + Len(u) /\ m \in 1..Len(t) + Len(u)
            /\ (n + m) - Len(s) = m - Len(t)
        BY <1>0, <2>1, <3>2
      <4> QED BY <3>2, <4>1, ConcatProperties
    <3> QED BY <3>1, <3>2
  <2> QED BY <2>1, <2>2 DEF Migration!Ends
<1> QED BY <1>1, <1>2

\* Executing the next operation to replay moves it from one sequence to the other.
LEMMA MoveOver ==
    ASSUME NEW S, NEW s \in Seq(S), NEW t \in Seq(S), t # <<>>
    PROVE  Append(s, Head(t)) \in Seq(S) /\ Tail(t) \in Seq(S) /\ Append(s, Head(t)) \o Tail(t) = s \o t
<1>1. Head(t) \in S /\ Tail(t) \in Seq(S)
  BY HeadTailProperties
<1>2. Append(s, Head(t)) = s \o <<Head(t)>> /\ <<Head(t)>> \in Seq(S)
  BY <1>1, AppendIsConcat
<1>3. <<Head(t)>> \o Tail(t) = t
  BY <1>1
<1> QED BY <1>1, <1>2, <1>3, AppendProperties, ConcatAssociative

\* The fields of the records, and the sequences made of them.
LEMMA FieldsAreSeqs ==
    ASSUME Migration!TypeOK
    PROVE  /\ source.state \in Seq(Migration!Known) /\ source.buffer \in Seq(Migration!Known)
           /\ target.state \in Seq(Migration!Known) /\ target.replay \in Seq(Migration!Known)
           /\ bundle.state \in Seq(Migration!Known) /\ bundle.ops \in Seq(Migration!Known)
           /\ tail \in Seq(Migration!Known) /\ kept.ops \in Seq(Migration!Known)
           /\ target.base \in Nat
           /\ Migration!Line \in Seq(Migration!Known) /\ Migration!Entity \in Seq(Migration!Known)
           /\ Migration!Pending \in Seq(Migration!Known)
<1>1. /\ source.state \in Seq(Migration!Known) /\ source.buffer \in Seq(Migration!Known)
      /\ target.state \in Seq(Migration!Known) /\ target.replay \in Seq(Migration!Known)
      /\ bundle.state \in Seq(Migration!Known) /\ bundle.ops \in Seq(Migration!Known)
      /\ tail \in Seq(Migration!Known) /\ kept.ops \in Seq(Migration!Known)
      /\ target.base \in Nat
  <2>1. source.state \in Seq(Migration!Known) /\ source.buffer \in Seq(Migration!Known)
    BY DEF Migration!TypeOK
  <2>2. target.state \in Seq(Migration!Known) /\ target.replay \in Seq(Migration!Known) /\ target.base \in Nat
    BY DEF Migration!TypeOK
  <2>3. bundle.state \in Seq(Migration!Known) /\ bundle.ops \in Seq(Migration!Known)
    BY DEF Migration!TypeOK
  <2>4. tail \in Seq(Migration!Known) /\ kept.ops \in Seq(Migration!Known)
    BY DEF Migration!TypeOK
  <2> QED BY <2>1, <2>2, <2>3, <2>4
<1>2. Migration!Line \in Seq(Migration!Known)
  BY <1>1, ConcatProperties DEF Migration!Line
<1> QED BY <1>1, <1>2, ConcatProperties DEF Migration!Entity, Migration!Pending

\* What is known stays known when an operation arrives.
LEMMA MigrationTypes ==
    ASSUME Migration!TypeOK, Migration!Next
    PROVE  Migration!TypeOK'
<1> USE MigrationAssumption
<1> DEFINE Known == Migration!Known
<1>0. /\ source \in [phase : {"owned", "exporting", "released"}, state : Seq(Known), buffer : Seq(Known)]
      /\ target \in [phase : {"importing", "owned"}, got : BOOLEAN, state : Seq(Known),
                     base : Nat, replay : Seq(Known)]
      /\ bundle \in [state : Seq(Known), ops : Seq(Known), full : BOOLEAN]
      /\ tail \in Seq(Known)
      /\ kept \in [sent : BOOLEAN, ops : Seq(Known)]
      /\ local \subseteq Known /\ arrived \in 0..MaxOps /\ moves \in 0..MaxMoves /\ ack \in BOOLEAN
      /\ astray \in [ops : SUBSET Known, hasty : BOOLEAN]
  BY DEF Migration!TypeOK
<1>1. CASE Migration!Buffer
  <2>1. arrived' \in 0..MaxOps /\ arrived' \in Migration!Known' /\ Known \subseteq Migration!Known'
    BY <1>0, <1>1 DEF Migration!Buffer, Migration!Known
  <2>2. Seq(Known) \subseteq Seq(Migration!Known')
    BY <2>1, SeqMonotonic
  <2>3. Append(source.buffer, arrived') \in Seq(Migration!Known')
    BY <1>0, <2>1, <2>2, AppendProperties
  <2> HIDE DEF Known
  <2>4. source' \in [phase : {"owned", "exporting", "released"},
                     state : Seq(Migration!Known'), buffer : Seq(Migration!Known')]
    BY <1>0, <1>1, <2>2, <2>3 DEF Migration!Buffer
  <2>5. local' \subseteq Migration!Known' /\ astray' \in [ops : SUBSET Migration!Known', hasty : BOOLEAN]
    BY <1>0, <1>1, <2>1 DEF Migration!Buffer
  <2>6. /\ target' \in [phase : {"importing", "owned"}, got : BOOLEAN, state : Seq(Migration!Known'),
                        base : Nat, replay : Seq(Migration!Known')]
        /\ bundle' \in [state : Seq(Migration!Known'), ops : Seq(Migration!Known'), full : BOOLEAN]
        /\ tail' \in Seq(Migration!Known')
        /\ kept' \in [sent : BOOLEAN, ops : Seq(Migration!Known')]
    BY <1>0, <1>1, <2>2 DEF Migration!Buffer
  <2> QED BY <1>0, <1>1, <2>1, <2>4, <2>5, <2>6 DEF Migration!Buffer, Migration!TypeOK
<1>2. CASE ~Migration!Buffer
  <2>1. Migration!Known' = Known
    BY <1>2 DEF Migration!Next, Migration!Begin, Migration!Export, Migration!DrainBuffer,
         Migration!Release, Migration!Abort, Migration!Lose, Migration!Import, Migration!Receive,
         Migration!UpdateState, Migration!Accept, Migration!Execute, Migration!Known
  <2>2. <<>> \in Seq(Known) /\ Migration!Nothing \in [state : Seq(Known), ops : Seq(Known), full : BOOLEAN]
        /\ Migration!NotSent \in [sent : BOOLEAN, ops : Seq(Known)]
    BY EmptySeq DEF Migration!Nothing, Migration!NotSent
  <2>3. /\ \A s \in Seq(Known) : Migration!ToSet(s) \subseteq Known
        /\ \A s, t \in Seq(Known) : s \o t \in Seq(Known)
        /\ \A s \in Seq(Known), o \in Known : Append(s, o) \in Seq(Known)
        /\ \A s \in Seq(Known) : s # <<>> => Head(s) \in Known /\ Tail(s) \in Seq(Known)
    BY ConcatProperties, AppendProperties, HeadTailProperties, ElementOfSeq, LenProperties
       DEF Migration!ToSet
  <2>4. \A s \in Seq(Known) : Len(s) \in Nat
    BY LenProperties
  <2> HIDE DEF Known
  <2> USE <1>0, <2>1, <2>2, <2>3 DEF Migration!TypeOK
  <2>5. ASSUME NEW o \in Migration!Ops, Migration!Execute(o)
        PROVE  Migration!TypeOK'
    BY <2>5 DEF Migration!Execute
  <2>6. CASE Migration!Begin
    <3>1. moves' \in 0..MaxMoves
      BY <2>6 DEF Migration!Begin
    <3>2. source' \in [phase : {"owned", "exporting", "released"}, state : Seq(Known), buffer : Seq(Known)]
      BY <2>6 DEF Migration!Begin
    <3> QED BY <2>6, <3>1, <3>2 DEF Migration!Begin
  <2>7. CASE Migration!Export
    BY <2>7 DEF Migration!Export, Migration!Taken
  <2>8. CASE Migration!DrainBuffer
    BY <2>8 DEF Migration!DrainBuffer, Migration!Taken
  <2>9. CASE Migration!Release
    BY <2>9 DEF Migration!Release
  <2>10. CASE Migration!Abort
    BY <2>10 DEF Migration!Abort
  <2>11. CASE Migration!Lose
    BY <2>11 DEF Migration!Lose
  <2>12. CASE Migration!Import
    BY <2>4, <2>12 DEF Migration!Import
  <2>13. CASE Migration!Receive
    BY <2>13 DEF Migration!Receive
  <2>14. CASE Migration!UpdateState
    BY <2>14 DEF Migration!UpdateState
  <2>15. CASE Migration!Accept
    BY <2>15 DEF Migration!Accept
  <2> QED BY <1>2, <2>5, <2>6, <2>7, <2>8, <2>9, <2>10, <2>11, <2>12, <2>13, <2>14, <2>15
          DEF Migration!Next
<1> QED BY <1>1, <1>2

\* Who has the entity, after a step that is not a hasty Abort.
LEMMA HandsKeep ==
    ASSUME Migration!TypeOK, Migration!HandInv, Migration!Next, ~astray'.hasty
    PROVE  Migration!HandInv'
<1> USE DEF Migration!HandInv, Migration!TypeOK
<1>1. CASE Migration!Buffer
  BY <1>1 DEF Migration!Buffer
<1>2. CASE Migration!Begin
  BY <1>2 DEF Migration!Begin
<1>3. CASE Migration!Export
  BY <1>3 DEF Migration!Export, Migration!Taken
<1>6. CASE Migration!DrainBuffer
  BY <1>6 DEF Migration!DrainBuffer, Migration!Taken
<1>7. CASE Migration!Release
  BY <1>7 DEF Migration!Release
<1>8. CASE Migration!Abort
  BY <1>8 DEF Migration!Abort, Migration!NotSent
<1>9. CASE Migration!Lose
  BY <1>9 DEF Migration!Lose, Migration!Nothing
<1>10. CASE Migration!Import
  BY <1>10 DEF Migration!Import, Migration!Nothing
<1>4. CASE Migration!Receive \/ Migration!UpdateState \/ Migration!Accept
  BY <1>4 DEF Migration!Receive, Migration!UpdateState, Migration!Accept
<1>5. ASSUME NEW o, Migration!Execute(o)
      PROVE  Migration!HandInv'
  BY <1>5 DEF Migration!Execute
<1> QED BY <1>1, <1>2, <1>3, <1>4, <1>5, <1>6, <1>7, <1>8, <1>9, <1>10 DEF Migration!Next

\* A step that only moves operations along keeps the three parts.
LEMMA MovedAlong ==
    ASSUME Migration!CopyInv, Migration!OrderInv, Migration!OperationsSurvive,
           Migration!Line' = Migration!Line,
           source'.buffer = source.buffer, source'.state = source.state,
           UNCHANGED <<kept, arrived, local, astray>>,
           bundle'.full => UNCHANGED <<bundle, tail>>,
           target'.got => target.got /\ target'.base = target.base
    PROVE  Migration!CopyInv' /\ Migration!OrderInv' /\ Migration!OperationsSurvive'
<1>1. Migration!Known' = Migration!Known
  BY DEF Migration!Known
<1>2. Migration!CopyInv'
  <2>1. ASSUME bundle'.full
        PROVE  /\ kept'.ops = bundle'.ops \o tail'
               /\ \A o \in (Migration!Known \ astray.ops)' :
                     /\ Migration!Never(bundle.state, o)' <=> Migration!Never(source.state, o)'
                     /\ Migration!Once(bundle.state, o)' <=> Migration!Once(source.state, o)'
    <3>1. bundle' = bundle /\ tail' = tail
      BY <2>1
    <3> QED BY <1>1, <2>1, <3>1 DEF Migration!CopyInv, Migration!Never, Migration!Once
  <2>2. ASSUME target'.got
        PROVE  Migration!Ends(Migration!Line, target.base, kept.ops)'
    BY <2>2 DEF Migration!CopyInv, Migration!Ends
  <2> QED BY <2>1, <2>2 DEF Migration!CopyInv
<1>3. Migration!OrderInv'
  BY DEF Migration!OrderInv, Migration!Pending
<1>4. Migration!OperationsSurvive'
  BY <1>1 DEF Migration!OperationsSurvive, Migration!Entity, Migration!Never, Migration!Once
<1> QED BY <1>2, <1>3, <1>4

\* Begin, a lost bundle, and the steps of the target after Import.
LEMMA MovesAlong ==
    ASSUME Migration!TypeOK, Migration!HandInv, Migration!CopyInv, Migration!OrderInv,
           Migration!OperationsSurvive,
           \/ Migration!Begin \/ Migration!Lose
           \/ Migration!Receive \/ Migration!UpdateState \/ Migration!Accept
    PROVE  Migration!CopyInv' /\ Migration!OrderInv' /\ Migration!OperationsSurvive'
<1> DEFINE Known == Migration!Known
<1>0. /\ target.state \in Seq(Known) /\ target.replay \in Seq(Known) /\ tail \in Seq(Known)
  BY FieldsAreSeqs
<1>a. \A s \in Seq(Known), t \in Seq(Known), u \in Seq(Known) : (s \o t) \o u = s \o (t \o u)
  BY ConcatAssociative
<1>b. \A s \in Seq(Known), t \in Seq(Known) :
         t # <<>> => Append(s, Head(t)) \o Tail(t) = s \o t
  BY MoveOver
<1>1. CASE Migration!Begin
  <2>1. /\ source'.buffer = <<>> /\ source.buffer = <<>> /\ source'.state = source.state
        /\ UNCHANGED <<target, bundle, tail, kept, local, arrived, ack, astray>>
    BY <1>1 DEF Migration!Begin, Migration!TypeOK, Migration!HandInv
  <2>2. Migration!Line' = Migration!Line
    BY <2>1 DEF Migration!Line
  <2> QED BY <2>1, <2>2, MovedAlong
<1>2. CASE Migration!Lose
  <2>1. /\ ~bundle'.full
        /\ UNCHANGED <<source, target, tail, kept, local, arrived, moves, ack, astray>>
    BY <1>2 DEF Migration!Lose, Migration!Nothing
  <2>2. Migration!Line' = Migration!Line
    BY <2>1 DEF Migration!Line
  <2> QED BY <2>1, <2>2, MovedAlong
<1>3. CASE Migration!Receive
  <2>1. /\ target.got /\ ~bundle.full /\ tail' = <<>>
        /\ target'.got /\ target'.base = target.base /\ target'.state = target.state
        /\ target'.replay = target.replay \o tail
        /\ UNCHANGED <<source, bundle, kept, local, arrived, moves, ack, astray>>
    BY <1>3 DEF Migration!Receive, Migration!TypeOK, Migration!HandInv
  <2>2. (target.state \o (target.replay \o tail)) \o <<>> = (target.state \o target.replay) \o tail
    <3>1. target.state \o (target.replay \o tail) \in Seq(Known)
      BY <1>0, ConcatProperties, Zenon
    <3>2. (target.state \o (target.replay \o tail)) \o <<>> = target.state \o (target.replay \o tail)
      BY <3>1, ConcatEmptySeq, Zenon
    <3>3. (target.state \o target.replay) \o tail = target.state \o (target.replay \o tail)
      BY <1>0, <1>a, Zenon
    <3> QED BY <3>2, <3>3, Zenon
  <2>3. Migration!Line' = Migration!Line
    BY <2>1, <2>2 DEF Migration!Line
  <2> QED BY <2>1, <2>3, MovedAlong
<1>4. CASE Migration!UpdateState
  <2>1. /\ target.got /\ ~bundle.full
        /\ target'.got /\ target'.base = target.base
        /\ target'.state = Append(target.state, Head(target.replay))
        /\ target.replay # <<>> /\ target'.replay = Tail(target.replay)
        /\ UNCHANGED <<source, bundle, tail, kept, local, arrived, moves, ack, astray>>
    BY <1>4 DEF Migration!UpdateState, Migration!TypeOK, Migration!HandInv
  <2>2. target'.state \o target'.replay = target.state \o target.replay
    <3>1. Append(target.state, Head(target.replay)) \o Tail(target.replay) = target.state \o target.replay
      BY <1>0, <1>b, <2>1, Zenon
    <3> QED BY <2>1, <3>1, Zenon
  <2>3. Migration!Line' = Migration!Line
    BY <2>1, <2>2 DEF Migration!Line
  <2> QED BY <2>1, <2>3, MovedAlong
<1>5. CASE Migration!Accept
  <2>1. /\ target.got /\ target'.got /\ target'.base = target.base
        /\ target'.state = target.state /\ target'.replay = target.replay
        /\ UNCHANGED <<source, bundle, tail, kept, local, arrived, moves, astray>>
    BY <1>5 DEF Migration!Accept, Migration!TypeOK
  <2>2. Migration!Line' = Migration!Line
    BY <2>1 DEF Migration!Line
  <2> QED BY <2>1, <2>2, MovedAlong
<1> QED BY <1>1, <1>2, <1>3, <1>4, <1>5

\* Export and DrainBuffer pass the buffer on: nothing changes its place in line.
LEMMA PassesOn ==
    ASSUME Migration!TypeOK, Migration!HandInv, Migration!CopyInv, Migration!OrderInv,
           Migration!OperationsSurvive, Migration!Export \/ Migration!DrainBuffer
    PROVE  Migration!CopyInv' /\ Migration!OrderInv' /\ Migration!OperationsSurvive'
<1> DEFINE Known == Migration!Known
<1>0. /\ source.state \in Seq(Known) /\ source.buffer \in Seq(Known)
      /\ target.state \in Seq(Known) /\ target.replay \in Seq(Known) /\ tail \in Seq(Known)
      /\ kept.ops \in Seq(Known) /\ bundle.ops \in Seq(Known) /\ target.base \in Nat
      /\ Migration!Line \in Seq(Known)
  BY FieldsAreSeqs
<1>a. \A s \in Seq(Known), t \in Seq(Known), u \in Seq(Known) : (s \o t) \o u = s \o (t \o u)
  BY ConcatAssociative
<1>b. source.state \in Seq(Known) /\ kept.ops \in Seq(Known)
  BY <1>0
<1>c. source.buffer \in Seq(Known)
  BY <1>0
<1>d. tail \in Seq(Known)
  BY <1>0
<1>e. bundle.ops \in Seq(Known)
  BY <1>0
<1>1. /\ Migration!Known' = Known /\ UNCHANGED <<target, local, astray, arrived>>
      /\ source'.state = source.state /\ source'.buffer = <<>>
  BY DEF Migration!Export, Migration!DrainBuffer, Migration!Taken, Migration!Known, Migration!TypeOK
<1>2. kept'.ops = kept.ops \o source.buffer
  <2>1. CASE Migration!Export
    BY <1>0, <2>1, ConcatEmptySeq DEF Migration!Export, Migration!HandInv
  <2>2. CASE Migration!DrainBuffer
    BY <2>2 DEF Migration!DrainBuffer, Migration!TypeOK
  <2> QED BY <2>1, <2>2
<1>3. Migration!Line' = Migration!Line \o source.buffer
  <2>1. CASE Migration!Export
    <3>1. ~target.got
      BY <2>1 DEF Migration!Export, Migration!HandInv
    <3>2. (source.state \o kept.ops) \o source.buffer = source.state \o (kept.ops \o source.buffer)
      BY <1>a, <1>b, <1>c, Zenon
    <3> QED BY <1>1, <1>2, <3>1, <3>2 DEF Migration!Line
  <2>2. CASE Migration!DrainBuffer
    <3>1. tail' = tail \o source.buffer
      BY <2>2 DEF Migration!DrainBuffer
    <3>2. (target.state \o target.replay) \in Seq(Known)
      BY <1>0, ConcatProperties
    <3>3. ((target.state \o target.replay) \o tail) \o source.buffer
          = (target.state \o target.replay) \o (tail \o source.buffer)
      BY <1>a, <1>c, <1>d, <3>2, Zenon
    <3>4. (source.state \o kept.ops) \o source.buffer = source.state \o (kept.ops \o source.buffer)
      BY <1>a, <1>b, <1>c, Zenon
    <3> QED BY <1>1, <1>2, <3>1, <3>3, <3>4 DEF Migration!Line
  <2> QED BY <2>1, <2>2
<1>4. Migration!Entity' = Migration!Entity
  BY <1>0, <1>1, <1>3, ConcatProperties, ConcatEmptySeq DEF Migration!Entity
<1>5. Migration!Pending' = Migration!Pending
  BY <1>0, <1>1, <1>2, ConcatProperties, ConcatEmptySeq DEF Migration!Pending
<1>6. Migration!OperationsSurvive'
  BY <1>1, <1>4 DEF Migration!OperationsSurvive, Migration!Never, Migration!Once
<1>7. Migration!OrderInv'
  BY <1>5 DEF Migration!OrderInv
<1>8. ASSUME target'.got
      PROVE  Migration!Ends(Migration!Line, target.base, kept.ops)'
  <2>1. Migration!Ends(Migration!Line, target.base, kept.ops)
    BY <1>1, <1>8 DEF Migration!CopyInv
  <2>2. Migration!Ends(Migration!Line \o source.buffer, target.base, kept.ops \o source.buffer)
    BY <1>0, <2>1, EndsConcat
  <2> QED BY <1>1, <1>2, <1>3, <2>2 DEF Migration!Ends
<1>9. ASSUME bundle'.full
      PROVE  /\ kept'.ops = bundle'.ops \o tail'
             /\ \A o \in (Migration!Known \ astray.ops)' :
                   /\ Migration!Never(bundle.state, o)' <=> Migration!Never(source.state, o)'
                   /\ Migration!Once(bundle.state, o)' <=> Migration!Once(source.state, o)'
  <2>1. CASE Migration!Export
    <3>1. /\ bundle'.state = source.state /\ bundle'.ops = source.buffer /\ tail' = <<>>
          /\ kept'.ops = source.buffer
      BY <2>1 DEF Migration!Export, Migration!HandInv
    <3>2. source.buffer \o <<>> = source.buffer
      BY <1>0, ConcatEmptySeq
    <3> QED BY <1>1, <3>1, <3>2 DEF Migration!Never, Migration!Once
  <2>2. CASE Migration!DrainBuffer
    <3>1. bundle' = bundle /\ tail' = tail \o source.buffer /\ bundle.full
      BY <1>9, <2>2 DEF Migration!DrainBuffer
    <3>2. kept.ops = bundle.ops \o tail
      BY <3>1 DEF Migration!CopyInv
    <3>3. (bundle.ops \o tail) \o source.buffer = bundle.ops \o (tail \o source.buffer)
      BY <1>a, <1>c, <1>d, <1>e, Zenon
    <3>4. \A o \in Known \ astray.ops :
             /\ Migration!Never(bundle.state, o) <=> Migration!Never(source.state, o)
             /\ Migration!Once(bundle.state, o) <=> Migration!Once(source.state, o)
      BY <3>1 DEF Migration!CopyInv
    <3> QED BY <1>1, <1>2, <3>1, <3>2, <3>3, <3>4 DEF Migration!Never, Migration!Once
  <2> QED BY <2>1, <2>2
<1>10. Migration!CopyInv'
  BY <1>8, <1>9 DEF Migration!CopyInv
<1> QED BY <1>6, <1>7, <1>10

\* The same for three parts.
LEMMA OccursThree ==
    ASSUME NEW S, NEW s \in Seq(S), NEW t \in Seq(S), NEW u \in Seq(S), NEW o
    PROVE  /\ Migration!Never((s \o t) \o u, o)
                <=> Migration!Never(s, o) /\ Migration!Never(t, o) /\ Migration!Never(u, o)
           /\ Migration!Once((s \o t) \o u, o)
                <=> \/ Migration!Once(s, o) /\ Migration!Never(t, o) /\ Migration!Never(u, o)
                    \/ Migration!Never(s, o) /\ Migration!Once(t, o) /\ Migration!Never(u, o)
                    \/ Migration!Never(s, o) /\ Migration!Never(t, o) /\ Migration!Once(u, o)
<1>1. s \o t \in Seq(S)
  BY ConcatProperties
<1>2. /\ Migration!Never((s \o t) \o u, o) <=> Migration!Never(s \o t, o) /\ Migration!Never(u, o)
      /\ Migration!Once((s \o t) \o u, o) <=> \/ Migration!Once(s \o t, o) /\ Migration!Never(u, o)
                                              \/ Migration!Never(s \o t, o) /\ Migration!Once(u, o)
  BY <1>1, OccursConcat
<1>3. /\ Migration!Never(s \o t, o) <=> Migration!Never(s, o) /\ Migration!Never(t, o)
      /\ Migration!Once(s \o t, o) <=> \/ Migration!Once(s, o) /\ Migration!Never(t, o)
                                       \/ Migration!Never(s, o) /\ Migration!Once(t, o)
  BY OccursConcat
<1> QED BY <1>2, <1>3

\* An operation at the end of a sequence, and one that is new to it.
LEMMA OccursAppend ==
    ASSUME NEW S, NEW s \in Seq(S), NEW o \in S, NEW p
    PROVE  /\ Append(s, o) \in Seq(S)
           /\ p # o => /\ Migration!Never(Append(s, o), p) <=> Migration!Never(s, p)
                       /\ Migration!Once(Append(s, o), p) <=> Migration!Once(s, p)
           /\ Migration!Never(s, o) => Migration!Once(Append(s, o), o)
<1>1. Append(s, o) = s \o <<o>> /\ <<o>> \in Seq(S) /\ Append(s, o) \in Seq(S)
  BY AppendIsConcat, AppendProperties
<1>2. /\ Migration!Never(s \o <<o>>, p) <=> Migration!Never(s, p) /\ Migration!Never(<<o>>, p)
      /\ Migration!Once(s \o <<o>>, p) <=> \/ Migration!Once(s, p) /\ Migration!Never(<<o>>, p)
                                           \/ Migration!Never(s, p) /\ Migration!Once(<<o>>, p)
      /\ Migration!Never(s, o) /\ Migration!Once(<<o>>, o) => Migration!Once(s \o <<o>>, o)
  BY <1>1, OccursConcat
<1>3. p # o => Migration!Never(<<o>>, p) /\ ~Migration!Once(<<o>>, p)
  BY OccursSmall
<1>4. Migration!Once(<<o>>, o)
  BY OccursSmall
<1> QED BY <1>1, <1>2, <1>3, <1>4

\* What occurs nowhere or in one place, in terms of the set of the elements.
LEMMA OccursInSet ==
    ASSUME NEW S, NEW s \in Seq(S), NEW o
    PROVE  /\ Migration!Never(s, o) => ~Migration!Once(s, o)
           /\ Migration!Never(s, o) <=> o \notin Migration!ToSet(s)
           /\ o \notin S => Migration!Never(s, o)
<1>1. DOMAIN s = 1..Len(s) /\ \A m \in DOMAIN s : s[m] \in S
  BY ElementOfSeq, LenProperties
<1> QED BY <1>1 DEF Migration!Never, Migration!Once, Migration!ToSet

\* Import: the snapshot stands for the state, and the operations follow it.
LEMMA ImportKeeps ==
    ASSUME Migration!TypeOK, Migration!HandInv, Migration!CopyInv, Migration!OrderInv,
           Migration!OperationsSurvive, Migration!Import
    PROVE  Migration!CopyInv' /\ Migration!OrderInv' /\ Migration!OperationsSurvive'
<1> DEFINE Known == Migration!Known
<1>1. source.state \in Seq(Known) /\ bundle.state \in Seq(Known)
  BY FieldsAreSeqs
<1>2. kept.ops \in Seq(Known) /\ source.buffer \in Seq(Known)
  BY FieldsAreSeqs
<1>3. bundle.ops \in Seq(Known) /\ tail \in Seq(Known)
  BY FieldsAreSeqs
<1>4. /\ bundle.full /\ ~target.got /\ ~bundle'.full
      /\ target'.got /\ target'.state = bundle.state /\ target'.base = Len(bundle.state)
      /\ target'.replay = bundle.ops /\ kept.ops = bundle.ops \o tail
      /\ UNCHANGED <<source, tail, kept, local, arrived, astray>>
  BY DEF Migration!Import, Migration!HandInv, Migration!CopyInv, Migration!Nothing, Migration!TypeOK
<1>5. Migration!Line' = bundle.state \o kept.ops
  <2>1. \A s \in Seq(Known), t \in Seq(Known), u \in Seq(Known) : (s \o t) \o u = s \o (t \o u)
    BY ConcatAssociative
  <2>2. (bundle.state \o bundle.ops) \o tail = bundle.state \o (bundle.ops \o tail)
    BY <1>1, <1>3, <2>1, Zenon
  <2> QED BY <1>4, <2>2 DEF Migration!Line
<1>6. Migration!CopyInv'
  <2>1. \A s \in Seq(Known), t \in Seq(Known) : Migration!Ends(s \o t, Len(s), t)
    BY EndsConcat
  <2>2. Migration!Ends(bundle.state \o kept.ops, Len(bundle.state), kept.ops)
    BY <1>1, <1>2, <2>1, Zenon
  <2>3. Migration!Ends(Migration!Line, target.base, kept.ops)'
    BY <1>4, <1>5, <2>2 DEF Migration!Ends
  <2> QED BY <1>4, <2>3 DEF Migration!CopyInv
<1>7. Migration!OrderInv'
  BY <1>4 DEF Migration!OrderInv, Migration!Pending
<1>8. ASSUME NEW o \in Known \ astray.ops
      PROVE  /\ Migration!Never(Migration!Entity', o) <=> Migration!Never(Migration!Entity, o)
             /\ Migration!Once(Migration!Entity', o) <=> Migration!Once(Migration!Entity, o)
  <2>1. /\ Migration!Never(bundle.state, o) <=> Migration!Never(source.state, o)
        /\ Migration!Once(bundle.state, o) <=> Migration!Once(source.state, o)
    BY <1>4, <1>8 DEF Migration!CopyInv
  <2>2. \A s \in Seq(Known), t \in Seq(Known), u \in Seq(Known) :
           /\ Migration!Never((s \o t) \o u, o)
                <=> Migration!Never(s, o) /\ Migration!Never(t, o) /\ Migration!Never(u, o)
           /\ Migration!Once((s \o t) \o u, o)
                <=> \/ Migration!Once(s, o) /\ Migration!Never(t, o) /\ Migration!Never(u, o)
                    \/ Migration!Never(s, o) /\ Migration!Once(t, o) /\ Migration!Never(u, o)
                    \/ Migration!Never(s, o) /\ Migration!Never(t, o) /\ Migration!Once(u, o)
    BY OccursThree
  <2>3. /\ Migration!Entity = (source.state \o kept.ops) \o source.buffer
        /\ Migration!Entity' = (bundle.state \o kept.ops) \o source.buffer
    BY <1>4, <1>5 DEF Migration!Entity, Migration!Line
  <2> QED BY <1>1, <1>2, <2>1, <2>2, <2>3
<1>9. Migration!OperationsSurvive'
  <2> SUFFICES ASSUME ~astray'.hasty, NEW o \in (Migration!Known \ astray.ops)'
               PROVE  IF o \in local' THEN Migration!Never(Migration!Entity, o)'
                      ELSE Migration!Once(Migration!Entity, o)'
    BY DEF Migration!OperationsSurvive
  <2>1. o \in Known \ astray.ops /\ ~astray.hasty /\ local' = local
    BY <1>4 DEF Migration!Known
  <2>2. IF o \in local THEN Migration!Never(Migration!Entity, o) ELSE Migration!Once(Migration!Entity, o)
    BY <2>1 DEF Migration!OperationsSurvive
  <2> QED BY <1>8, <2>1, <2>2 DEF Migration!Never, Migration!Once
<1> QED BY <1>6, <1>7, <1>9

\* Release: what was still in the buffer is astray, the rest is with the target.
LEMMA ReleaseKeeps ==
    ASSUME Migration!TypeOK, Migration!HandInv, Migration!CopyInv, Migration!OrderInv,
           Migration!OperationsSurvive, Migration!Release
    PROVE  Migration!CopyInv' /\ Migration!OrderInv' /\ Migration!OperationsSurvive'
<1> DEFINE Known == Migration!Known
<1>1. Migration!Line \in Seq(Known) /\ source.buffer \in Seq(Known)
  BY FieldsAreSeqs
<1>2. kept.ops \in Seq(Known)
  BY FieldsAreSeqs
<1>3. /\ target.got /\ ~bundle.full /\ source'.buffer = <<>>
      /\ astray'.hasty = astray.hasty
      /\ astray'.ops = astray.ops \cup Migration!ToSet(source.buffer)
      /\ UNCHANGED <<target, bundle, tail, kept, local, arrived>>
  BY DEF Migration!Release, Migration!HandInv, Migration!TypeOK
<1>4. Migration!Line' = Migration!Line
  BY <1>3 DEF Migration!Line
<1>5. Migration!CopyInv'
  <2>1. Migration!Ends(Migration!Line, target.base, kept.ops)
    BY <1>3 DEF Migration!CopyInv
  <2>2. Migration!Ends(Migration!Line, target.base, kept.ops)'
    BY <1>3, <1>4, <2>1 DEF Migration!Ends
  <2> QED BY <1>3, <2>2 DEF Migration!CopyInv
<1>6. Migration!OrderInv'
  <2>1. Migration!Pending' = kept.ops
    BY <1>2, <1>3, ConcatEmptySeq DEF Migration!Pending
  <2>2. \A s \in Seq(Known), t \in Seq(Known) : \A m \in DOMAIN s :
           m \in DOMAIN (s \o t) /\ (s \o t)[m] = s[m] /\ \A n \in 1..m - 1 : n \in DOMAIN s
    <3> SUFFICES ASSUME NEW s \in Seq(Known), NEW t \in Seq(Known), NEW m \in DOMAIN s
                 PROVE  m \in DOMAIN (s \o t) /\ (s \o t)[m] = s[m] /\ \A n \in 1..m - 1 : n \in DOMAIN s
      OBVIOUS
    <3>1. /\ DOMAIN s = 1..Len(s) /\ DOMAIN (s \o t) = 1..Len(s) + Len(t)
          /\ Len(s) \in Nat /\ Len(t) \in Nat
      BY LenProperties, ConcatProperties
    <3> QED BY <3>1, ConcatProperties
  <2>3. \A m \in DOMAIN kept.ops :
           /\ m \in DOMAIN Migration!Pending /\ Migration!Pending[m] = kept.ops[m]
           /\ \A n \in 1..m - 1 : n \in DOMAIN kept.ops
    BY <1>1, <1>2, <2>2, Zenon DEF Migration!Pending
  <2> QED BY <2>1, <2>3 DEF Migration!OrderInv
<1>7. Migration!OperationsSurvive'
  <2> SUFFICES ASSUME ~astray'.hasty, NEW o \in (Migration!Known \ astray.ops)'
               PROVE  IF o \in local' THEN Migration!Never(Migration!Entity, o)'
                      ELSE Migration!Once(Migration!Entity, o)'
    BY DEF Migration!OperationsSurvive
  <2>1. /\ o \in Known \ astray.ops /\ ~astray.hasty /\ local' = local
        /\ o \notin Migration!ToSet(source.buffer)
    BY <1>3 DEF Migration!Known
  <2>2. IF o \in local THEN Migration!Never(Migration!Entity, o) ELSE Migration!Once(Migration!Entity, o)
    BY <2>1 DEF Migration!OperationsSurvive
  <2>3. Migration!Never(source.buffer, o) /\ ~Migration!Once(source.buffer, o)
    BY <1>1, <2>1, OccursInSet
  <2>4. /\ Migration!Never(Migration!Entity, o) <=> Migration!Never(Migration!Line, o)
        /\ Migration!Once(Migration!Entity, o) <=> Migration!Once(Migration!Line, o)
    BY <1>1, <2>3, OccursConcat DEF Migration!Entity
  <2>5. Migration!Entity' = Migration!Line
    BY <1>1, <1>3, <1>4, ConcatEmptySeq DEF Migration!Entity
  <2> QED BY <2>1, <2>2, <2>4, <2>5 DEF Migration!Never, Migration!Once
<1> QED BY <1>5, <1>6, <1>7

\* An Abort with no bundle about: what was taken or buffered is the caller's again.
LEMMA AbortKeeps ==
    ASSUME Migration!TypeOK, Migration!HandInv, Migration!CopyInv, Migration!OrderInv,
           Migration!OperationsSurvive, Migration!Abort, ~astray'.hasty
    PROVE  Migration!CopyInv' /\ Migration!OrderInv' /\ Migration!OperationsSurvive'
<1> DEFINE Known == Migration!Known
<1>1. source.state \in Seq(Known) /\ Migration!Pending \in Seq(Known)
  BY FieldsAreSeqs
<1>2. kept.ops \in Seq(Known) /\ source.buffer \in Seq(Known)
  BY FieldsAreSeqs
<1>3. /\ ~target.got /\ ~bundle.full /\ ~astray.hasty
      /\ source'.buffer = <<>> /\ source'.state = source.state /\ kept'.ops = <<>>
      /\ local' = local \cup Migration!ToSet(Migration!Pending)
      /\ astray'.ops = astray.ops /\ UNCHANGED <<target, bundle, arrived>>
  BY DEF Migration!Abort, Migration!NotSent, Migration!TypeOK, Migration!Pending
<1>4. Migration!Entity' = source.state
  BY <1>1, <1>3, ConcatEmptySeq DEF Migration!Entity, Migration!Line
<1>5. Migration!Entity = source.state \o Migration!Pending
  <2>1. \A s \in Seq(Known), t \in Seq(Known), u \in Seq(Known) : (s \o t) \o u = s \o (t \o u)
    BY ConcatAssociative
  <2>2. (source.state \o kept.ops) \o source.buffer = source.state \o (kept.ops \o source.buffer)
    BY <1>1, <1>2, <2>1, Zenon
  <2> QED BY <1>3, <2>2 DEF Migration!Entity, Migration!Line, Migration!Pending
<1>6. Migration!CopyInv'
  BY <1>3 DEF Migration!CopyInv
<1>7. Migration!OrderInv'
  <2>1. Migration!Pending' = <<>>
    BY <1>3 DEF Migration!Pending
  <2> QED BY <2>1 DEF Migration!OrderInv
<1>8. Migration!OperationsSurvive'
  <2> SUFFICES ASSUME NEW o \in (Migration!Known \ astray.ops)'
               PROVE  IF o \in local' THEN Migration!Never(Migration!Entity, o)'
                      ELSE Migration!Once(Migration!Entity, o)'
    BY DEF Migration!OperationsSurvive
  <2>1. o \in Known \ astray.ops
    BY <1>3 DEF Migration!Known
  <2>2. IF o \in local THEN Migration!Never(Migration!Entity, o) ELSE Migration!Once(Migration!Entity, o)
    BY <1>3, <2>1 DEF Migration!OperationsSurvive
  <2>3. /\ Migration!Never(Migration!Pending, o) <=> o \notin Migration!ToSet(Migration!Pending)
        /\ Migration!Never(Migration!Pending, o) => ~Migration!Once(Migration!Pending, o)
    BY <1>1, OccursInSet
  <2>4. /\ Migration!Never(Migration!Entity, o)
             <=> Migration!Never(source.state, o) /\ Migration!Never(Migration!Pending, o)
        /\ Migration!Once(Migration!Entity, o)
             <=> \/ Migration!Once(source.state, o) /\ Migration!Never(Migration!Pending, o)
                 \/ Migration!Never(source.state, o) /\ Migration!Once(Migration!Pending, o)
    BY <1>1, <1>5, OccursConcat
  <2>5. IF o \in local' THEN Migration!Never(source.state, o) ELSE Migration!Once(source.state, o)
    BY <1>3, <2>2, <2>3, <2>4
  <2> QED BY <1>4, <2>5 DEF Migration!Never, Migration!Once
<1> QED BY <1>6, <1>7, <1>8

\* Execute: the operation goes into the state, or astray if the snapshot has left.
LEMMA ExecuteKeeps ==
    ASSUME Migration!TypeOK, Migration!HandInv, Migration!CopyInv, Migration!OrderInv,
           Migration!OperationsSurvive, NEW p \in Migration!Ops, Migration!Execute(p)
    PROVE  Migration!CopyInv' /\ Migration!OrderInv' /\ Migration!OperationsSurvive'
<1> DEFINE Known == Migration!Known
           new == Append(source.state, p)
<1>1. source.state \in Seq(Known)
  BY FieldsAreSeqs
<1>2. kept.ops \in Seq(Known) /\ source.buffer \in Seq(Known)
  BY FieldsAreSeqs
<1>3. /\ p \in local /\ p \in Known /\ local' = local \ {p}
      /\ source'.state = new /\ source'.buffer = source.buffer
      /\ astray'.hasty = astray.hasty
      /\ astray'.ops = IF kept.sent THEN astray.ops \cup {p} ELSE astray.ops
      /\ UNCHANGED <<target, bundle, tail, kept, arrived>>
  BY DEF Migration!Execute, Migration!HandInv, Migration!TypeOK
<1>4. /\ new \in Seq(Known)
      /\ \A o : o # p => /\ Migration!Never(new, o) <=> Migration!Never(source.state, o)
                         /\ Migration!Once(new, o) <=> Migration!Once(source.state, o)
      /\ Migration!Never(source.state, p) => Migration!Once(new, p)
  BY <1>1, <1>3, OccursAppend
<1> HIDE DEF new
<1>5. \A o \in (Migration!Known \ astray.ops)' : o \in Known \ astray.ops /\ (kept.sent => o # p)
  BY <1>3 DEF Migration!Known
<1>6. Migration!CopyInv'
  <2>1. ASSUME bundle'.full
        PROVE  /\ kept'.ops = bundle'.ops \o tail'
               /\ \A o \in (Migration!Known \ astray.ops)' :
                     /\ Migration!Never(bundle.state, o)' <=> Migration!Never(source.state, o)'
                     /\ Migration!Once(bundle.state, o)' <=> Migration!Once(source.state, o)'
    <3>1. bundle.full /\ kept.sent /\ bundle' = bundle
      BY <1>3, <2>1 DEF Migration!HandInv
    <3>2. kept'.ops = bundle'.ops \o tail'
      BY <1>3, <3>1 DEF Migration!CopyInv
    <3>3. ASSUME NEW o \in (Migration!Known \ astray.ops)'
          PROVE  /\ Migration!Never(bundle.state, o) <=> Migration!Never(new, o)
                 /\ Migration!Once(bundle.state, o) <=> Migration!Once(new, o)
      BY <1>4, <1>5, <3>1, <3>3 DEF Migration!CopyInv
    <3> QED BY <1>3, <3>1, <3>2, <3>3 DEF Migration!Never, Migration!Once
  <2>2. ASSUME target'.got
        PROVE  Migration!Ends(Migration!Line, target.base, kept.ops)'
    <3>1. target.got /\ Migration!Line' = Migration!Line
      BY <1>3, <2>2 DEF Migration!Line
    <3> QED BY <1>3, <3>1 DEF Migration!CopyInv, Migration!Ends
  <2> QED BY <2>1, <2>2 DEF Migration!CopyInv
<1>7. Migration!OrderInv'
  BY <1>3 DEF Migration!OrderInv, Migration!Pending
<1>8. Migration!OperationsSurvive'
  <2> SUFFICES ASSUME ~astray'.hasty, NEW o \in (Migration!Known \ astray.ops)'
               PROVE  IF o \in local' THEN Migration!Never(Migration!Entity, o)'
                      ELSE Migration!Once(Migration!Entity, o)'
    BY DEF Migration!OperationsSurvive
  <2>1. /\ o \in Known \ astray.ops /\ (kept.sent => o # p) /\ ~astray.hasty
    BY <1>3, <1>5
  <2>2. IF o \in local THEN Migration!Never(Migration!Entity, o) ELSE Migration!Once(Migration!Entity, o)
    BY <2>1 DEF Migration!OperationsSurvive
  <2>3. CASE target.got
    <3>1. o # p
      BY <2>1, <2>3 DEF Migration!HandInv
    <3>2. Migration!Entity' = Migration!Entity
      BY <1>3, <2>3 DEF Migration!Entity, Migration!Line
    <3> QED BY <1>3, <2>2, <3>1, <3>2 DEF Migration!Never, Migration!Once
  <2>4. CASE ~target.got
    <3>1. /\ Migration!Entity = (source.state \o kept.ops) \o source.buffer
          /\ Migration!Entity' = (new \o kept.ops) \o source.buffer
      BY <1>3, <2>4 DEF Migration!Entity, Migration!Line
    <3>2. \A s \in Seq(Known), t \in Seq(Known), u \in Seq(Known) :
           /\ Migration!Never((s \o t) \o u, o)
                <=> Migration!Never(s, o) /\ Migration!Never(t, o) /\ Migration!Never(u, o)
           /\ Migration!Once((s \o t) \o u, o)
                <=> \/ Migration!Once(s, o) /\ Migration!Never(t, o) /\ Migration!Never(u, o)
                    \/ Migration!Never(s, o) /\ Migration!Once(t, o) /\ Migration!Never(u, o)
                    \/ Migration!Never(s, o) /\ Migration!Never(t, o) /\ Migration!Once(u, o)
      BY OccursThree
    <3>3. IF o \in local' THEN Migration!Never((new \o kept.ops) \o source.buffer, o)
          ELSE Migration!Once((new \o kept.ops) \o source.buffer, o)
      BY <1>1, <1>2, <1>3, <1>4, <2>2, <3>1, <3>2
    <3> QED BY <3>1, <3>3 DEF Migration!Never, Migration!Once
  <2> QED BY <2>3, <2>4
<1> QED BY <1>6, <1>7, <1>8

\* Buffer: an operation that arrives is in none of the sequences yet; it becomes the
\* caller's, joins the end of the line, or is refused.
LEMMA BufferKeeps ==
    ASSUME Migration!TypeOK, Migration!HandInv, Migration!CopyInv, Migration!OrderInv,
           Migration!OperationsSurvive, Migration!Buffer
    PROVE  Migration!CopyInv' /\ Migration!OrderInv' /\ Migration!OperationsSurvive'
<1> DEFINE Known == Migration!Known
           new == arrived'
<1>0. Migration!Entity \in Seq(Known) /\ Migration!Pending \in Seq(Known)
  BY FieldsAreSeqs
<1>1. source.state \in Seq(Known) /\ bundle.state \in Seq(Known)
  BY FieldsAreSeqs
<1>2. Migration!Line \in Seq(Known) /\ source.buffer \in Seq(Known)
  BY FieldsAreSeqs
<1>b. kept.ops \in Seq(Known)
  BY FieldsAreSeqs
<1>3. /\ new \notin Known /\ Migration!Known' = Known \cup {new} /\ local \subseteq Known
      /\ \A o \in Known : o < new
  BY DEF Migration!Buffer, Migration!TypeOK, Migration!Known
<1>4. /\ source'.state = source.state /\ astray'.hasty = astray.hasty
      /\ UNCHANGED <<target, bundle, tail, kept>>
      /\ \/ source' = source /\ local' = local \cup {new} /\ astray' = astray
         \/ source'.buffer = Append(source.buffer, new) /\ local' = local /\ astray' = astray
         \/ source' = source /\ local' = local /\ astray'.ops = astray.ops \cup {new}
  BY DEF Migration!Buffer, Migration!TypeOK
<1>5. \A s \in Seq(Known) : Migration!Never(s, new) /\ ~Migration!Once(s, new)
  BY <1>3, OccursInSet
<1>6. Migration!Line' = Migration!Line
  BY <1>4 DEF Migration!Line
<1>7. source'.buffer = Append(source.buffer, new) =>
          Migration!Entity' = Append(Migration!Entity, new) /\ Migration!Pending' = Append(Migration!Pending, new)
  <2>1. \A s \in Seq(Known), t \in Seq(Known) : s \o Append(t, new) = Append(s \o t, new)
    <3> SUFFICES ASSUME NEW s \in Seq(Known), NEW t \in Seq(Known)
                 PROVE  s \o Append(t, new) = Append(s \o t, new)
      OBVIOUS
    <3> DEFINE All == Known \cup {new}
    <3>1. s \in Seq(All) /\ t \in Seq(All) /\ <<new>> \in Seq(All) /\ new \in All /\ s \o t \in Seq(All)
      <4>1. Seq(Known) \subseteq Seq(All)
        BY SeqMonotonic
      <4> QED BY <4>1, ConcatProperties
    <3> HIDE DEF All, new
    <3>2. Append(t, new) = t \o <<new>>
      BY <3>1, AppendIsConcat
    <3>3. Append(s \o t, new) = (s \o t) \o <<new>>
      BY <3>1, AppendIsConcat
    <3>4. (s \o t) \o <<new>> = s \o (t \o <<new>>)
      BY <3>1, ConcatAssociative
    <3> QED BY <3>2, <3>3, <3>4
  <2> HIDE DEF new
  <2>2. Migration!Line \o Append(source.buffer, new) = Append(Migration!Line \o source.buffer, new)
    BY <1>2, <2>1, Zenon
  <2>3. kept.ops \o Append(source.buffer, new) = Append(kept.ops \o source.buffer, new)
    BY <1>2, <1>b, <2>1, Zenon
  <2> QED BY <1>4, <1>6, <2>2, <2>3 DEF Migration!Entity, Migration!Pending
<1>8. source' = source => Migration!Entity' = Migration!Entity /\ Migration!Pending' = Migration!Pending
  BY <1>4, <1>6 DEF Migration!Entity, Migration!Pending
<1>9. Migration!CopyInv'
  <2>1. ASSUME bundle'.full
        PROVE  /\ kept'.ops = bundle'.ops \o tail'
               /\ \A o \in (Migration!Known \ astray.ops)' :
                     /\ Migration!Never(bundle.state, o)' <=> Migration!Never(source.state, o)'
                     /\ Migration!Once(bundle.state, o)' <=> Migration!Once(source.state, o)'
    <3>1. bundle' = bundle /\ bundle.full
      BY <1>4, <2>1
    <3>2. kept'.ops = bundle'.ops \o tail'
      BY <1>4, <3>1 DEF Migration!CopyInv
    <3>3. ASSUME NEW o \in (Migration!Known \ astray.ops)'
          PROVE  /\ Migration!Never(bundle.state, o) <=> Migration!Never(source.state, o)
                 /\ Migration!Once(bundle.state, o) <=> Migration!Once(source.state, o)
      <4>1. CASE o = new
        BY <1>1, <1>5, <4>1
      <4>2. CASE o # new
        <5>1. o \in Known \ astray.ops
          BY <1>3, <1>4, <3>3, <4>2
        <5> QED BY <3>1, <5>1 DEF Migration!CopyInv
      <4> QED BY <4>1, <4>2
    <3> QED BY <1>4, <3>1, <3>2, <3>3 DEF Migration!Never, Migration!Once
  <2>2. ASSUME target'.got
        PROVE  Migration!Ends(Migration!Line, target.base, kept.ops)'
    <3>1. target.got
      BY <1>4, <2>2
    <3> QED BY <1>4, <1>6, <3>1 DEF Migration!CopyInv, Migration!Ends
  <2> QED BY <2>1, <2>2 DEF Migration!CopyInv
<1>10. Migration!OrderInv'
  <2>1. CASE source' = source
    BY <1>8, <2>1 DEF Migration!OrderInv
  <2>2. CASE source'.buffer = Append(source.buffer, new)
    <3>1. /\ Len(Migration!Pending) \in Nat /\ DOMAIN Migration!Pending = 1..Len(Migration!Pending)
          /\ \A m \in DOMAIN Migration!Pending : Migration!Pending[m] < new
      BY <1>0, <1>3, LenProperties, ElementOfSeq
    <3>2. /\ DOMAIN Append(Migration!Pending, new) = 1..Len(Migration!Pending) + 1
          /\ \A m \in 1..Len(Migration!Pending) : Append(Migration!Pending, new)[m] = Migration!Pending[m]
          /\ Append(Migration!Pending, new)[Len(Migration!Pending) + 1] = new
      BY <1>0
    <3>3. ASSUME NEW k \in 1..Len(Migration!Pending) + 1, NEW m \in 1..k - 1
          PROVE  Append(Migration!Pending, new)[m] < Append(Migration!Pending, new)[k]
      <4>1. m \in 1..Len(Migration!Pending)
        BY <3>1
      <4>2. CASE k = Len(Migration!Pending) + 1
        BY <3>1, <3>2, <4>1, <4>2
      <4>3. CASE k # Len(Migration!Pending) + 1
        <5>1. k \in 1..Len(Migration!Pending)
          BY <3>1, <4>3
        <5>2. Migration!Pending[m] < Migration!Pending[k]
          BY <3>1, <5>1 DEF Migration!OrderInv
        <5> QED BY <3>2, <4>1, <5>1, <5>2
      <4> QED BY <4>2, <4>3
    <3> QED BY <1>7, <2>2, <3>2, <3>3 DEF Migration!OrderInv
  <2> QED BY <1>4, <2>1, <2>2
<1>11. Migration!OperationsSurvive'
  <2> SUFFICES ASSUME ~astray'.hasty, NEW o \in (Migration!Known \ astray.ops)'
               PROVE  IF o \in local' THEN Migration!Never(Migration!Entity, o)'
                      ELSE Migration!Once(Migration!Entity, o)'
    BY DEF Migration!OperationsSurvive
  <2>1. ASSUME o # new
        PROVE  IF o \in local THEN Migration!Never(Migration!Entity, o) ELSE Migration!Once(Migration!Entity, o)
    <3>1. o \in Known \ astray.ops /\ ~astray.hasty
      BY <1>3, <1>4, <2>1
    <3> QED BY <3>1 DEF Migration!OperationsSurvive
  <2>2. CASE source' = source
    <3>1. o = new => o \in local' /\ Migration!Never(Migration!Entity, new)
      BY <1>0, <1>4, <1>5, <2>2
    <3>2. o # new => (o \in local' <=> o \in local)
      BY <1>4
    <3>3. IF o \in local' THEN Migration!Never(Migration!Entity, o) ELSE Migration!Once(Migration!Entity, o)
      BY <2>1, <3>1, <3>2
    <3> QED BY <1>8, <2>2, <3>3 DEF Migration!Never, Migration!Once
  <2>3. CASE source' # source
    <3>1. source'.buffer = Append(source.buffer, new) /\ local' = local
      BY <1>4, <2>3
    <3> DEFINE longer == Append(Migration!Entity, new)
               All == Known \cup {new}
    <3>2. Migration!Entity \in Seq(All)
      BY <1>0, SeqMonotonic
    <3>3. /\ o # new => /\ Migration!Never(longer, o) <=> Migration!Never(Migration!Entity, o)
                        /\ Migration!Once(longer, o) <=> Migration!Once(Migration!Entity, o)
          /\ Migration!Never(Migration!Entity, new) => Migration!Once(longer, new)
      <4>1. new \in All
        OBVIOUS
      <4> HIDE DEF new, All
      <4> QED BY <3>2, <4>1, OccursAppend
    <3>4. Migration!Once(longer, new) /\ new \notin local
      BY <1>0, <1>3, <1>5, <3>3
    <3> HIDE DEF longer
    <3>5. IF o \in local' THEN Migration!Never(longer, o) ELSE Migration!Once(longer, o)
      BY <2>1, <3>1, <3>3, <3>4
    <3>6. Migration!Entity' = longer
      BY <1>7, <3>1 DEF longer
    <3> QED BY <3>5, <3>6 DEF Migration!Never, Migration!Once
  <2> QED BY <2>2, <2>3
<1> QED BY <1>9, <1>10, <1>11

\* Every step of the migration, of the transport and of the target.
LEMMA MigrationKeeps ==
    ASSUME Migration!IInv, Migration!Next
    PROVE  Migration!IInv'
<1>1. Migration!TypeOK'
  BY MigrationTypes DEF Migration!IInv
<1>2. ASSUME ~astray'.hasty
      PROVE  (Migration!HandInv /\ Migration!CopyInv /\ Migration!OrderInv /\ Migration!OperationsSurvive)'
  <2>1. ~astray.hasty
    BY <1>2 DEF Migration!IInv, Migration!TypeOK, Migration!Next, Migration!Buffer, Migration!Begin,
         Migration!Export, Migration!DrainBuffer, Migration!Release, Migration!Abort, Migration!Lose,
         Migration!Import, Migration!Receive, Migration!UpdateState, Migration!Accept, Migration!Execute
  <2>2. /\ Migration!TypeOK /\ Migration!HandInv /\ Migration!CopyInv /\ Migration!OrderInv
        /\ Migration!OperationsSurvive
    BY <2>1 DEF Migration!IInv
  <2>3. Migration!HandInv'
    BY <1>2, <2>2, HandsKeep
  <2> QED BY <1>2, <2>2, <2>3, MovesAlong, PassesOn, ImportKeeps, ReleaseKeeps, AbortKeeps,
             BufferKeeps, ExecuteKeeps
          DEF Migration!Next
<1> QED BY <1>1, <1>2 DEF Migration!IInv

\* handoff.go:7-8, 90-91: through any number of operations and migrations, as long as
\* no Abort comes while a bundle can arrive, every operation has its place.
THEOREM MigrationInvariant == MCSpec => []Migration!IInv
<1>1. MCInit => Migration!IInv
  <2> SUFFICES ASSUME Migration!Init PROVE Migration!IInv
    BY DEF MCInit
  <2> USE MigrationAssumption DEF Migration!Init, Migration!NewTarget, Migration!Nothing, Migration!NotSent
  <2>1. Migration!Known = {} /\ <<>> \in Seq(Migration!Known)
    BY EmptySeq DEF Migration!Known
  <2>2. source \in [phase : {"owned", "exporting", "released"},
                    state : Seq(Migration!Known), buffer : Seq(Migration!Known)]
    BY <2>1
  <2>3. target \in [phase : {"importing", "owned"}, got : BOOLEAN, state : Seq(Migration!Known),
                    base : Nat, replay : Seq(Migration!Known)]
    BY <2>1
  <2>4. /\ bundle \in [state : Seq(Migration!Known), ops : Seq(Migration!Known), full : BOOLEAN]
        /\ kept \in [sent : BOOLEAN, ops : Seq(Migration!Known)]
    BY <2>1
  <2>5. local \subseteq Migration!Known /\ arrived \in 0..MaxOps /\ moves \in 0..MaxMoves
    OBVIOUS
  <2>6. ack \in BOOLEAN /\ astray \in [ops : SUBSET Migration!Known, hasty : BOOLEAN]
    <3>1. ack = FALSE /\ astray = [ops |-> {}, hasty |-> FALSE]
      BY Zenon
    <3> HIDE DEF Migration!Init
    <3> QED BY <3>1
  <2>7. Migration!TypeOK
    BY <2>1, <2>2, <2>3, <2>4, <2>5, <2>6 DEF Migration!TypeOK
  <2>8. Migration!HandInv /\ Migration!CopyInv
    BY DEF Migration!HandInv, Migration!CopyInv
  <2>9. Migration!Pending = <<>>
    BY DEF Migration!Pending
  <2> QED BY <2>1, <2>7, <2>8, <2>9 DEF Migration!IInv, Migration!OrderInv, Migration!OperationsSurvive
<1>2. Migration!IInv /\ [MCNext]_allVars => Migration!IInv'
  <2> SUFFICES ASSUME Migration!IInv, [MCNext]_allVars PROVE Migration!IInv'
    OBVIOUS
  <2>1. Migration!Next \/ UNCHANGED entity
    BY DEF MCNext, Only, allVars
  <2>2. CASE UNCHANGED entity
    <3>1. Migration!TypeOK' /\ Migration!Known' = Migration!Known
      BY <2>2 DEF entity, Migration!IInv, Migration!TypeOK, Migration!Known
    <3>2. /\ Migration!Line' = Migration!Line /\ Migration!Entity' = Migration!Entity
          /\ Migration!Pending' = Migration!Pending
      BY <2>2 DEF entity, Migration!Pending, Migration!Entity, Migration!Line
    <3>3. ASSUME ~astray.hasty
          PROVE  (Migration!HandInv /\ Migration!CopyInv /\ Migration!OrderInv /\ Migration!OperationsSurvive)'
      <4>1. Migration!HandInv'
        BY <2>2, <3>3 DEF entity, Migration!IInv, Migration!HandInv
      <4>2. Migration!CopyInv'
        BY <2>2, <3>1, <3>2, <3>3
           DEF entity, Migration!IInv, Migration!CopyInv, Migration!Ends, Migration!Never, Migration!Once
      <4>3. Migration!OrderInv'
        BY <3>2, <3>3 DEF Migration!IInv, Migration!OrderInv
      <4>4. Migration!OperationsSurvive'
        BY <2>2, <3>1, <3>2, <3>3
           DEF entity, Migration!IInv, Migration!OperationsSurvive, Migration!Never, Migration!Once
      <4> QED BY <4>1, <4>2, <4>3, <4>4
    <3> QED BY <2>2, <3>1, <3>3 DEF entity, Migration!IInv
  <2> QED BY <2>1, <2>2, MigrationKeeps
<1> QED BY <1>1, <1>2, PTL DEF MCSpec

\* handoff.go:7 and 90-91: one writer, who replays what was buffered in order.
LEMMA WriterReplaysInOrder == Migration!IInv => Migration!OneWriter /\ Migration!ReplayInOrder
<1> SUFFICES ASSUME Migration!IInv, ~astray.hasty
             PROVE  /\ ~(source.phase = "owned" /\ target.phase = "owned")
                    /\ target.got => LET s == SubSeq(Migration!Entity, target.base + 1, Len(Migration!Entity))
                                     IN  \A m \in 1..Len(s) - 1 : s[m] < s[m + 1]
  BY DEF Migration!OneWriter, Migration!ReplayInOrder
<1> DEFINE whole == Migration!Entity
           after == Migration!Pending
           base == target.base
<1>1. Migration!TypeOK /\ Migration!HandInv /\ Migration!CopyInv /\ Migration!OrderInv
  BY DEF Migration!IInv
<1>2. ~(source.phase = "owned" /\ target.phase = "owned")
  BY <1>1 DEF Migration!HandInv, Migration!TypeOK
<1>3. ASSUME target.got
      PROVE  Migration!Ends(whole, base, after)
  <2>1. Migration!Ends(Migration!Line, base, kept.ops)
    BY <1>1, <1>3 DEF Migration!CopyInv
  <2> QED BY <1>1, <2>1, FieldsAreSeqs, EndsConcat DEF Migration!Entity, Migration!Pending
<1>4. whole \in Seq(Migration!Known) /\ after \in Seq(Migration!Known) /\ base \in Nat
  BY <1>1, FieldsAreSeqs
<1>5. \A k \in DOMAIN after : \A m \in 1..k - 1 : after[m] < after[k]
  BY <1>1 DEF Migration!OrderInv
<1> HIDE DEF whole, after, base
<1>6. ASSUME target.got, NEW m \in 1..Len(SubSeq(whole, base + 1, Len(whole))) - 1
      PROVE  SubSeq(whole, base + 1, Len(whole))[m] < SubSeq(whole, base + 1, Len(whole))[m + 1]
  <2>1. /\ Len(whole) = base + Len(after) /\ Len(after) \in Nat /\ Len(whole) \in Nat
        /\ DOMAIN after = 1..Len(after) /\ \A k \in DOMAIN after : whole[base + k] = after[k]
    BY <1>3, <1>4, <1>6, LenProperties DEF Migration!Ends
  <2>2. /\ Len(SubSeq(whole, base + 1, Len(whole))) = Len(after)
        /\ \A k \in 1..Len(after) : SubSeq(whole, base + 1, Len(whole))[k] = whole[base + k]
    BY <1>4, <2>1
  <2>3. m \in 1..Len(after) /\ m + 1 \in 1..Len(after) /\ m \in 1..(m + 1) - 1
    <3>1. m \in 1..Len(after) - 1
      BY <1>6, <2>2, Zenon
    <3> QED BY <2>1, <3>1
  <2>4. after[m] < after[m + 1]
    BY <1>5, <2>1, <2>3
  <2> QED BY <2>1, <2>2, <2>3, <2>4
<1> QED BY <1>2, <1>6 DEF whole, base

-----------------------------------------------------------------------------
(* The job queue in Redis: the proofs of RedisQueueProofs, for the three       *)
(* queues of MCCoordination.                                                   *)

QP == INSTANCE RedisQueueProofs WITH Cleaners <- {}, MaxErrors <- 0
FP == INSTANCE RedisQueueProofs WITH Procs <- Loops, Cleaners <- Loops
RP == INSTANCE RedisQueueProofs WITH
    Procs <- Loops, Cleaners <- {}, MaxRetries <- 1, MaxStops <- 0, MaxErrors <- 0, MaxExpiries <- 0

\* redisqueue.go:241-416: in the behaviours of the queue its invariant holds,
LEMMA QueueInvariant == MCSpec => [](which = "queue" => QP!IInv)
<1>0. QP!Bounds
  BY QueueAssumption, StoreAssumption DEF QP!Bounds
<1>1. MCInit => (which = "queue" => QP!IInv)
  <2>1. Queue!Init => QP!Init
    BY DEF Queue!Init, QP!Init, Queue!Idle, QP!Idle, Queue!Keys, QP!Keys, Queue!Sets,
           QP!Sets, Queue!Goroutines, QP!Goroutines
  <2> QED BY <1>0, <2>1, QP!QueueInit DEF MCInit
<1>2. (which = "queue" => QP!IInv) /\ [MCNext]_allVars => (which = "queue" => QP!IInv)'
  <2> SUFFICES ASSUME which = "queue" => QP!IInv, [MCNext]_allVars, which' = "queue"
               PROVE  QP!IInv'
    OBVIOUS
  <2>1. (Only("queue") /\ Queue!Next) \/ UNCHANGED allVars
    BY OnlyWhich DEF MCNext
  <2>2. which = "queue"
    BY <2>1, OnlyWhich DEF allVars
  <2>3. Queue!Next => QP!Next
    BY DEF Queue!Next, QP!Next, Queue!Submit, QP!Submit, Queue!Clean, QP!Clean,
           Queue!Consume, QP!Consume, Queue!Dequeue, QP!Dequeue, Queue!ProcessJob,
           QP!ProcessJob, Queue!ReportProgress, QP!ReportProgress, Queue!Stop, QP!Stop,
           Queue!ErrorIgnored, QP!ErrorIgnored, Queue!ErrorDrops, QP!ErrorDrops, Queue!Fail,
           QP!Fail, Queue!Drop, QP!Drop, Queue!DelayScheduler, QP!DelayScheduler,
           Queue!StalledChecker, QP!StalledChecker, Queue!LockExpires, QP!LockExpires,
           Queue!Outcomes, QP!Outcomes, Queue!After, QP!After, Queue!Goto, QP!Goto,
           Queue!Move, QP!Move, Queue!Rem, QP!Rem, Queue!Add, QP!Add, Queue!Save, QP!Save,
           Queue!NoCommand, QP!NoCommand, Queue!Idle, QP!Idle, Queue!Count, QP!Count,
           Queue!Pick, QP!Pick, Queue!Continue, QP!Continue, Queue!Read, QP!Read,
           Queue!Requeue, QP!Requeue, Queue!Orphaned, QP!Orphaned, Queue!InHand, QP!InHand,
           Queue!Holding, QP!Holding, Queue!Holds, QP!Holds, Queue!Working, QP!Working,
           Queue!Goroutines, QP!Goroutines, Queue!Placed, QP!Placed, Queue!Sets, QP!Sets
  <2>4. [QP!Next]_(QP!vars)
    BY <2>1, <2>3 DEF allVars, queue, QP!vars
  <2> QED BY <1>0, <2>2, <2>4, QP!QueueKeeps
<1> QED BY <1>1, <1>2, PTL DEF MCSpec

\* in those of the queue whose commands may fail,
LEMMA FailingInvariant == MCSpec => [](which = "failing" => FP!IInv)
<1>0. FP!Bounds
  BY QueueAssumption, StoreAssumption DEF FP!Bounds
<1>1. MCInit => (which = "failing" => FP!IInv)
  <2>1. Failing!Init => FP!Init
    BY DEF Failing!Init, FP!Init, Failing!Idle, FP!Idle, Failing!Keys, FP!Keys,
           Failing!Sets, FP!Sets, Failing!Goroutines, FP!Goroutines
  <2> QED BY <1>0, <2>1, FP!QueueInit DEF MCInit
<1>2. (which = "failing" => FP!IInv) /\ [MCNext]_allVars => (which = "failing" => FP!IInv)'
  <2> SUFFICES ASSUME which = "failing" => FP!IInv, [MCNext]_allVars, which' = "failing"
               PROVE  FP!IInv'
    OBVIOUS
  <2>1. (Only("failing") /\ Failing!Next) \/ UNCHANGED allVars
    BY OnlyWhich DEF MCNext
  <2>2. which = "failing"
    BY <2>1, OnlyWhich DEF allVars
  <2>3. Failing!Next => FP!Next
    BY DEF Failing!Next, FP!Next, Failing!Submit, FP!Submit, Failing!Clean, FP!Clean,
           Failing!Consume, FP!Consume, Failing!Dequeue, FP!Dequeue, Failing!ProcessJob,
           FP!ProcessJob, Failing!ReportProgress, FP!ReportProgress, Failing!Stop, FP!Stop,
           Failing!ErrorIgnored, FP!ErrorIgnored, Failing!ErrorDrops, FP!ErrorDrops,
           Failing!Fail, FP!Fail, Failing!Drop, FP!Drop, Failing!DelayScheduler,
           FP!DelayScheduler, Failing!StalledChecker, FP!StalledChecker,
           Failing!LockExpires, FP!LockExpires, Failing!Outcomes, FP!Outcomes,
           Failing!After, FP!After, Failing!Goto, FP!Goto, Failing!Move, FP!Move,
           Failing!Rem, FP!Rem, Failing!Add, FP!Add, Failing!Save, FP!Save,
           Failing!NoCommand, FP!NoCommand, Failing!Idle, FP!Idle, Failing!Count, FP!Count,
           Failing!Pick, FP!Pick, Failing!Continue, FP!Continue, Failing!Read, FP!Read,
           Failing!Requeue, FP!Requeue, Failing!Orphaned, FP!Orphaned, Failing!InHand,
           FP!InHand, Failing!Holding, FP!Holding, Failing!Holds, FP!Holds, Failing!Working,
           FP!Working, Failing!Goroutines, FP!Goroutines, Failing!Placed, FP!Placed,
           Failing!Sets, FP!Sets
  <2>4. [FP!Next]_(FP!vars)
    BY <2>1, <2>3 DEF allVars, queue, FP!vars
  <2> QED BY <1>0, <2>2, <2>4, FP!QueueKeeps
<1> QED BY <1>1, <1>2, PTL DEF MCSpec

\* and in those of the queue that retries, and whose processes do not stop.
LEMMA RetryingInvariant == MCSpec => [](which = "retrying" => RP!IInv)
<1>0. RP!Bounds
  BY QueueAssumption DEF RP!Bounds
<1>1. MCInit => (which = "retrying" => RP!IInv)
  <2>1. Retrying!Init => RP!Init
    BY DEF Retrying!Init, RP!Init, Retrying!Idle, RP!Idle, Retrying!Keys, RP!Keys,
           Retrying!Sets, RP!Sets, Retrying!Goroutines, RP!Goroutines
  <2> QED BY <1>0, <2>1, RP!QueueInit DEF MCInit
<1>2. (which = "retrying" => RP!IInv) /\ [MCNext]_allVars => (which = "retrying" => RP!IInv)'
  <2> SUFFICES ASSUME which = "retrying" => RP!IInv, [MCNext]_allVars, which' = "retrying"
               PROVE  RP!IInv'
    OBVIOUS
  <2>1. (Only("retrying") /\ Retrying!Next) \/ UNCHANGED allVars
    BY OnlyWhich DEF MCNext
  <2>2. which = "retrying"
    BY <2>1, OnlyWhich DEF allVars
  <2>3. Retrying!Next => RP!Next
    BY DEF Retrying!Next, RP!Next, Retrying!Submit, RP!Submit, Retrying!Clean, RP!Clean,
           Retrying!Consume, RP!Consume, Retrying!Dequeue, RP!Dequeue, Retrying!ProcessJob,
           RP!ProcessJob, Retrying!ReportProgress, RP!ReportProgress, Retrying!Stop,
           RP!Stop, Retrying!ErrorIgnored, RP!ErrorIgnored, Retrying!ErrorDrops,
           RP!ErrorDrops, Retrying!Fail, RP!Fail, Retrying!Drop, RP!Drop,
           Retrying!DelayScheduler, RP!DelayScheduler, Retrying!StalledChecker,
           RP!StalledChecker, Retrying!LockExpires, RP!LockExpires, Retrying!Outcomes,
           RP!Outcomes, Retrying!After, RP!After, Retrying!Goto, RP!Goto, Retrying!Move,
           RP!Move, Retrying!Rem, RP!Rem, Retrying!Add, RP!Add, Retrying!Save, RP!Save,
           Retrying!NoCommand, RP!NoCommand, Retrying!Idle, RP!Idle, Retrying!Count,
           RP!Count, Retrying!Pick, RP!Pick, Retrying!Continue, RP!Continue, Retrying!Read,
           RP!Read, Retrying!Requeue, RP!Requeue, Retrying!Orphaned, RP!Orphaned,
           Retrying!InHand, RP!InHand, Retrying!Holding, RP!Holding, Retrying!Holds,
           RP!Holds, Retrying!Working, RP!Working, Retrying!Goroutines, RP!Goroutines,
           Retrying!Placed, RP!Placed, Retrying!Sets, RP!Sets
  <2>4. [RP!Next]_(RP!vars)
    BY <2>1, <2>3 DEF allVars, queue, RP!vars
  <2> QED BY <1>0, <2>2, <2>4, RP!QueueKeeps
<1> QED BY <1>1, <1>2, PTL DEF MCSpec

-----------------------------------------------------------------------------
(* Together *)

\* saga.go:14 and 24: the services see no compensation of a step that was not done,
\* and in the behaviours of the other components none at all.
LEMMA UndoneInvariant == MCSpec => []Saga!UndoneWasApplied
<1>1. MCInit => (which # "saga" => Saga!UndoneWasApplied)
  BY DEF MCInit, Saga!Init, Saga!UndoneWasApplied
<1>2. /\ which # "saga" => Saga!UndoneWasApplied
      /\ [MCNext]_allVars
      => (which # "saga" => Saga!UndoneWasApplied)'
  <2> SUFFICES ASSUME which # "saga" => Saga!UndoneWasApplied, [MCNext]_allVars, which' # "saga"
               PROVE  Saga!UndoneWasApplied'
    OBVIOUS
  <2>1. which' = which /\ (which # "saga" => UNCHANGED <<applied, undone>>)
    BY DEF MCNext, Only, allVars
  <2> QED BY <2>1 DEF Saga!UndoneWasApplied
<1>3. (which = "saga" => Saga!IInv) /\ (which # "saga" => Saga!UndoneWasApplied)
      => Saga!UndoneWasApplied
  BY DEF Saga!IInv
<1> QED BY <1>1, <1>2, <1>3, SagaInvariant, PTL DEF MCSpec

\* redisqueue.go:241-416, discovery.go:595-638 and 695-787, webhook.go:7 and 140,
\* handoff.go:8: for any number of jobs, processes, stops, failed commands and expiries
\* a job is lost only when its process stops, or a command of ErrorDrops fails, while the
\* job is in no set; and for any number of connections, events and operations none of
\* these is lost on the way.
THEOREM NothingIsLostThm == MCSpec => []NothingIsLost
<1>1. QP!IInv => Queue!JobIsSomewhere
  BY DEF QP!IInv, Queue!JobIsSomewhere, QP!JobIsSomewhere, Queue!Alive, QP!Alive, Queue!Placed,
         QP!Placed, Queue!InHand, QP!InHand, Queue!Holding, QP!Holding, Queue!Holds,
         QP!Holds, Queue!Working, QP!Working, Queue!Sets, QP!Sets, Queue!Goroutines,
         QP!Goroutines
<1>a. FP!IInv => Failing!JobIsSomewhere
  BY DEF FP!IInv, Failing!JobIsSomewhere, FP!JobIsSomewhere, Failing!Alive, FP!Alive, Failing!Placed,
         FP!Placed, Failing!InHand, FP!InHand, Failing!Holding, FP!Holding, Failing!Holds,
         FP!Holds, Failing!Working, FP!Working, Failing!Sets, FP!Sets, Failing!Goroutines,
         FP!Goroutines
<1>2. RP!IInv => Retrying!JobIsSomewhere
  BY DEF RP!IInv, Retrying!JobIsSomewhere, RP!JobIsSomewhere, Retrying!Alive, RP!Alive,
         Retrying!Placed, RP!Placed, Retrying!InHand, RP!InHand, Retrying!Holding,
         RP!Holding, Retrying!Holds, RP!Holds, Retrying!Working, RP!Working, Retrying!Sets,
         RP!Sets, Retrying!Goroutines, RP!Goroutines
<1>3. Client!IInv => Client!NoConnectionLost
  BY DEF Client!IInv, Client!ConnInv
<1>4. Hook!IInv => Hook!DeadLettersKept
  BY DEF Hook!IInv
<1>5. Migration!IInv => Migration!OperationsSurvive
  BY DEF Migration!IInv, Migration!OperationsSurvive
<1>6. /\ which = "queue" => QP!IInv
      /\ which = "failing" => FP!IInv
      /\ which = "retrying" => RP!IInv
      /\ Client!IInv /\ Hook!IInv /\ Migration!IInv
      => NothingIsLost
  BY <1>1, <1>a, <1>2, <1>3, <1>4, <1>5 DEF NothingIsLost
<1> QED BY <1>6, QueueInvariant, FailingInvariant, RetryingInvariant, ClientInvariant,
           HookInvariant, MigrationInvariant, PTL

\* saga.go:14 and 24, txn.go:160-168 and 195-197, discovery.go:361, webhook.go:172,
\* handoff.go:7 and 90-91: only what was done is undone, hooks follow a commit (their own
\* but for early ones and panics), retries go elsewhere, an event is notified once, and an
\* entity has one writer, who replays in order.
THEOREM NothingOutOfTurnThm == MCSpec => []NothingOutOfTurn
<1>1. Client!IInv => Client!RetryElsewhere
  BY DEF Client!IInv, Client!CallInv
<1>2. /\ Saga!UndoneWasApplied
      /\ which = "txn" => HooksFollowCommit
      /\ Client!IInv /\ Hook!IInv /\ Migration!IInv
      => NothingOutOfTurn
  BY <1>1, OneNotify, WriterReplaysInOrder DEF NothingOutOfTurn
<1> QED BY <1>2, UndoneInvariant, HooksFollowCommitThm, ClientInvariant, HookInvariant,
           MigrationInvariant, PTL
=============================================================================
