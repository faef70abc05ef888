-------------------------- MODULE IdempotencyProofs --------------------------
(* Proofs of the safety properties of Idempotency. *)
EXTENDS Idempotency, TLAPS

USE DEF storeVars, envVars, Goto

\* A new Idempotency has an empty map and no calls.
LEMMA InitIInv == Init => IInv
BY ConstantsAssumption DEF Init, IInv, TypeOK, PC, HasEntry, RecordInv, SharedInv

-----------------------------------------------------------------------------
(* Calls that begin *)

\* A valid result is returned, by Do ...
LEMMA DoReusePreserves ==
    ASSUME IInv, NEW c \in Callers, DoReuse(c)
    PROVE  IInv'
<1> USE ConstantsAssumption DEF DoReuse, Fresh
<1>1. TypeOK'
    BY DEF IInv, TypeOK, PC, HasEntry
<1>2. HasEntry'
    BY DEF IInv, TypeOK, HasEntry
<1>3. RecordInv'
    BY DEF IInv, TypeOK, RecordInv, GuardForgotten
<1>4. SharedInv'
    BY DEF IInv, TypeOK, RecordInv, SharedInv, GuardForgotten
<1> QED BY <1>1, <1>2, <1>3, <1>4 DEF IInv

\* ... and by Acquire.
LEMMA AcquireHitPreserves ==
    ASSUME IInv, NEW c \in Callers, AcquireHit(c)
    PROVE  IInv'
<1> USE ConstantsAssumption DEF AcquireHit, Fresh
<1>1. TypeOK'
    BY DEF IInv, TypeOK, PC, HasEntry
<1>2. HasEntry'
    BY DEF IInv, TypeOK, HasEntry
<1>3. RecordInv'
    BY DEF IInv, TypeOK, RecordInv, GuardForgotten
<1>4. SharedInv'
    BY DEF IInv, TypeOK, RecordInv, SharedInv, GuardForgotten
<1> QED BY <1>1, <1>2, <1>3, <1>4 DEF IInv

\* An execution in progress is joined, ...
LEMMA DoJoinPreserves ==
    ASSUME IInv, NEW c \in Callers, DoJoin(c)
    PROVE  IInv'
<1> USE ConstantsAssumption DEF DoJoin
<1>1. TypeOK'
    BY DEF IInv, TypeOK, PC, HasEntry
<1>2. HasEntry'
    BY DEF IInv, TypeOK, HasEntry
<1>3. RecordInv'
    BY DEF IInv, TypeOK, RecordInv, GuardForgotten
<1>4. SharedInv'
    BY DEF IInv, TypeOK, RecordInv, SharedInv, GuardForgotten
<1> QED BY <1>1, <1>2, <1>3, <1>4 DEF IInv

\* ... or reported.
LEMMA AcquireConflictPreserves ==
    ASSUME IInv, NEW c \in Callers, AcquireConflict(c)
    PROVE  IInv'
<1> USE ConstantsAssumption DEF AcquireConflict
<1>1. TypeOK'
    BY DEF IInv, TypeOK, PC, HasEntry
<1>2. HasEntry'
    BY DEF IInv, TypeOK, HasEntry
<1>3. RecordInv'
    BY DEF IInv, TypeOK, RecordInv, GuardForgotten
<1>4. SharedInv'
    BY DEF IInv, TypeOK, RecordInv, SharedInv, GuardForgotten
<1> QED BY <1>1, <1>2, <1>3, <1>4 DEF IInv

\* An entry takes the place of none or of an outdated one, in Do ...
LEMMA DoFirstPreserves ==
    ASSUME IInv, NEW c \in Callers, DoFirst(c)
    PROVE  IInv'
<1> USE ConstantsAssumption DEF DoFirst, Absent
<1>1. TypeOK'
    BY DEF IInv, TypeOK, PC, HasEntry
<1>2. HasEntry'
    BY DEF IInv, TypeOK, HasEntry
<1>3. RecordInv'
    BY DEF IInv, TypeOK, RecordInv, GuardForgotten
<1>4. SharedInv'
    BY DEF IInv, TypeOK, RecordInv, SharedInv, GuardForgotten
<1> QED BY <1>1, <1>2, <1>3, <1>4 DEF IInv

\* ... and in Acquire.
LEMMA AcquirePreserves ==
    ASSUME IInv, NEW c \in Callers, Acquire(c)
    PROVE  IInv'
<1> USE ConstantsAssumption DEF Acquire, Absent
<1>1. TypeOK'
    BY DEF IInv, TypeOK, PC, HasEntry
<1>2. HasEntry'
    BY DEF IInv, TypeOK, HasEntry
<1>3. RecordInv'
    BY DEF IInv, TypeOK, RecordInv, GuardForgotten
<1>4. SharedInv'
    BY DEF IInv, TypeOK, RecordInv, SharedInv, GuardForgotten
<1> QED BY <1>1, <1>2, <1>3, <1>4 DEF IInv

-----------------------------------------------------------------------------
(* Calls that go on *)

\* A waiter returns what the entry holds, ...
LEMMA WakePreserves ==
    ASSUME IInv, NEW c \in Callers, Wake(c)
    PROVE  IInv'
<1> USE ConstantsAssumption DEF Wake
<1>1. TypeOK'
    BY DEF IInv, TypeOK, PC, HasEntry
<1>2. HasEntry'
    BY DEF IInv, TypeOK, HasEntry
<1>3. RecordInv'
    BY DEF IInv, TypeOK, RecordInv, GuardForgotten
<1>4. SharedInv'
    BY DEF IInv, TypeOK, RecordInv, SharedInv, GuardForgotten
<1> QED BY <1>1, <1>2, <1>3, <1>4 DEF IInv

\* ... or that the store is stopped.
LEMMA WakeStoppedPreserves ==
    ASSUME IInv, NEW c \in Callers, WakeStopped(c)
    PROVE  IInv'
<1> USE ConstantsAssumption DEF WakeStopped
<1>1. TypeOK'
    BY DEF IInv, TypeOK, PC, HasEntry
<1>2. HasEntry'
    BY DEF IInv, TypeOK, HasEntry
<1>3. RecordInv'
    BY DEF IInv, TypeOK, RecordInv, GuardForgotten
<1>4. SharedInv'
    BY DEF IInv, TypeOK, RecordInv, SharedInv, GuardForgotten
<1> QED BY <1>1, <1>2, <1>3, <1>4 DEF IInv

\* An execution publishes its result, ...
LEMMA PublishPreserves ==
    ASSUME IInv, NEW c \in Callers, NEW err \in BOOLEAN, Publish(c, err)
    PROVE  IInv'
<1> USE ConstantsAssumption DEF Publish, Close
<1>1. TypeOK'
    BY DEF IInv, TypeOK, PC, HasEntry
<1>2. HasEntry'
    BY DEF IInv, TypeOK, HasEntry
<1>3. RecordInv'
    BY DEF IInv, TypeOK, RecordInv, GuardForgotten
<1>4. SharedInv'
    BY DEF IInv, TypeOK, RecordInv, SharedInv, GuardForgotten
<1> QED BY <1>1, <1>2, <1>3, <1>4 DEF IInv

\* ... or fails and removes its record, ...
LEMMA FnFailsPreserves ==
    ASSUME IInv, NEW c \in Callers, FnFails(c)
    PROVE  IInv'
<1> USE ConstantsAssumption DEF FnFails, DropOwn
<1>1. TypeOK'
    BY DEF IInv, TypeOK, PC, HasEntry
<1>2. HasEntry'
    BY DEF IInv, TypeOK, HasEntry
<1>3. RecordInv'
    BY DEF IInv, TypeOK, RecordInv, GuardForgotten
<1>4. SharedInv'
    BY DEF IInv, TypeOK, RecordInv, SharedInv, GuardForgotten
<1> QED BY <1>1, <1>2, <1>3, <1>4 DEF IInv

\* ... as it does when it panics, ...
LEMMA FnPanicsPreserves ==
    ASSUME IInv, NEW c \in Callers, FnPanics(c)
    PROVE  IInv'
<1> USE ConstantsAssumption DEF FnPanics, DropOwn
<1>1. TypeOK'
    BY DEF IInv, TypeOK, PC, HasEntry
<1>2. HasEntry'
    BY DEF IInv, TypeOK, HasEntry
<1>3. RecordInv'
    BY DEF IInv, TypeOK, RecordInv, GuardForgotten
<1>4. SharedInv'
    BY DEF IInv, TypeOK, RecordInv, SharedInv, GuardForgotten
<1> QED BY <1>1, <1>2, <1>3, <1>4 DEF IInv

\* ... and closes it after that.
LEMMA FailClosePreserves ==
    ASSUME IInv, NEW c \in Callers, FailClose(c)
    PROVE  IInv'
<1> USE ConstantsAssumption DEF FailClose, Close
<1>1. TypeOK'
    BY DEF IInv, TypeOK, PC, HasEntry
<1>2. HasEntry'
    BY DEF IInv, TypeOK, HasEntry
<1>3. RecordInv'
    BY DEF IInv, TypeOK, RecordInv, GuardForgotten
<1>4. SharedInv'
    BY DEF IInv, TypeOK, RecordInv, SharedInv, GuardForgotten
<1> QED BY <1>1, <1>2, <1>3, <1>4 DEF IInv

\* The same after a panic.
LEMMA PanicClosePreserves ==
    ASSUME IInv, NEW c \in Callers, PanicClose(c)
    PROVE  IInv'
<1> USE ConstantsAssumption DEF PanicClose, Close
<1>1. TypeOK'
    BY DEF IInv, TypeOK, PC, HasEntry
<1>2. HasEntry'
    BY DEF IInv, TypeOK, HasEntry
<1>3. RecordInv'
    BY DEF IInv, TypeOK, RecordInv, GuardForgotten
<1>4. SharedInv'
    BY DEF IInv, TypeOK, RecordInv, SharedInv, GuardForgotten
<1> QED BY <1>1, <1>2, <1>3, <1>4 DEF IInv

\* A guard looks its record up, ...
LEMMA CommitPreserves ==
    ASSUME IInv, NEW c \in Callers, Commit(c)
    PROVE  IInv'
<1> USE ConstantsAssumption DEF Commit
<1>1. TypeOK'
    BY DEF IInv, TypeOK, PC, HasEntry
<1>2. HasEntry'
    BY DEF IInv, TypeOK, HasEntry
<1>3. RecordInv'
    BY DEF IInv, TypeOK, RecordInv, GuardForgotten
<1>4. SharedInv'
    BY DEF IInv, TypeOK, RecordInv, SharedInv, GuardForgotten
<1> QED BY <1>1, <1>2, <1>3, <1>4 DEF IInv

\* ... which Release removes, ...
LEMMA ReleasePreserves ==
    ASSUME IInv, NEW c \in Callers, Release(c)
    PROVE  IInv'
<1> USE ConstantsAssumption DEF Release
<1>1. TypeOK'
    BY DEF IInv, TypeOK, PC, HasEntry
<1>2. HasEntry'
    BY DEF IInv, TypeOK, HasEntry
<1>3. RecordInv'
    BY DEF IInv, TypeOK, RecordInv, GuardForgotten
<1>4. SharedInv'
    BY DEF IInv, TypeOK, RecordInv, SharedInv, GuardForgotten
<1> QED BY <1>1, <1>2, <1>3, <1>4 DEF IInv

\* ... and completes ...
LEMMA CommitClosePreserves ==
    ASSUME IInv, NEW c \in Callers, CommitClose(c)
    PROVE  IInv'
<1> USE ConstantsAssumption DEF CommitClose, Close
<1>1. TypeOK'
    BY DEF IInv, TypeOK, PC, HasEntry
<1>2. HasEntry'
    BY DEF IInv, TypeOK, HasEntry
<1>3. RecordInv'
    BY DEF IInv, TypeOK, RecordInv, GuardForgotten
<1>4. SharedInv'
    BY DEF IInv, TypeOK, RecordInv, SharedInv, GuardForgotten
<1> QED BY <1>1, <1>2, <1>3, <1>4 DEF IInv

\* ... or closes what it found.
LEMMA ReleaseClosePreserves ==
    ASSUME IInv, NEW c \in Callers, ReleaseClose(c)
    PROVE  IInv'
<1> USE ConstantsAssumption DEF ReleaseClose
<1>1. TypeOK'
    BY DEF IInv, TypeOK, PC, HasEntry
<1>2. HasEntry'
    BY DEF IInv, TypeOK, HasEntry
<1>3. RecordInv'
    BY DEF IInv, TypeOK, RecordInv, GuardForgotten
<1>4. SharedInv'
    BY DEF IInv, TypeOK, RecordInv, SharedInv, GuardForgotten
<1> QED BY <1>1, <1>2, <1>3, <1>4 DEF IInv

-----------------------------------------------------------------------------
(* Forget, expiry, gc, Stop *)

\* The record is removed, whoever it belongs to.
LEMMA ForgetPreserves ==
    ASSUME IInv, Forget
    PROVE  IInv'
<1> USE ConstantsAssumption DEF Forget
<1>1. TypeOK'
    BY DEF IInv, TypeOK, PC, HasEntry
<1>2. HasEntry'
    BY DEF IInv, TypeOK, HasEntry
<1>3. RecordInv'
    BY DEF IInv, TypeOK, RecordInv, GuardForgotten
<1>4. SharedInv'
    BY DEF IInv, TypeOK, RecordInv, SharedInv, GuardForgotten
<1> QED BY <1>1, <1>2, <1>3, <1>4 DEF IInv

\* Only completed records expire ...
LEMMA ExpirePreserves ==
    ASSUME IInv, Expire
    PROVE  IInv'
<1> USE ConstantsAssumption DEF Expire
<1>1. TypeOK'
    BY DEF IInv, TypeOK, PC, HasEntry
<1>2. HasEntry'
    BY DEF IInv, TypeOK, HasEntry
<1>3. RecordInv'
    BY DEF IInv, TypeOK, RecordInv, GuardForgotten
<1>4. SharedInv'
    BY DEF IInv, TypeOK, RecordInv, SharedInv, GuardForgotten
<1> QED BY <1>1, <1>2, <1>3, <1>4 DEF IInv

\* ... and are collected.
LEMMA GCPreserves ==
    ASSUME IInv, GC
    PROVE  IInv'
<1> USE ConstantsAssumption DEF GC
<1>1. TypeOK'
    BY DEF IInv, TypeOK, PC, HasEntry
<1>2. HasEntry'
    BY DEF IInv, TypeOK, HasEntry
<1>3. RecordInv'
    BY DEF IInv, TypeOK, RecordInv, GuardForgotten
<1>4. SharedInv'
    BY DEF IInv, TypeOK, RecordInv, SharedInv, GuardForgotten
<1> QED BY <1>1, <1>2, <1>3, <1>4 DEF IInv

\* Stop leaves the records alone.
LEMMA StopPreserves ==
    ASSUME IInv, Stop
    PROVE  IInv'
<1> USE ConstantsAssumption DEF Stop
<1>1. TypeOK'
    BY DEF IInv, TypeOK, PC, HasEntry
<1>2. HasEntry'
    BY DEF IInv, TypeOK, HasEntry
<1>3. RecordInv'
    BY DEF IInv, TypeOK, RecordInv, GuardForgotten
<1>4. SharedInv'
    BY DEF IInv, TypeOK, RecordInv, SharedInv, GuardForgotten
<1> QED BY <1>1, <1>2, <1>3, <1>4 DEF IInv

-----------------------------------------------------------------------------
(* The theorems *)

\* Every step of a call, of Forget and of the cache.
LEMMA NextIInv == IInv /\ [Next]_vars => IInv'
<1> SUFFICES ASSUME IInv, [Next]_vars PROVE IInv'
    OBVIOUS
<1>1. ASSUME NEW c \in Callers, Begin(c) PROVE IInv'
    BY <1>1, DoReusePreserves, AcquireHitPreserves, DoJoinPreserves, AcquireConflictPreserves,
       DoFirstPreserves, AcquirePreserves
    DEF Begin
<1>2. ASSUME NEW c \in Callers, CallerStep(c) PROVE IInv'
    BY <1>2, WakePreserves, WakeStoppedPreserves, PublishPreserves, FnFailsPreserves,
       FailClosePreserves, FnPanicsPreserves, PanicClosePreserves, CommitPreserves,
       CommitClosePreserves, ReleasePreserves, ReleaseClosePreserves
    DEF CallerStep
<1>3. CASE Expire \/ Forget \/ GC \/ Stop
    BY <1>3, ForgetPreserves, ExpirePreserves, GCPreserves, StopPreserves
<1>4. CASE UNCHANGED vars
    BY <1>4 DEF vars, IInv, TypeOK, RecordInv, HasEntry, SharedInv, GuardForgotten
<1> QED BY <1>1, <1>2, <1>3, <1>4 DEF Next

\* The invariant of the store, for any number of callers, guards and Forgets.
THEOREM InductiveInvariant == Spec => []IInv
BY InitIInv, NextIInv, PTL DEF Spec

\* idempotency.go:12-14 and 19: one execution at a time, and none while a valid
\* result is on record, unless a Forget came between.
THEOREM ExclusiveUnlessForgottenThm == Spec => []ExclusiveUnlessForgotten
<1>1. IInv => ExclusiveUnlessForgotten
    BY DEF IInv, TypeOK, RecordInv, ExclusiveUnlessForgotten, Running, Fresh
<1> QED BY <1>1, InductiveInvariant, PTL

\* idempotency.go:187-190: a shared success is the result of an execution that
\* succeeded, or the zero value of one that panicked or was released.
THEOREM SharedIsRealOrZeroThm == Spec => []SharedIsRealOrZero
<1>1. IInv => SharedIsRealOrZero
    BY ConstantsAssumption DEF IInv, TypeOK, SharedInv, SharedIsRealOrZero, GotReal
<1> QED BY <1>1, InductiveInvariant, PTL

\* idempotency.go:296: later calls do not find the result of a forgotten record.
THEOREM ForgottenResultNotReusedThm == Spec => []ForgottenResultNotReused
<1>1. IInv => ForgottenResultNotReused
    BY ConstantsAssumption DEF IInv, TypeOK, RecordInv, ForgottenResultNotReused
<1> QED BY <1>1, InductiveInvariant, PTL

\* idempotency.go:48: no done channel is closed twice.
THEOREM NeverClosedTwiceThm == Spec => []NeverClosedTwice
<1>1. IInv => NeverClosedTwice
    BY DEF IInv, RecordInv, NeverClosedTwice
<1> QED BY <1>1, InductiveInvariant, PTL
=============================================================================
