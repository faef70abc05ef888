------------------------ MODULE CircuitBreakerProofs ------------------------
(***************************************************************************)
(* Proofs of the safety properties of CircuitBreaker, for any number of    *)
(* calls and probes and any trip policy; and that the request breaker and  *)
(* the node breaker, when nobody resets them, keep to the documented       *)
(* arrows.                                                                 *)
(*                                                                         *)
(* The invariant is about a breaker b and the calls r that run; every step *)
(* is a composition of the functions of the code, so each lemma says what  *)
(* one of them does to Sound(b, r).                                        *)
(***************************************************************************)
EXTENDS MCBreakers, FiniteSetTheorems, TLAPS

Runs == [Calls -> Gens \cup {None}]

Counted(b, r) == {c \in Calls : r[c] = b.generation}

Sound(b, r) ==
    /\ b \in Breakers
    /\ b.state = "half-open" <=> b.expiry = "none"
    /\ b.counts.requests = b.counts.successes + b.counts.failures + Cardinality(Counted(b, r))
    /\ b.state = "open" => Counted(b, r) = {} /\ b.counts = Zero
    /\ b.state = "half-open" =>
          /\ b.counts.failures = 0
          /\ b.counts.wins = b.counts.successes
          /\ b.counts.wins < MaxRequests
          /\ b.counts.requests <= MaxRequests

\* What the invariant says of the two variables of the program.
LEMMA IInvIsSound ==
    IInv <=> /\ Sound(cb, running)
             /\ running \in Runs
             /\ stale \subseteq Calls
             /\ healthy \in BOOLEAN
             /\ StaleIsOld
BY DEF IInv, TypeOK, CountsBalance, CountsByState, Sound, Runs, Counted, Current

\* The converse, for the state after a step.
LEMMA IInvAfter ==
    ASSUME Sound(cb', running'), running' \in Runs, stale' \subseteq Calls,
           healthy' \in BOOLEAN, StaleIsOld'
    PROVE  IInv'
BY DEF IInv, TypeOK, CountsBalance, CountsByState, Sound, Runs, Counted, Current

\* The calls that a generation counts are finitely many.
LEMMA CountedFinite ==
    ASSUME NEW b, NEW r
    PROVE  IsFiniteSet(Counted(b, r)) /\ Cardinality(Counted(b, r)) \in Nat
<1>1. IsFiniteSet(Counted(b, r))
    BY ConstantsAssumption, FS_Subset DEF Counted
<1> QED BY <1>1, FS_CardinalityType

\* A new generation is none that a call holds.
LEMMA FreshIsNew ==
    ASSUME running \in Runs, cb.generation \in Gens
    PROVE  Fresh \in Gens /\ Fresh # cb.generation /\ \A c \in Calls : running[c] # Fresh
<1>1. \E g \in Gens : g # cb.generation /\ \A c \in Calls : running[c] # g
    BY ConstantsAssumption DEF Runs
<1> QED BY <1>1 DEF Fresh

\* A breaker that has just begun a generation is sound with any calls that do
\* not hold it.
LEMMA NewGenerationSound ==
    ASSUME NEW b \in Breakers, NEW r,
           Fresh \in Gens, \A c \in Calls : r[c] # Fresh
    PROVE  /\ Sound(ToNewGeneration(b), r)
           /\ ToNewGeneration(b) \in Breakers
           /\ ToNewGeneration(b).state = b.state
           /\ ToNewGeneration(b).generation = Fresh
           /\ ToNewGeneration(b).counts = Zero
<1> DEFINE n == ToNewGeneration(b)
<1>1. /\ n \in Breakers
      /\ n.state = b.state
      /\ n.generation = Fresh
      /\ n.counts = Zero
      /\ n.expiry = IF b.state = "half-open" THEN "none" ELSE "pending"
    BY DEF ToNewGeneration, Breakers, Zero, Counts
<1>2. Counted(n, r) = {}
    BY <1>1 DEF Counted
<1>3. Cardinality(Counted(n, r)) = 0
    BY <1>2, FS_EmptySet
<1> HIDE DEF n
<1> QED
    <2>1. Sound(n, r)
        BY <1>1, <1>2, <1>3, ConstantsAssumption DEF Sound, Zero
    <2> QED BY <1>1, <2>1 DEF n

\* setState to another state.
LEMMA SetStateSound ==
    ASSUME NEW b \in Breakers, NEW r, NEW s \in States, b.state # s,
           Fresh \in Gens, \A c \in Calls : r[c] # Fresh
    PROVE  /\ Sound(SetState(b, s), r)
           /\ SetState(b, s) \in Breakers
           /\ SetState(b, s).state = s
           /\ SetState(b, s).generation = Fresh
<1> DEFINE n == [b EXCEPT !.state = s]
<1>1. n \in Breakers /\ n.state = s
    BY DEF Breakers, States
<1>2. SetState(b, s) = ToNewGeneration(n)
    BY DEF SetState
<1> HIDE DEF n
<1> QED BY <1>1, <1>2, NewGenerationSound

\* currentState: nothing, a new window, or from open to half-open.
LEMMA CurrentStateSound ==
    ASSUME Sound(cb, running), running \in Runs
    PROVE  /\ Sound(CurrentState(cb), running)
           /\ \/ CurrentState(cb) = cb
              \/ CurrentState(cb).generation = Fresh
           /\ \/ CurrentState(cb).state = cb.state
              \/ cb.state = "open" /\ CurrentState(cb).state = "half-open"
<1>1. cb \in Breakers /\ cb.generation \in Gens
    BY DEF Sound, Breakers
<1>2. Fresh \in Gens /\ \A c \in Calls : running[c] # Fresh
    BY <1>1, FreshIsNew
<1>3. CASE cb.expiry # "passed"
    BY <1>3 DEF CurrentState
<1>4. CASE cb.expiry = "passed" /\ cb.state = "closed"
    BY <1>1, <1>2, <1>4, NewGenerationSound DEF CurrentState
<1>5. CASE cb.expiry = "passed" /\ cb.state # "closed"
    <2>1. cb.state = "open"
        BY <1>1, <1>5 DEF Sound, Breakers, States
    <2> QED BY <1>1, <1>2, <1>5, <2>1, SetStateSound DEF CurrentState, States
<1> QED BY <1>3, <1>4, <1>5

\* beforeRequest admits a call.
LEMMA AdmitSound ==
    ASSUME NEW b, NEW r \in Runs, NEW c \in Calls, Sound(b, r),
           r[c] = None, b.state # "open",
           b.state = "half-open" => b.counts.requests < MaxRequests
    PROVE  Sound([b EXCEPT !.counts.requests = @ + 1], [r EXCEPT ![c] = b.generation])
<1> DEFINE d == [b EXCEPT !.counts.requests = @ + 1]
           q == [r EXCEPT ![c] = b.generation]
<1>1. /\ d \in Breakers
      /\ d.state = b.state /\ d.generation = b.generation /\ d.expiry = b.expiry
      /\ d.counts.requests = b.counts.requests + 1
      /\ d.counts.successes = b.counts.successes
      /\ d.counts.failures = b.counts.failures
      /\ d.counts.wins = b.counts.wins
    BY DEF Sound, Breakers, Counts
<1>2. b.generation \in Gens /\ b.generation # None
    BY ConstantsAssumption DEF Sound, Breakers
<1>3. Counted(d, q) = Counted(b, r) \cup {c} /\ c \notin Counted(b, r)
    BY <1>1, <1>2 DEF Counted, Runs
<1>4. Cardinality(Counted(d, q)) = Cardinality(Counted(b, r)) + 1
    BY <1>3, CountedFinite, FS_AddElement
<1>5. Cardinality(Counted(b, r)) \in Nat /\ b.counts \in Counts
    BY CountedFinite DEF Sound, Breakers
<1> HIDE DEF d, q
<1> QED
    <2>1. Sound(d, q)
        BY <1>1, <1>4, <1>5, ConstantsAssumption DEF Sound, Counts
    <2> QED BY <2>1 DEF d, q

\* A call of another generation ends.
LEMMA EndStaleSound ==
    ASSUME NEW b, NEW r \in Runs, NEW c \in Calls, Sound(b, r), r[c] # b.generation
    PROVE  Sound(b, [r EXCEPT ![c] = None])
<1>1. b.generation # None
    BY ConstantsAssumption DEF Sound, Breakers
<1>2. Counted(b, [r EXCEPT ![c] = None]) = Counted(b, r)
    BY <1>1 DEF Counted, Runs
<1> QED BY <1>2 DEF Sound

\* A current call ends: one running call less to count.
LEMMA EndCounted ==
    ASSUME NEW b, NEW r \in Runs, NEW c \in Calls, Sound(b, r), r[c] = b.generation,
           NEW d, d.generation = b.generation
    PROVE  /\ Cardinality(Counted(d, [r EXCEPT ![c] = None])) = Cardinality(Counted(b, r)) - 1
           /\ Cardinality(Counted(d, [r EXCEPT ![c] = None])) \in Nat
           /\ Cardinality(Counted(b, r)) \in Nat
<1>1. b.generation # None
    BY ConstantsAssumption DEF Sound, Breakers
<1>2. Counted(d, [r EXCEPT ![c] = None]) = Counted(b, r) \ {c}
    BY <1>1 DEF Counted, Runs
<1>3. c \in Counted(b, r)
    BY DEF Counted
<1>4. Cardinality(Counted(b, r) \ {c}) = Cardinality(Counted(b, r)) - 1
    BY <1>3, CountedFinite, FS_RemoveElement
<1> QED BY <1>2, <1>4, CountedFinite

\* What one result does to the counts.
LEMMA SucceededCounts ==
    ASSUME NEW n \in Counts
    PROVE  /\ Succeeded(n) \in Counts
           /\ Succeeded(n).requests = n.requests
           /\ Succeeded(n).successes = n.successes + 1
           /\ Succeeded(n).failures = n.failures
           /\ Succeeded(n).wins = n.wins + 1
BY DEF Succeeded, Counts

\* onFailure: one more failure, and one more in a row.
LEMMA FailedCounts ==
    ASSUME NEW n \in Counts
    PROVE  /\ Failed(n) \in Counts
           /\ Failed(n).requests = n.requests
           /\ Failed(n).successes = n.successes
           /\ Failed(n).failures = n.failures + 1
           /\ Failed(n).losses = n.losses + 1
BY DEF Failed, Counts

\* onSuccess of a current call, in the closed or the half-open state.
LEMMA SuccessSound ==
    ASSUME NEW b, NEW r \in Runs, NEW c \in Calls, Sound(b, r), r[c] = b.generation,
           b.state # "open", Fresh \in Gens, \A e \in Calls : r[e] # Fresh, Fresh # None
    PROVE  /\ Sound(OnSuccess(b), [r EXCEPT ![c] = None])
           /\ \/ OnSuccess(b).state = b.state /\ OnSuccess(b).generation = b.generation
              \/ /\ b.state = "half-open" /\ OnSuccess(b).state = "closed"
                 /\ OnSuccess(b).generation = Fresh
<1> DEFINE d == [b EXCEPT !.counts = Succeeded(@)]
           q == [r EXCEPT ![c] = None]
<1>1. /\ d \in Breakers
      /\ d.state = b.state /\ d.generation = b.generation /\ d.expiry = b.expiry
      /\ d.counts.requests = b.counts.requests
      /\ d.counts.successes = b.counts.successes + 1
      /\ d.counts.failures = b.counts.failures
      /\ d.counts.wins = b.counts.wins + 1
    <2>1. b \in Breakers /\ b.counts \in Counts
        BY DEF Sound, Breakers
    <2>2. /\ Succeeded(b.counts) \in Counts
          /\ Succeeded(b.counts).requests = b.counts.requests
          /\ Succeeded(b.counts).successes = b.counts.successes + 1
          /\ Succeeded(b.counts).failures = b.counts.failures
          /\ Succeeded(b.counts).wins = b.counts.wins + 1
        BY <2>1, SucceededCounts
    <2> QED BY <2>1, <2>2 DEF Breakers
<1>2. /\ Cardinality(Counted(d, q)) = Cardinality(Counted(b, r)) - 1
      /\ Cardinality(Counted(d, q)) \in Nat
      /\ Cardinality(Counted(b, r)) \in Nat
    <2> HIDE DEF d
    <2> QED BY <1>1, EndCounted
<1>3. b.counts \in Counts
    BY DEF Sound, Breakers
<1>4. OnSuccess(b) = IF b.state = "half-open" /\ d.counts.wins >= MaxRequests
                     THEN SetState(d, "closed") ELSE d
    BY DEF OnSuccess
<1> HIDE DEF d
<1>5. CASE b.state = "half-open" /\ d.counts.wins >= MaxRequests
    <2>1. \A e \in Calls : q[e] # Fresh
        BY DEF Runs
    <2> HIDE DEF q
    <2>2. /\ Sound(SetState(d, "closed"), q)
          /\ SetState(d, "closed").state = "closed"
          /\ SetState(d, "closed").generation = Fresh
        BY <1>1, <1>5, <2>1, SetStateSound DEF States
    <2> QED BY <1>4, <1>5, <2>2 DEF q
<1>6. CASE ~(b.state = "half-open" /\ d.counts.wins >= MaxRequests)
    <2> HIDE DEF q
    <2>1. Sound(d, q)
        BY <1>1, <1>2, <1>3, <1>6, ConstantsAssumption DEF Sound, Counts
    <2> QED BY <1>1, <1>4, <1>6, <2>1 DEF q
<1> QED BY <1>5, <1>6

\* What onFailure may make of b, whatever the policy says.
FailsTo(b, x) ==
    LET d == [b EXCEPT !.counts = Failed(@)] IN
    \/ x = SetState(b, "open")
    \/ x = SetState(d, "open")
    \/ x = d /\ b.state # "half-open"

\* onFailure of a current call, in the closed or the half-open state.
LEMMA FailureSound ==
    ASSUME NEW b, NEW r \in Runs, NEW c \in Calls, Sound(b, r), r[c] = b.generation,
           b.state # "open", Fresh \in Gens, \A e \in Calls : r[e] # Fresh, Fresh # None,
           NEW f, FailsTo(b, f)
    PROVE  /\ Sound(f, [r EXCEPT ![c] = None])
           /\ \/ f.state = b.state /\ f.generation = b.generation
              \/ f.state = "open" /\ f.generation = Fresh
<1> DEFINE d == [b EXCEPT !.counts = Failed(@)]
           q == [r EXCEPT ![c] = None]
<1>1. /\ d \in Breakers /\ b \in Breakers
      /\ d.state = b.state /\ d.generation = b.generation /\ d.expiry = b.expiry
      /\ d.counts.requests = b.counts.requests
      /\ d.counts.successes = b.counts.successes
      /\ d.counts.failures = b.counts.failures + 1
    <2>1. b \in Breakers /\ b.counts \in Counts
        BY DEF Sound, Breakers
    <2>2. /\ Failed(b.counts) \in Counts
          /\ Failed(b.counts).requests = b.counts.requests
          /\ Failed(b.counts).successes = b.counts.successes
          /\ Failed(b.counts).failures = b.counts.failures + 1
          /\ Failed(b.counts).losses = b.counts.losses + 1
        BY <2>1, FailedCounts
    <2> QED BY <2>1, <2>2 DEF Breakers
<1>2. /\ Cardinality(Counted(d, q)) = Cardinality(Counted(b, r)) - 1
      /\ Cardinality(Counted(d, q)) \in Nat
      /\ Cardinality(Counted(b, r)) \in Nat
    <2> HIDE DEF d
    <2> QED BY <1>1, EndCounted
<1>3. b.counts \in Counts
    BY DEF Sound, Breakers
<1>4. \/ f = SetState(b, "open")
      \/ f = SetState(d, "open")
      \/ f = d /\ b.state # "half-open"
    BY DEF FailsTo
<1> HIDE DEF d
<1>5. \A e \in Calls : q[e] # Fresh
    BY DEF Runs
<1>6. ASSUME NEW x \in Breakers, x.state # "open", f = SetState(x, "open")
      PROVE  /\ Sound(f, q)
             /\ f.state = "open" /\ f.generation = Fresh
    <2> HIDE DEF q
    <2>1. "open" \in States
        BY DEF States
    <2> QED BY <1>5, <1>6, <2>1, SetStateSound
<1>7. CASE f = SetState(b, "open") \/ f = SetState(d, "open")
    BY <1>1, <1>6, <1>7
<1>8. CASE f = d /\ b.state # "half-open"
    <2> HIDE DEF q
    <2>1. Sound(d, q)
        BY <1>1, <1>2, <1>3, <1>8 DEF Sound, Counts
    <2> QED BY <1>1, <1>8, <2>1 DEF q
<1> QED BY <1>4, <1>7, <1>8

\* What a step other than a Reset may do to the state: the arrows of
\* BreakerStates.
Moves ==
    \/ cb'.state = cb.state
    \/ cb.state = "closed" /\ cb'.state = "open"
    \/ cb.state = "open" /\ cb'.state = "half-open"
    \/ cb.state = "half-open" /\ cb'.state \in {"closed", "open"}

\* The ghost after a step of call c (or of none of the calls): a change of
\* state begins a generation, which none of the calls that run then holds.
LEMMA StaleStep ==
    ASSUME IInv, NEW c,
           \A d \in Calls : d # c => running'[d] = running[d],
           \/ cb'.generation = Fresh
           \/ cb'.generation = cb.generation /\ cb'.state = cb.state,
           stale' = (IF cb'.state # cb.state
                     THEN {d \in Calls : running[d] # None} ELSE stale) \ {c}
    PROVE  stale' \subseteq Calls /\ StaleIsOld'
<1>1. running \in Runs /\ cb.generation \in Gens /\ stale \subseteq Calls
    BY DEF IInv, TypeOK, Runs, Breakers
<1>2. \A d \in Calls : running[d] # Fresh
    BY <1>1, FreshIsNew
<1>3. \A d \in stale : running[d] # None /\ running[d] # cb.generation
    BY DEF IInv, StaleIsOld
<1> QED BY <1>1, <1>2, <1>3 DEF StaleIsOld

\* beforeRequest admits a call, into the generation that its own time check left.
LEMMA AdmitStep ==
    ASSUME IInv, NEW c \in Calls, Admit(c)
    PROVE  IInv' /\ Moves
<1> DEFINE b == CurrentState(cb)
<1>1. Sound(cb, running) /\ running \in Runs
    BY IInvIsSound
<1>2. /\ running[c] = None /\ b.state # "open"
      /\ b.state = "half-open" => b.counts.requests < MaxRequests
      /\ cb' = [b EXCEPT !.counts.requests = @ + 1]
      /\ running' = [running EXCEPT ![c] = b.generation]
      /\ healthy' = healthy
      /\ stale' = (IF cb'.state # cb.state
                   THEN {d \in Calls : running[d] # None} ELSE stale) \ {c}
    BY DEF Admit, Age
<1>3. /\ Sound(b, running)
      /\ b = cb \/ b.generation = Fresh
      /\ b.state = cb.state \/ (cb.state = "open" /\ b.state = "half-open")
    BY <1>1, CurrentStateSound
<1> HIDE DEF b
<1>4. Sound(cb', running')
    BY <1>1, <1>2, <1>3, AdmitSound
<1>5. b \in Breakers
    BY <1>3 DEF Sound
<1>6. cb'.state = b.state /\ cb'.generation = b.generation
    BY <1>2, <1>5 DEF Breakers
<1>7. running' \in Runs /\ \A d \in Calls : d # c => running'[d] = running[d]
    BY <1>1, <1>2, <1>5 DEF Runs, Breakers
<1>8. stale' \subseteq Calls /\ StaleIsOld'
    BY <1>2, <1>3, <1>6, <1>7, StaleStep
<1>9. healthy' \in BOOLEAN
    BY <1>2 DEF IInv, TypeOK
<1>10. IInv'
    BY <1>4, <1>7, <1>8, <1>9, IInvAfter
<1> QED BY <1>3, <1>6, <1>10 DEF Moves

\* A refused call and an observer move the breaker on and do nothing else.
LEMMA MoveOnStep ==
    ASSUME IInv, NEW c, cb' = CurrentState(cb), UNCHANGED <<running, healthy>>,
           stale' = (IF cb'.state # cb.state
                     THEN {d \in Calls : running[d] # None} ELSE stale) \ {c}
    PROVE  IInv' /\ Moves
<1>1. /\ Sound(cb, running) /\ running \in Runs /\ healthy \in BOOLEAN
    BY IInvIsSound
<1>2. /\ Sound(cb', running)
      /\ cb' = cb \/ cb'.generation = Fresh
      /\ cb'.state = cb.state \/ (cb.state = "open" /\ cb'.state = "half-open")
    BY <1>1, CurrentStateSound
<1>3. stale' \subseteq Calls /\ StaleIsOld'
    BY <1>2, StaleStep
<1>4. IInv'
    BY <1>1, <1>2, <1>3, IInvAfter
<1> QED BY <1>2, <1>4 DEF Moves

\* afterRequest, whatever the policy makes of a failure.
Ends(c, success) ==
    LET b == CurrentState(cb) IN
    /\ running[c] # None /\ running' = [running EXCEPT ![c] = None]
    /\ Age(c) /\ healthy' = healthy
    /\ IF b.generation # running[c] \/ b.state = "open" THEN cb' = b
       ELSE IF success THEN cb' = OnSuccess(b) ELSE FailsTo(b, cb')

\* It counts a result of its generation and drops any other.
LEMMA EndStep ==
    ASSUME IInv, NEW c \in Calls, NEW success \in BOOLEAN, Ends(c, success)
    PROVE  IInv' /\ Moves
<1> DEFINE b == CurrentState(cb)
<1>1. Sound(cb, running) /\ running \in Runs /\ cb.generation \in Gens
    BY IInvIsSound DEF Sound, Breakers
<1>2. /\ running[c] # None
      /\ running' = [running EXCEPT ![c] = None]
      /\ healthy' = healthy
      /\ stale' = (IF cb'.state # cb.state
                   THEN {d \in Calls : running[d] # None} ELSE stale) \ {c}
    BY DEF Ends, Age
<1>r. IF b.generation # running[c] \/ b.state = "open" THEN cb' = b
      ELSE IF success THEN cb' = OnSuccess(b) ELSE FailsTo(b, cb')
    BY DEF Ends
<1>3. /\ Sound(b, running)
      /\ b = cb \/ b.generation = Fresh
      /\ b.state = cb.state \/ (cb.state = "open" /\ b.state = "half-open")
    BY <1>1, CurrentStateSound
<1>4. /\ Fresh \in Gens /\ Fresh # None
      /\ \A d \in Calls : running[d] # Fresh
    BY <1>1, FreshIsNew, ConstantsAssumption
<1> HIDE DEF b
<1>5. /\ Sound(cb', running')
      /\ \/ cb'.generation = Fresh
         \/ cb'.generation = cb.generation /\ cb'.state = cb.state
      /\ Moves
    <2>1. CASE b.generation # running[c]
        <3>1. cb' = b
            BY <1>r, <2>1
        <3>2. Sound(cb', running')
            BY <1>1, <1>2, <1>3, <2>1, <3>1, EndStaleSound
        <3> QED BY <1>3, <3>1, <3>2 DEF Moves
    <2>2. CASE b.generation = running[c]
        <3>1. b = cb
            BY <1>3, <1>4, <2>2
        <3>2. b.state # "open"
            BY <1>3, <2>2 DEF Sound, Counted
        <3>3. CASE success
            <4>1. cb' = OnSuccess(b)
                BY <1>r, <2>2, <3>2, <3>3
            <4>2. /\ Sound(cb', running')
                  /\ \/ cb'.state = b.state /\ cb'.generation = b.generation
                     \/ /\ b.state = "half-open" /\ cb'.state = "closed"
                        /\ cb'.generation = Fresh
                BY <1>1, <1>2, <1>3, <1>4, <2>2, <3>2, <4>1, SuccessSound
            <4> QED BY <3>1, <4>2 DEF Moves
        <3>4. CASE ~success
            <4>1. FailsTo(b, cb')
                BY <1>r, <2>2, <3>2, <3>4
            <4>2. /\ Sound(cb', running')
                  /\ \/ cb'.state = b.state /\ cb'.generation = b.generation
                     \/ cb'.state = "open" /\ cb'.generation = Fresh
                BY <1>1, <1>2, <1>3, <1>4, <2>2, <3>2, <4>1, FailureSound
            <4>3. b.state \in {"closed", "half-open"}
                BY <1>3, <3>2 DEF Sound, Breakers, States
            <4> QED BY <3>1, <4>2, <4>3 DEF Moves
        <3> QED BY <3>3, <3>4
    <2> QED BY <2>1, <2>2
<1>6. running' \in Runs /\ \A d \in Calls : d # c => running'[d] = running[d]
    BY <1>1, <1>2 DEF Runs
<1>7. stale' \subseteq Calls /\ StaleIsOld'
    BY <1>2, <1>5, <1>6, StaleStep
<1>8. healthy' \in BOOLEAN
    BY <1>2 DEF IInv, TypeOK
<1> QED BY <1>5, <1>6, <1>7, <1>8, IInvAfter

\* afterRequest under the policy of the configuration.
LEMMA AfterRequestStep ==
    ASSUME IInv, NEW c \in Calls, NEW success \in BOOLEAN, AfterRequest(c, success)
    PROVE  IInv' /\ Moves
<1>1. ASSUME NEW b PROVE FailsTo(b, OnFailure(b))
    BY DEF FailsTo, OnFailure
<1>2. Ends(c, success)
    BY <1>1 DEF AfterRequest, Ends
<1> QED BY <1>2, EndStep

\* Reset closes the breaker under a new generation.
LEMMA ResetStep ==
    ASSUME IInv, Reset
    PROVE  IInv' /\ ManualReset /\ cb'.state = "closed"
<1> DEFINE n == ToNewGeneration(cb)
<1>1. /\ cb \in Breakers /\ cb.generation \in Gens
      /\ running \in Runs /\ healthy \in BOOLEAN /\ stale \subseteq Calls
    BY IInvIsSound DEF Sound, Breakers
<1>2. Fresh \in Gens /\ \A d \in Calls : running[d] # Fresh
    BY <1>1, FreshIsNew
<1>3. Sound(n, running) /\ n \in Breakers /\ n.generation = Fresh
    BY <1>1, <1>2, NewGenerationSound
<1>4. cb' = SetState(n, "closed") /\ running' = running /\ healthy' = healthy /\ ManualReset
    BY DEF Reset
<1> HIDE DEF n
<1>5. Sound(cb', running) /\ cb'.state = "closed" /\ cb'.generation = Fresh
    <2>1. CASE n.state = "closed"
        BY <1>3, <1>4, <2>1 DEF SetState
    <2>2. CASE n.state # "closed"
        BY <1>2, <1>3, <1>4, <2>2, SetStateSound DEF States
    <2> QED BY <2>1, <2>2
<1>6. stale' \subseteq Calls /\ StaleIsOld'
    BY <1>4, <1>5, StaleStep DEF Reset, Age
<1>7. IInv'
    BY <1>1, <1>4, <1>5, <1>6, IInvAfter
<1> QED BY <1>4, <1>5, <1>7

\* Time passing ends an interval or a timeout, and counts nothing.
LEMMA ExpireStep ==
    ASSUME IInv, Expire
    PROVE  IInv' /\ Moves
<1>1. cb \in Breakers /\ cb.state # "half-open" /\ running \in Runs
    BY IInvIsSound DEF Expire, Sound
<1>2. /\ cb' \in Breakers /\ cb'.expiry = "passed"
      /\ cb'.state = cb.state /\ cb'.generation = cb.generation /\ cb'.counts = cb.counts
    BY <1>1 DEF Expire, Breakers
<1>3. running' = running /\ stale' = stale /\ healthy' = healthy
    BY DEF Expire
<1>4. Sound(cb', running')
    BY <1>1, <1>2, <1>3, IInvIsSound DEF Sound, Counted
<1>5. StaleIsOld'
    BY <1>2, <1>3 DEF StaleIsOld, IInv
<1>6. IInv'
    BY <1>1, <1>3, <1>4, <1>5, IInvAfter, IInvIsSound
<1> QED BY <1>2, <1>6 DEF Moves

\* A new breaker is closed, with nothing counted.
LEMMA InitIInv == Init => IInv
<1> SUFFICES ASSUME Init PROVE IInv
    OBVIOUS
<1>1. PICK g \in Gens :
          cb = [state |-> "closed", generation |-> g, expiry |-> "pending", counts |-> Zero]
    BY DEF Init
<1>2. cb \in Breakers /\ cb.state = "closed" /\ cb.expiry = "pending" /\ cb.counts = Zero
      /\ cb.generation \in Gens
    BY <1>1 DEF Breakers, States, Zero, Counts
<1>3. running \in Runs /\ Counted(cb, running) = {}
    BY <1>2, ConstantsAssumption DEF Init, Runs, Counted
<1>4. Cardinality(Counted(cb, running)) = 0
    BY <1>3, FS_EmptySet
<1>5. Sound(cb, running)
    BY <1>2, <1>4 DEF Sound, Zero
<1>6. stale \subseteq Calls /\ healthy \in BOOLEAN /\ StaleIsOld
    BY DEF Init, StaleIsOld
<1> QED BY <1>3, <1>5, <1>6, IInvIsSound

\* Every step keeps the invariant and moves the state machine as allowed.
LEMMA NextStep ==
    ASSUME IInv, [Next]_vars
    PROVE  IInv' /\ (Moves \/ (ManualReset /\ cb'.state = "closed"))
<1>1. ASSUME NEW c \in Calls, Admit(c) PROVE IInv' /\ Moves
    BY <1>1, AdmitStep
<1>2. ASSUME NEW c \in Calls, Refuse(c) PROVE IInv' /\ Moves
    BY <1>2, MoveOnStep DEF Refuse, Age
<1>3. ASSUME NEW c \in Calls, NEW success \in BOOLEAN, AfterRequest(c, success)
      PROVE  IInv' /\ Moves
    BY <1>3, AfterRequestStep
<1>4. CASE Observe
    BY <1>4, MoveOnStep DEF Observe, Age
<1>5. CASE Reset
    BY <1>5, ResetStep
<1>6. CASE Expire
    BY <1>6, ExpireStep
<1>7. CASE Heal \/ UNCHANGED vars
    BY <1>7 DEF Heal, vars, IInv, TypeOK, CountsBalance, CountsByState, StaleIsOld,
                Current, Moves
<1> QED BY <1>1, <1>2, <1>3, <1>4, <1>5, <1>6, <1>7 DEF Next

\* circuitbreaker.go:153-213: whenever a call ends, the counts of the window
\* account for exactly the calls it admitted.
THEOREM InductiveInvariant == Spec => []IInv
<1>1. IInv /\ [Next]_vars => IInv'
    BY NextStep
<1> QED BY <1>1, InitIInv, PTL DEF Spec

\* circuitbreaker.go:199-240: every admitted request is counted once, in its window.
THEOREM CountsBalanceThm == Spec => []CountsBalance
<1>1. IInv => CountsBalance
  BY DEF IInv
<1> QED BY <1>1, InductiveInvariant, PTL

\* circuitbreaker.go:190: at most MaxRequests probes at once.
THEOREM ProbeLimitThm == Spec => []ProbeLimit
<1>1. IInv => ProbeLimit
    <2> SUFFICES ASSUME IInv, cb.state = "half-open"
                 PROVE  Cardinality(Current) <= MaxRequests
        BY DEF ProbeLimit
    <2>1. Cardinality(Current) \in Nat /\ cb.counts \in Counts
        BY CountedFinite DEF Counted, Current, IInv, TypeOK, Breakers
    <2> QED BY <2>1, ConstantsAssumption DEF IInv, CountsBalance, CountsByState, Counts
<1> QED BY <1>1, InductiveInvariant, PTL

\* circuitbreaker.go:227: a half-open breaker is never stuck.
THEOREM HalfOpenCanDecideThm == Spec => []HalfOpenCanDecide
<1>1. IInv => HalfOpenCanDecide
    <2> SUFFICES ASSUME IInv, cb.state = "half-open", Current = {}
                 PROVE  cb.counts.requests < MaxRequests
        BY DEF HalfOpenCanDecide
    <2>1. Cardinality(Current) = 0 /\ cb.counts \in Counts
        BY FS_EmptySet DEF IInv, TypeOK, Breakers
    <2> QED BY <2>1, ConstantsAssumption DEF IInv, CountsBalance, CountsByState, Counts
<1> QED BY <1>1, InductiveInvariant, PTL

\* circuitbreaker.go:204: the result of a call admitted before the last change
\* of state changes nothing.
THEOREM StaleResultsIgnoredThm == Spec => StaleResultsIgnored
<1> DEFINE P == \A c \in stale : running'[c] = None /\ cb.state # "open" => cb'.state = cb.state
<1>1. IInv /\ [Next]_vars => [P]_vars
    <2> SUFFICES ASSUME IInv, Next, NEW c \in stale, running'[c] = None, cb.state # "open"
                 PROVE  cb'.state = cb.state
        OBVIOUS
    <2>1. /\ c \in Calls /\ running[c] # None /\ running[c] # cb.generation
          /\ Sound(cb, running) /\ running \in Runs /\ cb.generation \in Gens
        BY IInvIsSound DEF StaleIsOld, Sound, Breakers
    <2>2. PICK success \in BOOLEAN : AfterRequest(c, success)
        <3>1. running'[c] # running[c]
            BY <2>1
        <3>2. ASSUME NEW d \in Calls, Admit(d) PROVE FALSE
            BY <3>1, <3>2, <2>1 DEF Admit, Runs
        <3>3. ASSUME NEW d \in Calls, NEW x \in BOOLEAN, AfterRequest(d, x), d # c PROVE FALSE
            BY <3>1, <3>3, <2>1 DEF AfterRequest, Runs
        <3>4. \/ \E d \in Calls : Refuse(d)
              \/ Observe \/ Reset \/ Expire \/ Heal
              => FALSE
            BY <3>1 DEF Refuse, Observe, Reset, Expire, Heal
        <3> QED BY <3>2, <3>3, <3>4 DEF Next
    <2>3. /\ CurrentState(cb) = cb \/ CurrentState(cb).generation = Fresh
          /\ CurrentState(cb).state = cb.state
        BY <2>1, CurrentStateSound
    <2>4. CurrentState(cb).generation # running[c]
        BY <2>1, <2>3, FreshIsNew
    <2> QED BY <2>2, <2>3, <2>4 DEF AfterRequest
<1> QED BY <1>1, InductiveInvariant, PTL DEF Spec, StaleResultsIgnored

\* circuitbreaker.go:13-19: the breaker implements the documented state machine.
THEOREM ImplementsStatesThm == Spec => ImplementsStates
<1>1. Init => SM!Init
    BY DEF Init, SM!Init
<1>2. IInv /\ [Next]_vars => [SM!Next]_(cb.state)
    <2> SUFFICES ASSUME IInv, [Next]_vars PROVE [SM!Next]_(cb.state)
        OBVIOUS
    <2>1. Moves \/ (ManualReset /\ cb'.state = "closed")
        BY NextStep
    <2> QED BY <2>1 DEF Moves, SM!Next, SM!Trip, SM!Cool, SM!Recover, SM!Relapse, SM!Reset
<1> QED BY <1>1, <1>2, InductiveInvariant, PTL DEF Spec, ImplementsStates, SM!Spec

-----------------------------------------------------------------------------
(* Without a Reset *)

\* The breaker without a Reset differs in its policy and takes no other steps.
LEMMA UnaidedStep ==
    ASSUME IInv, Unaided!Next
    PROVE  IInv' /\ Moves
<1>0. /\ Unaided!Fresh = Fresh
      /\ Unaided!CurrentState(cb) = CurrentState(cb)
      /\ \A c : Unaided!Age(c) <=> Age(c)
    BY DEF Unaided!Fresh, Fresh, Unaided!CurrentState, CurrentState, Unaided!SetState, SetState,
           Unaided!ToNewGeneration, ToNewGeneration, Unaided!Zero, Zero, Unaided!Age, Age
<1>1. ASSUME NEW c \in Calls, Unaided!Admit(c) PROVE IInv' /\ Moves
    <2>1. Admit(c)
        BY <1>0, <1>1 DEF Unaided!Admit, Admit
    <2> QED BY <2>1, AdmitStep
<1>2. ASSUME NEW c \in Calls, Unaided!Refuse(c) PROVE IInv' /\ Moves
    BY <1>0, <1>2, MoveOnStep DEF Unaided!Refuse, Age
<1>3. ASSUME NEW c \in Calls, NEW success \in BOOLEAN, Unaided!AfterRequest(c, success)
      PROVE  IInv' /\ Moves
    <2>1. ASSUME NEW b
          PROVE  Unaided!OnSuccess(b) = OnSuccess(b) /\ FailsTo(b, Unaided!OnFailure(b))
        BY DEF Unaided!OnSuccess, OnSuccess, Unaided!OnFailure, FailsTo, Unaided!SetState,
               SetState, Unaided!ToNewGeneration, ToNewGeneration, Unaided!Zero, Zero,
               Unaided!Fresh, Fresh, Unaided!Succeeded, Succeeded, Unaided!Failed, Failed
    <2>2. Ends(c, success)
        BY <1>0, <1>3, <2>1 DEF Unaided!AfterRequest, Ends
    <2> QED BY <2>2, EndStep
<1>4. CASE Unaided!Observe
    BY <1>0, <1>4, MoveOnStep DEF Unaided!Observe, Age
<1>5. CASE Unaided!Reset
    BY <1>5 DEF Unaided!Reset
<1>6. CASE Unaided!Expire
    <2>1. Expire
        BY <1>6 DEF Unaided!Expire, Expire
    <2> QED BY <2>1, ExpireStep
<1>7. CASE Unaided!Heal
    BY <1>7 DEF Unaided!Heal, IInv, TypeOK, CountsBalance, CountsByState, StaleIsOld,
                Current, Moves
<1> QED BY <1>1, <1>2, <1>3, <1>4, <1>5, <1>6, <1>7 DEF Unaided!Next

\* What a step of the node breaker may do to its state when nobody resets it.
NodeMoves ==
    \/ node'.state = node.state
    \/ node.state = "closed" /\ node'.state = "open"
    \/ node.state = "open" /\ node'.state = "half-open"
    \/ node.state = "half-open" /\ node'.state \in {"closed", "open"}

\* setState keeps the types and sets the state.
LEMMA NodeSetState ==
    ASSUME NEW n \in UnaidedNode!NodeStates, NEW to \in {"closed", "open", "half-open"}
    PROVE  /\ UnaidedNode!SetState(n, to) \in UnaidedNode!NodeStates
           /\ UnaidedNode!SetState(n, to).state = to
BY DEF UnaidedNode!SetState, UnaidedNode!NodeStates

\* Reports of calls that were admitted before the last change of state arrive at
\* any time, and still only a half-open breaker closes.
LEMMA NodeBreakerStep ==
    ASSUME node \in UnaidedNode!NodeStates, UnaidedNode!Next
    PROVE  node' \in UnaidedNode!NodeStates /\ NodeMoves
<1>0. node.state \in {"closed", "open", "half-open"}
    BY DEF UnaidedNode!NodeStates
<1>1. ASSUME NEW c \in Calls, UnaidedNode!Available(c)
      PROVE  node' \in UnaidedNode!NodeStates /\ NodeMoves
    <2>1. ASSUME NEW n \in UnaidedNode!NodeStates
          PROVE  /\ UnaidedNode!Probe(n) \in UnaidedNode!NodeStates
                 /\ UnaidedNode!Probe(n).state = n.state
        BY DEF UnaidedNode!Probe, UnaidedNode!NodeStates
    <2>2. /\ UnaidedNode!SetState(node, "half-open") \in UnaidedNode!NodeStates
          /\ UnaidedNode!SetState(node, "half-open").state = "half-open"
        BY NodeSetState
    <2> QED BY <1>1, <2>1, <2>2 DEF UnaidedNode!Available, NodeMoves
<1>2. ASSUME NEW c \in Calls, NEW ok \in BOOLEAN, UnaidedNode!Report(c, ok)
      PROVE  node' \in UnaidedNode!NodeStates /\ NodeMoves
    <2> DEFINE n == [node EXCEPT !.inflight = FALSE]
    <2>1. n \in UnaidedNode!NodeStates /\ n.state = node.state
        BY DEF UnaidedNode!NodeStates
    <2>2. \/ node' \in {[node EXCEPT !.fails = 0], [node EXCEPT !.fails = @ + 1],
                        [n EXCEPT !.succs = @ + 1], node}
          \/ node.state = "closed" /\ node' = UnaidedNode!SetState(node, "open")
          \/ node.state = "half-open" /\ node' = UnaidedNode!SetState(n, "closed")
          \/ node.state = "half-open" /\ node' = UnaidedNode!SetState(n, "open")
        BY <1>0, <1>2 DEF UnaidedNode!Report
    <2>3. CASE node' \in {[node EXCEPT !.fails = 0], [node EXCEPT !.fails = @ + 1],
                          [n EXCEPT !.succs = @ + 1], node}
        <3>1. [node EXCEPT !.fails = 0] \in UnaidedNode!NodeStates
            BY DEF UnaidedNode!NodeStates
        <3>2. [node EXCEPT !.fails = @ + 1] \in UnaidedNode!NodeStates
            BY DEF UnaidedNode!NodeStates
        <3>3. ASSUME NEW x \in UnaidedNode!NodeStates
              PROVE  /\ [x EXCEPT !.succs = @ + 1] \in UnaidedNode!NodeStates
                     /\ [x EXCEPT !.succs = @ + 1].state = x.state
            BY DEF UnaidedNode!NodeStates
        <3>4. /\ [node EXCEPT !.fails = 0].state = node.state
              /\ [node EXCEPT !.fails = @ + 1].state = node.state
            BY DEF UnaidedNode!NodeStates
        <3> HIDE DEF n
        <3> QED BY <2>1, <2>3, <3>1, <3>2, <3>3, <3>4 DEF NodeMoves
    <2> HIDE DEF n
    <2>4. CASE \/ node.state = "closed" /\ node' = UnaidedNode!SetState(node, "open")
               \/ node.state = "half-open" /\ node' = UnaidedNode!SetState(n, "closed")
               \/ node.state = "half-open" /\ node' = UnaidedNode!SetState(n, "open")
        BY <2>1, <2>4, NodeSetState DEF NodeMoves
    <2> QED BY <2>2, <2>3, <2>4 DEF n
<1>3. CASE (\E c \in Calls : UnaidedNode!Abandon(c)) \/ UnaidedNode!Unavailable \/ UnaidedNode!Heal
    BY <1>3 DEF UnaidedNode!Abandon, UnaidedNode!Unavailable, UnaidedNode!Heal,
                UnaidedNode!vars, NodeMoves
<1>4. CASE UnaidedNode!CoolDown \/ UnaidedNode!ProbeTimeout
    BY <1>4 DEF UnaidedNode!CoolDown, UnaidedNode!ProbeTimeout, UnaidedNode!NodeStates, NodeMoves
<1>5. CASE UnaidedNode!Reset
    BY <1>5 DEF UnaidedNode!Reset
<1> QED BY <1>1, <1>2, <1>3, <1>4, <1>5 DEF UnaidedNode!Next, UnaidedNode!End

\* What holds of the breaker that was chosen, and of the others, which rest.
ChosenInv ==
    /\ which = "unaided" => IInv
    /\ which = "unaidedNode" => node \in UnaidedNode!NodeStates

\* circuitbreaker.go:13-19 of the request breaker, :8-9 of the node breaker:
\* without a Reset an open breaker closes only through a half-open phase,
\* although results of earlier phases arrive at any time.
THEOREM UnaidedImplementsStatesThm == MCSpec => UnaidedImplementsStates
<1> DEFINE s == IF which = "unaided" THEN cb.state
                ELSE IF which = "unaidedNode" THEN node.state
                ELSE "closed"
<1>1. MCInit => ChosenInv /\ UnaidedSM!Init
    <2>1. Init => IInv /\ cb.state = "closed"
        BY InitIInv DEF Init
    <2>2. Node!Init => node \in UnaidedNode!NodeStates /\ node.state = "closed"
        BY DEF Node!Init, UnaidedNode!NodeStates
    <2> QED BY <2>1, <2>2 DEF MCInit, ChosenInv, UnaidedSM!Init
<1>2. ASSUME ChosenInv, [MCNext]_allVars PROVE ChosenInv' /\ [UnaidedSM!Next]_s
    <2>1. CASE which = "unaided" /\ RequestStep(Unaided!Next)
        <3>1. IInv' /\ Moves /\ which' = which
            BY <1>2, <2>1, UnaidedStep DEF ChosenInv, RequestStep
        <3> QED BY <2>1, <3>1 DEF ChosenInv, Moves, UnaidedSM!Next, UnaidedSM!Trip,
                    UnaidedSM!Cool, UnaidedSM!Recover, UnaidedSM!Relapse
    <2>2. CASE which = "unaidedNode" /\ NodeStep(UnaidedNode!Next)
        <3>1. node' \in UnaidedNode!NodeStates /\ NodeMoves /\ which' = which
            BY <1>2, <2>2, NodeBreakerStep DEF ChosenInv, NodeStep
        <3> QED BY <2>2, <3>1 DEF ChosenInv, NodeMoves, UnaidedSM!Next, UnaidedSM!Trip,
                    UnaidedSM!Cool, UnaidedSM!Recover, UnaidedSM!Relapse
    <2>3. CASE \/ which = "request" /\ RequestStep(Next)
               \/ RateStep(Rate!Next)
               \/ which = "node" /\ NodeStep(Node!Next)
        BY <2>3 DEF RequestStep, RateStep, NodeStep, ChosenInv
    <2>4. CASE UNCHANGED allVars
        BY <1>2, <2>4 DEF allVars, vars, ChosenInv, IInv, TypeOK, CountsBalance, CountsByState,
                          StaleIsOld, Current
    <2> QED BY <1>2, <2>1, <2>2, <2>3, <2>4 DEF MCNext
<1> QED BY <1>1, <1>2, PTL DEF MCSpec, UnaidedImplementsStates, UnaidedSM!Spec
=============================================================================
