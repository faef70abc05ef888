-------------------------- MODULE PrimitivesProofs --------------------------
(***************************************************************************)
(* Proofs about the in-process primitives, for any number of threads,      *)
(* tasks, messages and players.                                            *)
(***************************************************************************)
EXTENDS MCPrimitives, FiniteSetTheorems, SequenceTheorems, TLAPS

-----------------------------------------------------------------------------
(* KeyedMutex *)

\* The threads that use an entry are finitely many.
LEMMA UsersFinite ==
    ASSUME NEW e
    PROVE  IsFiniteSet(Users(e))
BY ConstantsAssumption, FS_Subset DEF Users

\* No key has an entry at first.
LEMMA InitIInv == Init => IInv
<1> SUFFICES ASSUME Init PROVE IInv
    OBVIOUS
<1>1. TypeOK
    BY DEF Init, TypeOK, PC
<1>2. SameEntry /\ OneKey /\ OwnerInside
    BY ConstantsAssumption DEF Init, SameEntry, OneKey, OwnerInside
<1>3. RefCounts
    BY ConstantsAssumption DEF Init, RefCounts, Users
<1> QED
    BY <1>1, <1>2, <1>3 DEF IInv

\* A new reference: of a thread that had none, to the key's entry or to a
\* freshly allocated one.
LEMMA AcquirePreserves ==
    ASSUME IInv, NEW t \in Threads, NEW k \in Keys, NEW try \in BOOLEAN,
           AcquireEntry(t, k, try)
    PROVE  IInv'
<1>0. PICK e \in Entries :
          /\ IF entries[k] = None THEN e \in Free ELSE e = entries[k]
          /\ entries' = [entries EXCEPT ![k] = e]
          /\ ref' = [ref EXCEPT ![e] = IF entries[k] = None THEN 1 ELSE @ + 1]
          /\ owner' = [owner EXCEPT ![e] = IF entries[k] = None THEN None ELSE @]
          /\ ent' = [ent EXCEPT ![t] = e]
    BY DEF AcquireEntry
<1> USE DEF IInv
<1>a. /\ pc[t] = "idle" /\ ent[t] = None /\ key[t] = None
      /\ key' = [key EXCEPT ![t] = k]
      /\ pc' = [pc EXCEPT ![t] = "lock"]
      /\ trying' \subseteq Threads
      /\ e # None /\ k # None
    BY ConstantsAssumption DEF AcquireEntry, SameEntry, TypeOK
<1>b. entries[k] = None => Users(e) = {}
    BY <1>0 DEF Free, Users
<1>c. Users(e)' = Users(e) \cup {t} /\ t \notin Users(e)
    BY <1>0, <1>a DEF Users, TypeOK
<1>d. \A f \in Entries : f # e => Users(f)' = Users(f)
    BY <1>0, <1>a, ConstantsAssumption DEF Users, TypeOK
<1>1. TypeOK'
    BY <1>0, <1>a DEF TypeOK, PC
<1>2. SameEntry'
    <2> SUFFICES ASSUME NEW s \in Threads
                 PROVE  /\ pc'[s] = "idle" <=> ent'[s] = None
                        /\ pc'[s] = "idle" <=> key'[s] = None
                        /\ pc'[s] # "idle" => entries'[key'[s]] = ent'[s]
        BY DEF SameEntry
    <2>1. CASE s = t
        BY <2>1, <1>0, <1>a DEF TypeOK
    <2>2. CASE s # t
        BY <2>2, <1>0, <1>a DEF TypeOK, SameEntry
    <2> QED BY <2>1, <2>2
<1>3. OneKey'
    <2>1. \A j \in Keys : j # k => entries[j] # e
        BY <1>0, <1>a DEF Free, OneKey, TypeOK
    <2>2. \A i, j \in Keys : entries'[i] = entries'[j] /\ entries'[i] # None => i = j
        BY <2>1, <1>0 DEF OneKey, TypeOK
    <2>3. \A j \in Keys : entries'[j] # None => \E s \in Threads : ent'[s] = entries'[j]
        <3> SUFFICES ASSUME NEW j \in Keys, entries'[j] # None
                     PROVE  \E s \in Threads : ent'[s] = entries'[j]
            OBVIOUS
        <3>1. CASE j = k
            BY <3>1, <1>0 DEF TypeOK
        <3>2. CASE j # k
            <4>1. PICK s \in Threads : ent[s] = entries[j]
                BY <3>2, <1>0 DEF OneKey, TypeOK
            <4>2. s # t
                BY <4>1, <3>2, <1>0, <1>a DEF TypeOK
            <4> QED BY <4>1, <4>2, <3>2, <1>0 DEF TypeOK
        <3> QED BY <3>1, <3>2
    <2> QED BY <2>2, <2>3 DEF OneKey
<1>4. RefCounts'
    <2> SUFFICES ASSUME NEW f \in Entries, Users(f)' # {}
                 PROVE  ref'[f] = Cardinality(Users(f)')
        BY DEF RefCounts
    <2>1. CASE f # e
        BY <2>1, <1>0, <1>d DEF RefCounts, TypeOK
    <2>2. CASE f = e /\ entries[k] = None
        <3>1. Users(e)' = {t}
            BY <2>2, <1>b, <1>c
        <3> QED BY <3>1, <2>2, <1>0, FS_Singleton DEF TypeOK
    <2>3. CASE f = e /\ entries[k] # None
        <3>1. Users(e) # {}
            BY <2>3, <1>0 DEF OneKey, Users
        <3>2. ref[e] = Cardinality(Users(e))
            BY <3>1 DEF RefCounts
        <3>3. Cardinality(Users(e) \cup {t}) = Cardinality(Users(e)) + 1
            BY <1>c, UsersFinite, FS_AddElement
        <3> QED BY <3>2, <3>3, <2>3, <1>0, <1>c DEF TypeOK
    <2> QED BY <2>1, <2>2, <2>3
<1>5. OwnerInside'
    <2>1. \A f \in Entries : f # e => owner'[f] = owner[f]
        BY <1>0 DEF TypeOK
    <2> SUFFICES ASSUME NEW s \in Threads
                 PROVE  /\ pc'[s] = "held" => owner'[ent'[s]] = s
                        /\ \A f \in Entries : owner'[f] = s /\ Users(f)' # {} =>
                              pc'[s] = "held" /\ ent'[s] = f
        BY DEF OwnerInside
    <2>2. pc'[s] = "held" => s # t /\ pc[s] = "held" /\ ent'[s] = ent[s]
        BY <1>0, <1>a DEF TypeOK
    <2>3. ASSUME pc'[s] = "held" PROVE owner'[ent'[s]] = s
        <3>1. owner[ent[s]] = s /\ ent[s] \in Entries
            BY <2>2, <2>3 DEF OwnerInside, SameEntry, TypeOK
        <3>2. CASE ent[s] # e
            BY <3>1, <3>2, <2>1, <2>2, <2>3
        <3>3. CASE ent[s] = e
            <4>1. entries[k] # None
                BY <3>3, <1>b DEF Users
            <4> QED BY <4>1, <3>1, <3>3, <2>2, <2>3, <1>0 DEF TypeOK
        <3> QED BY <3>2, <3>3
    <2>4. ASSUME NEW f \in Entries, owner'[f] = s, Users(f)' # {}
          PROVE  pc'[s] = "held" /\ ent'[s] = f
        <3>1. owner[f] = s /\ Users(f) # {}
            <4>1. CASE f # e
                BY <4>1, <2>1, <2>4, <1>d
            <4>2. CASE f = e
                <5>1. entries[k] # None /\ owner[e] = s
                    BY <4>2, <2>4, <1>0, ConstantsAssumption DEF TypeOK
                <5> QED BY <5>1, <4>2, <1>0 DEF OneKey, Users
            <4> QED BY <4>1, <4>2
        <3>2. pc[s] = "held" /\ ent[s] = f
            BY <3>1 DEF OwnerInside
        <3> QED BY <3>2, <1>0, <1>a DEF TypeOK
    <2> QED BY <2>3, <2>4
<1> QED BY <1>1, <1>2, <1>3, <1>4, <1>5

\* Taking the mutex, giving up on it and unlocking it leave map and references
\* alone.
LEMMA MutexStepPreserves ==
    ASSUME IInv, NEW t \in Threads,
           LockEntry(t) \/ TryLockFails(t) \/ Unlock(t)
    PROVE  IInv'
<1> USE DEF IInv
<1>0. /\ UNCHANGED <<entries, ref, key, ent, trying>>
      /\ pc[t] # "idle"
      /\ ent[t] \in Entries
      /\ \A e \in Entries : Users(e)' = Users(e)
    BY DEF LockEntry, TryLockFails, Unlock, SameEntry, TypeOK, Users
<1>1. TypeOK' /\ (\A s \in Threads : pc'[s] = "idle" <=> pc[s] = "idle")
    BY DEF LockEntry, TryLockFails, Unlock, TypeOK, PC
<1>2. SameEntry' /\ OneKey' /\ RefCounts'
    BY <1>0, <1>1 DEF SameEntry, OneKey, RefCounts
<1>3. OwnerInside'
    <2>1. CASE LockEntry(t)
        <3>1. \A s \in Threads : pc[s] = "held" => ent[s] # ent[t]
            BY <2>1, ConstantsAssumption DEF LockEntry, OwnerInside
        <3> QED
            BY <2>1, <3>1, <1>0, ConstantsAssumption
            DEF LockEntry, OwnerInside, TypeOK, SameEntry
    <2>2. CASE TryLockFails(t)
        BY <2>2, <1>0 DEF TryLockFails, OwnerInside, TypeOK
    <2>3. CASE Unlock(t)
        <3>1. owner[ent[t]] = t /\ \A s \in Threads : pc[s] = "held" /\ ent[s] = ent[t] => s = t
            BY <2>3 DEF Unlock, OwnerInside
        <3> QED
            BY <2>3, <3>1, <1>0, ConstantsAssumption
            DEF Unlock, OwnerInside, TypeOK, SameEntry
    <2> QED BY <2>1, <2>2, <2>3
<1> QED BY <1>1, <1>2, <1>3

\* Giving a reference back: the entry leaves the map exactly when no other
\* thread refers to it.
LEMMA ReleasePreserves ==
    ASSUME IInv, NEW t \in Threads, ReleaseEntry(t)
    PROVE  IInv'
<1> USE DEF IInv
<1>0. PICK e \in Entries, k \in Keys :
          /\ e = ent[t] /\ k = key[t] /\ entries[k] = e
          /\ pc[t] = "release"
          /\ ref' = [ref EXCEPT ![e] = @ - 1]
          /\ pc' = [pc EXCEPT ![t] = "idle"]
          /\ ent' = [ent EXCEPT ![t] = None]
          /\ key' = [key EXCEPT ![t] = None]
          /\ UNCHANGED <<owner, trying>>
    BY DEF ReleaseEntry, SameEntry, TypeOK
<1>a. t \in Users(e) /\ ref[e] = Cardinality(Users(e))
    BY <1>0 DEF Users, RefCounts
<1>b. /\ Users(e)' = Users(e) \ {t}
      /\ \A f \in Entries : f # e => Users(f)' = Users(f)
    BY <1>0, ConstantsAssumption DEF Users, TypeOK
<1>c. Cardinality(Users(e) \ {t}) = Cardinality(Users(e)) - 1
    BY <1>a, UsersFinite, FS_RemoveElement
<1>d. /\ Cardinality(Users(e) \ {t}) \in Nat
      /\ Cardinality(Users(e) \ {t}) = 0 <=> Users(e) \ {t} = {}
    <2>1. IsFiniteSet(Users(e) \ {t})
        BY UsersFinite, FS_RemoveElement
    <2> QED BY <2>1, FS_CardinalityType, FS_EmptySet
<1>e. Cardinality(Users(e)) \in Nat
    BY UsersFinite, FS_CardinalityType
<1>f. ref[e] = 1 <=> Users(e)' = {}
    BY <1>a, <1>b, <1>c, <1>d, <1>e
<1>g. /\ ref[e] = 1 => entries' = [entries EXCEPT ![k] = None]
      /\ ref[e] # 1 => entries' = entries
    BY <1>0 DEF ReleaseEntry
<1>1. TypeOK'
    <2>1. ref[e] - 1 \in Nat
        BY <1>a, <1>c, <1>d
    <2>2. entries' \in [Keys -> Entries \cup {None}]
        BY <1>g, <1>0 DEF TypeOK
    <2> QED BY <2>1, <2>2, <1>0 DEF TypeOK, PC
<1>2. SameEntry'
    <2> SUFFICES ASSUME NEW s \in Threads
                 PROVE  /\ pc'[s] = "idle" <=> ent'[s] = None
                        /\ pc'[s] = "idle" <=> key'[s] = None
                        /\ pc'[s] # "idle" => entries'[key'[s]] = ent'[s]
        BY DEF SameEntry
    <2>1. CASE s = t
        BY <2>1, <1>0 DEF TypeOK
    <2>2. CASE s # t
        <3>1. pc'[s] = pc[s] /\ ent'[s] = ent[s] /\ key'[s] = key[s]
            BY <2>2, <1>0 DEF TypeOK
        <3>2. ASSUME pc[s] # "idle" PROVE entries'[key[s]] = ent[s]
            <4>1. entries[key[s]] = ent[s] /\ key[s] \in Keys
                BY <3>2 DEF SameEntry, TypeOK
            <4>2. CASE ref[e] # 1
                BY <4>1, <4>2, <1>g
            <4>3. CASE ref[e] = 1
                <5>1. ent[s] # e
                    BY <4>3, <1>f, <1>b, <2>2 DEF Users
                <5>2. key[s] # k
                    BY <5>1, <4>1, <1>0
                <5> QED BY <5>2, <4>1, <4>3, <1>g DEF TypeOK
            <4> QED BY <4>2, <4>3
        <3> QED BY <3>1, <3>2 DEF SameEntry
    <2> QED BY <2>1, <2>2
<1>3. OneKey'
    <2>1. \A i, j \in Keys : entries'[i] = entries'[j] /\ entries'[i] # None => i = j
        BY <1>g DEF OneKey, TypeOK
    <2>2. ASSUME NEW j \in Keys, entries'[j] # None
          PROVE  \E s \in Threads : ent'[s] = entries'[j]
        <3>1. entries'[j] = entries[j] /\ (j = k => ref[e] # 1)
            BY <2>2, <1>g, <1>0 DEF TypeOK
        <3>2. CASE j = k
            <4>1. PICK s \in Users(e)' : TRUE
                BY <3>1, <3>2, <1>f
            <4>2. s \in Threads /\ ent'[s] = e
                BY <4>1, <1>0, <1>b DEF Users, TypeOK
            <4> QED BY <4>2, <3>1, <3>2, <1>0
        <3>3. CASE j # k
            <4>1. PICK s \in Threads : ent[s] = entries[j]
                BY <2>2, <3>1 DEF OneKey
            <4>2. s # t
                BY <4>1, <3>3, <3>1, <2>2, <1>0 DEF OneKey
            <4> QED BY <4>1, <4>2, <3>1, <1>0 DEF TypeOK
        <3> QED BY <3>2, <3>3
    <2> QED BY <2>1, <2>2 DEF OneKey
<1>4. RefCounts'
    <2> SUFFICES ASSUME NEW f \in Entries, Users(f)' # {}
                 PROVE  ref'[f] = Cardinality(Users(f)')
        BY DEF RefCounts
    <2>1. CASE f # e
        BY <2>1, <1>0, <1>b DEF RefCounts, TypeOK
    <2>2. CASE f = e
        BY <2>2, <1>0, <1>a, <1>b, <1>c DEF TypeOK
    <2> QED BY <2>1, <2>2
<1>5. OwnerInside'
    <2> SUFFICES ASSUME NEW s \in Threads
                 PROVE  /\ pc'[s] = "held" => owner'[ent'[s]] = s
                        /\ \A f \in Entries : owner'[f] = s /\ Users(f)' # {} =>
                              pc'[s] = "held" /\ ent'[s] = f
        BY DEF OwnerInside
    <2>1. pc'[s] = "held" => owner'[ent'[s]] = s
        BY <1>0 DEF OwnerInside, TypeOK
    <2>2. ASSUME NEW f \in Entries, owner'[f] = s, Users(f)' # {}
          PROVE  pc'[s] = "held" /\ ent'[s] = f
        <3>1. owner[f] = s /\ Users(f) # {}
            BY <2>2, <1>0, <1>b
        <3>2. pc[s] = "held" /\ ent[s] = f
            BY <3>1 DEF OwnerInside
        <3> QED BY <3>2, <1>0 DEF TypeOK
    <2> QED BY <2>1, <2>2
<1> QED BY <1>1, <1>2, <1>3, <1>4, <1>5

\* keyedmutex.go:12-13: reference counts, the map and the mutexes stay
\* consistent under any interleaving of Lock, TryLock and unlock.
THEOREM InductiveInvariant == Spec => []IInv
<1>1. IInv /\ [Next]_vars => IInv'
    <2> SUFFICES ASSUME IInv, [Next]_vars PROVE IInv'
        OBVIOUS
    <2>1. CASE UNCHANGED vars
        BY <2>1 DEF vars, IInv, TypeOK, SameEntry, OneKey, RefCounts,
                    OwnerInside, Users
    <2>2. ASSUME NEW t \in Threads, NEW k \in Keys, NEW try \in BOOLEAN,
                 AcquireEntry(t, k, try)
          PROVE  IInv'
        BY <2>2, AcquirePreserves
    <2>3. ASSUME NEW t \in Threads, Step(t) PROVE IInv'
        BY <2>3, MutexStepPreserves, ReleasePreserves DEF Step
    <2> QED BY <2>1, <2>2, <2>3 DEF Next
<1> QED BY <1>1, InitIInv, PTL DEF Spec

\* keyedmutex.go:1-2: at most one holder of a key.
THEOREM MutualExclusionThm == Spec => []MutualExclusion
<1>1. IInv => MutualExclusion
    <2> SUFFICES ASSUME IInv, NEW s \in Threads, NEW t \in Threads,
                        pc[s] = "held", pc[t] = "held", key[s] = key[t]
                 PROVE  s = t
        BY DEF MutualExclusion
    <2>1. ent[s] = ent[t]
        BY DEF IInv, SameEntry
    <2> QED BY <2>1 DEF IInv, OwnerInside
<1> QED BY <1>1, InductiveInvariant, PTL

\* keyedmutex.go:12: no entry without a user, no user without its entry.
THEOREM NoLeakThm == Spec => []NoLeak
<1>1. IInv => NoLeak
    <2> SUFFICES ASSUME IInv, NEW k \in Keys
                 PROVE  entries[k] # None <=> \E t \in Threads : key[t] = k
        BY DEF NoLeak
    <2>1. ASSUME entries[k] # None PROVE \E t \in Threads : key[t] = k
        <3>1. PICK t \in Threads : ent[t] = entries[k]
            BY <2>1 DEF IInv, OneKey
        <3>2. key[t] \in Keys /\ entries[key[t]] = entries[k]
            BY <3>1, <2>1 DEF IInv, SameEntry, TypeOK
        <3> QED BY <3>1, <3>2, <2>1 DEF IInv, OneKey
    <2>2. ASSUME NEW t \in Threads, key[t] = k PROVE entries[k] # None
        BY <2>2, ConstantsAssumption DEF IInv, SameEntry, TypeOK
    <2> QED BY <2>1, <2>2
<1> QED BY <1>1, InductiveInvariant, PTL

-----------------------------------------------------------------------------
(* Numbers and sequences *)

\* A set of natural numbers has a least one.
LEMMA Least ==
    ASSUME NEW T, T \subseteq Nat, T # {}
    PROVE  \E n \in T : \A m \in T : n <= m
<1> DEFINE S == {0..m : m \in T}
<1>1. IsWellFoundedOn(StrictSubsetOrdering(Nat), FiniteSubsetsOf(Nat))
    BY FS_StrictSubsetOrderingWellFounded
<1>2. S \subseteq FiniteSubsetsOf(Nat)
    <2> SUFFICES ASSUME NEW m \in T PROVE 0..m \in FiniteSubsetsOf(Nat)
        OBVIOUS
    <2>1. m \in Nat /\ 0 \in Int /\ m \in Int
        OBVIOUS
    <2>2. IsFiniteSet(0..m)
        BY <2>1, FS_Interval
    <2>3. 0..m \subseteq Nat
        OBVIOUS
    <2> QED BY <2>2, <2>3 DEF FiniteSubsetsOf
<1>3. S # {}
    OBVIOUS
<1> HIDE DEF S
<1>4. \E x \in S : \A y \in S : ~(<<y, x>> \in StrictSubsetOrdering(Nat))
    BY <1>1, <1>2, <1>3, WFMin
<1> USE DEF S
<1>5. PICK n \in T : \A m \in T : ~(<<0..m, 0..n>> \in StrictSubsetOrdering(Nat))
    BY <1>4
<1>6. \A m \in T : m < n => <<0..m, 0..n>> \in StrictSubsetOrdering(Nat)
    BY DEF StrictSubsetOrdering
<1>7. \A m \in T : ~(m < n)
    BY <1>5, <1>6
<1>8. \A m \in T : n <= m
    BY <1>7
<1> QED BY <1>8

\* A sequence with one more element.
LEMMA AppendFacts ==
    ASSUME NEW S, NEW s \in Seq(S), NEW e \in S, NEW t, t = Append(s, e)
    PROVE  /\ t \in Seq(S) /\ t # <<>> /\ Len(s) \in Nat /\ Len(t) = Len(s) + 1
           /\ DOMAIN s = 1..Len(s) /\ DOMAIN t = 1..(Len(s) + 1)
           /\ \A i \in 1..Len(s) : t[i] = s[i] /\ s[i] \in S
           /\ t[Len(s) + 1] = e
OBVIOUS

\* A sequence without its first element.
LEMMA TailFacts ==
    ASSUME NEW S, NEW s \in Seq(S), s # <<>>, NEW t, t = Tail(s)
    PROVE  /\ t \in Seq(S) /\ Len(s) \in Nat \ {0} /\ Len(t) \in Nat /\ Len(s) = Len(t) + 1
           /\ DOMAIN s = 1..Len(s) /\ DOMAIN t = 1..Len(t)
           /\ \A i \in 1..Len(t) : t[i] = s[i + 1]
           /\ \A i \in 1..Len(s) : s[i] \in S
           /\ Head(s) = s[1] /\ s[1] \in S
OBVIOUS

\* One sequence after another.
LEMMA ConcatFacts ==
    ASSUME NEW S, NEW s \in Seq(S), NEW t \in Seq(S), NEW u, u = s \o t
    PROVE  /\ u \in Seq(S) /\ Len(s) \in Nat /\ Len(t) \in Nat /\ Len(u) = Len(s) + Len(t)
           /\ DOMAIN s = 1..Len(s) /\ DOMAIN t = 1..Len(t) /\ DOMAIN u = 1..(Len(s) + Len(t))
           /\ \A i \in 1..Len(s) : u[i] = s[i]
           /\ \A i \in 1..Len(t) : u[Len(s) + i] = t[i]
OBVIOUS

\* A new element keeps a sequence free of repetitions.
LEMMA AppendInjective2 ==
    ASSUME NEW S, NEW s \in Seq(S), NEW e \in S, NEW t, t = Append(s, e)
    PROVE  /\ Range(t) = Range(s) \cup {e}
           /\ IsInjective(s) /\ e \notin Range(s) => IsInjective(t)
<1>1. /\ Len(s) \in Nat /\ DOMAIN s = 1..Len(s) /\ DOMAIN t = 1..(Len(s) + 1)
      /\ \A i \in 1..Len(s) : t[i] = s[i]
      /\ t[Len(s) + 1] = e
    BY AppendFacts
<1>2. Range(t) = Range(s) \cup {e}
    <2>1. \A i \in DOMAIN t : i \in DOMAIN s \/ i = Len(s) + 1
        BY <1>1
    <2>2. \A i \in DOMAIN s : i \in DOMAIN t
        BY <1>1
    <2>3. Len(s) + 1 \in DOMAIN t
        BY <1>1
    <2> QED BY <2>1, <2>2, <2>3, <1>1 DEF Range
<1>3. IsInjective(s) /\ e \notin Range(s) => IsInjective(t)
    BY <1>1 DEF Range, IsInjective
<1> QED BY <1>2, <1>3

\* The elements of two sequences after each other.
LEMMA RangeConcat ==
    ASSUME NEW S, NEW s \in Seq(S), NEW t \in Seq(S)
    PROVE  Range(s \o t) = Range(s) \cup Range(t)
<1> DEFINE u == s \o t
<1>1. /\ Len(s) \in Nat /\ Len(t) \in Nat
      /\ DOMAIN s = 1..Len(s) /\ DOMAIN t = 1..Len(t) /\ DOMAIN u = 1..(Len(s) + Len(t))
      /\ \A i \in 1..Len(s) : u[i] = s[i]
      /\ \A i \in 1..Len(t) : u[Len(s) + i] = t[i]
    BY ConcatFacts
<1> HIDE DEF u
<1>2. \A i \in DOMAIN u : i \in DOMAIN s \/ (i - Len(s) \in DOMAIN t /\ i = Len(s) + (i - Len(s)))
    BY <1>1
<1>3. (\A i \in DOMAIN s : i \in DOMAIN u) /\ (\A i \in DOMAIN t : Len(s) + i \in DOMAIN u)
    BY <1>1
<1>4. Range(u) = Range(s) \cup Range(t)
    BY <1>1, <1>2, <1>3 DEF Range
<1> QED BY <1>4 DEF u

\* The second of three sequences moves to the first.
LEMMA ConcatFlush ==
    ASSUME NEW S, NEW s \in Seq(S), NEW t \in Seq(S), NEW u \in Seq(S), NEW v, v = s \o t
    PROVE  v \in Seq(S) /\ v \o <<>> \o u = s \o t \o u
<1>1. v \in Seq(S)
    BY ConcatProperties
<1>2. v \o <<>> = v
    BY <1>1, ConcatEmptySeq
<1> QED BY <1>1, <1>2, Zenon

\* An element after the last of three sequences.
LEMMA ConcatAppend ==
    ASSUME NEW S, NEW s \in Seq(S), NEW t \in Seq(S), NEW u \in Seq(S), NEW e \in S
    PROVE  s \o t \o Append(u, e) = Append(s \o t \o u, e)
OBVIOUS

\* f is the function over 0..n that begins with b and goes on with G.
Recursive(f, n, S, b, G) == f \in [0..n -> S] /\ f[0] = b /\ \A i \in 1..n : f[i] = G[<<f[i - 1], i>>]

\* Where f and g agree, they agree at the next number too.
Alike(f, g, n) == f[0] = g[0] /\ \A i \in 1..n : f[i - 1] = g[i - 1] => f[i] = g[i]

\* A function that is defined by recursion over 0..n exists.
LEMMA RecursionExists ==
    ASSUME NEW S, NEW b \in S, NEW n \in Nat, NEW G \in [S \X (1..n) -> S]
    PROVE  \E f : Recursive(f, n, S, b, G)
<1> DEFINE Good(m, f) == f \in [0..m -> S] /\ f[0] = b /\ \A i \in 1..m : f[i] = G[<<f[i - 1], i>>]
           T == {m \in Nat : m <= n /\ ~\E f : Good(m, f)}
<1>1. ASSUME T # {} PROVE FALSE
    <2>1. T \subseteq Nat
        OBVIOUS
    <2> HIDE DEF T
    <2>2. PICK k \in T : \A m \in T : k <= m
        BY <1>1, <2>1, Least
    <2> USE DEF T
    <2>3. k \in Nat /\ k <= n
        BY <2>2
    <2>4. CASE k = 0
        <3>1. Good(k, [i \in 0..0 |-> b])
            BY <2>4
        <3> QED BY <3>1, <2>2
    <2>5. CASE k # 0
        <3>1. k - 1 \in Nat /\ k - 1 <= n /\ k - 1 \notin T
            BY <2>2, <2>3, <2>5
        <3>2. PICK f : Good(k - 1, f)
            BY <3>1
        <3> DEFINE g == [i \in 0..k |-> IF i = k THEN G[<<f[k - 1], k>>] ELSE f[i]]
        <3>3. f[k - 1] \in S /\ k \in 1..n
            BY <3>2, <2>3, <2>5
        <3>4. G[<<f[k - 1], k>>] \in S
            BY <3>3
        <3>5. \A i \in 0..k : i = k \/ i \in 0..(k - 1)
            BY <2>3
        <3>6. g \in [0..k -> S]
            BY <3>2, <3>4, <3>5
        <3>7. g[0] = b
            BY <3>2, <2>3, <2>5
        <3>8. ASSUME NEW i \in 1..k PROVE g[i] = G[<<g[i - 1], i>>]
            <4>1. i - 1 \in 0..k /\ i - 1 # k /\ i \in 0..k
                BY <2>3
            <4>2. g[i - 1] = f[i - 1]
                BY <4>1
            <4>3. CASE i = k
                BY <4>1, <4>2, <4>3
            <4>4. CASE i # k
                <5>1. i \in 1..(k - 1)
                    BY <4>4, <2>3
                <5> QED BY <5>1, <4>1, <4>2, <4>4, <3>2
            <4> QED BY <4>3, <4>4
        <3>9. Good(k, g)
            BY <3>6, <3>7, <3>8
        <3> QED BY <3>9, <2>2
    <2> QED BY <2>4, <2>5
<1>2. n \notin T
    BY <1>1
<1> QED BY <1>2 DEF Recursive

\* Two functions with the same recursion agree, as far as both are defined.
LEMMA RecursionUnique ==
    ASSUME NEW n \in Nat, NEW f, NEW g, Alike(f, g, n)
    PROVE  \A i \in 0..n : f[i] = g[i]
<1> DEFINE T == {m \in Nat : m <= n /\ f[m] # g[m]}
<1>1. ASSUME T # {} PROVE FALSE
    <2>1. T \subseteq Nat
        OBVIOUS
    <2> HIDE DEF T
    <2>2. PICK k \in T : \A m \in T : k <= m
        BY <1>1, <2>1, Least
    <2> USE DEF T
    <2>3. k \in 1..n /\ f[k] # g[k]
        BY <2>2 DEF Alike
    <2>4. k - 1 \in Nat /\ k - 1 <= n /\ k - 1 \notin T
        BY <2>2, <2>3
    <2> QED BY <2>3, <2>4 DEF Alike
<1> QED BY <1>1

\* w has the elements of s, of which there are n, but for the one at i.
Skips(w, s, n, i) ==
    /\ DOMAIN s = 1..n /\ DOMAIN w = 1..(n - 1)
    /\ \A j \in 1..(n - 1) : w[j] = IF j < i THEN s[j] ELSE s[j + 1]

\* append(s[:i], s[i+1:]...): everything but the element at i.
LEMMA WithoutFacts ==
    ASSUME NEW S, NEW s \in Seq(S), NEW i \in 1..Len(s)
    PROVE  LET w == SubSeq(s, 1, i - 1) \o SubSeq(s, i + 1, Len(s))
           IN  w \in Seq(S) /\ Len(w) = Len(s) - 1 /\ Skips(w, s, Len(s), i)
<1> DEFINE a == SubSeq(s, 1, i - 1)
           c == SubSeq(s, i + 1, Len(s))
           m == Len(s)
           w == a \o c
<1>1. m \in Nat /\ i \in Nat /\ 1 <= i /\ i <= m /\ (\A j \in 1..m : s[j] \in S) /\ DOMAIN s = 1..m
    OBVIOUS
<1>2. a \in Seq(S) /\ Len(a) = i - 1 /\ \A j \in 1..(i - 1) : a[j] = s[j]
    BY <1>1
<1>3. c \in Seq(S) /\ Len(c) = m - i /\ \A j \in 1..(m - i) : c[j] = s[j + i]
    <2>1. \A j \in (i + 1)..m : s[j] \in S
        BY <1>1
    <2>2. i + 1 \in Int /\ m \in Int
        BY <1>1
    <2>3. \A j \in 1..(m - i) : c[j] = s[(i + 1) + j - 1] /\ (i + 1) + j - 1 = j + i
        BY <1>1
    <2>4. c \in Seq(S) /\ Len(c) = IF i + 1 <= m THEN m - (i + 1) + 1 ELSE 0
        BY <2>1, <2>2, SubSeqProperties
    <2> HIDE DEF c, m
    <2>5. Len(c) = m - i
        BY <1>1, <2>4
    <2> QED BY <2>3, <2>4, <2>5
<1>w. w = a \o c
    OBVIOUS
<1> HIDE DEF a, c, m, w
<1>4. /\ w \in Seq(S) /\ Len(w) = Len(a) + Len(c) /\ DOMAIN w = 1..(Len(a) + Len(c))
      /\ \A j \in 1..Len(a) : w[j] = a[j]
      /\ \A j \in 1..Len(c) : w[Len(a) + j] = c[j]
    <2>1. a \in Seq(S) /\ c \in Seq(S)
        BY <1>2, <1>3
    <2> QED BY <2>1, <1>w, ConcatFacts
<1>5. ASSUME NEW j \in 1..(m - 1), ~(j < i) PROVE w[j] = s[j + 1]
    <2>1. (j + 1) - i \in 1..Len(c) /\ Len(a) + ((j + 1) - i) = j /\ ((j + 1) - i) + i = j + 1
        BY <1>1, <1>2, <1>3, <1>5
    <2>2. w[Len(a) + ((j + 1) - i)] = c[(j + 1) - i] /\ c[(j + 1) - i] = s[((j + 1) - i) + i]
        BY <2>1, <1>3, <1>4
    <2> QED BY <2>1, <2>2
<1>6. ASSUME NEW j \in 1..(m - 1), j < i PROVE w[j] = s[j]
    <2>1. j \in 1..Len(a) /\ j \in 1..(i - 1)
        BY <1>1, <1>2, <1>6
    <2> QED BY <2>1, <1>2, <1>4
<1>7. Len(w) = m - 1 /\ DOMAIN w = 1..(m - 1)
    <2>1. Len(a) + Len(c) = m - 1
        BY <1>1, <1>2, <1>3
    <2> QED BY <2>1, <1>4
<1>8. Skips(w, s, m, i)
    BY <1>1, <1>5, <1>6, <1>7 DEF Skips
<1> QED BY <1>4, <1>7, <1>8 DEF m, w, a, c

\* Without repetitions, the element is gone and the others stay.
LEMMA SkipsElement ==
    ASSUME NEW s, IsInjective(s), NEW n \in Nat, NEW i \in 1..n, NEW w, Skips(w, s, n, i)
    PROVE  Range(w) = Range(s) \ {s[i]} /\ IsInjective(w)
<1> USE DEF Skips
<1> DEFINE at(q) == IF q < i THEN q ELSE q + 1
<1>1. \A j \in DOMAIN w : at(j) \in DOMAIN s /\ at(j) # i /\ w[j] = s[at(j)]
    OBVIOUS
<1>2. \A j \in DOMAIN s : j # i => \E k \in DOMAIN w : at(k) = j
    <2> SUFFICES ASSUME NEW j \in DOMAIN s, j # i PROVE \E k \in DOMAIN w : at(k) = j
        OBVIOUS
    <2>1. CASE j < i
        BY <2>1
    <2>2. CASE j > i
        <3>1. j - 1 \in DOMAIN w /\ at(j - 1) = j
            BY <2>2
        <3> QED BY <3>1
    <2> QED BY <2>1, <2>2
<1>3. \A j, k \in DOMAIN w : at(j) = at(k) => j = k
    OBVIOUS
<1>0. i \in DOMAIN s
    OBVIOUS
<1> HIDE DEF Skips, at
<1>4. Range(w) = Range(s) \ {s[i]}
    BY <1>0, <1>1, <1>2 DEF Range, IsInjective
<1>5. IsInjective(w)
    BY <1>1, <1>3 DEF IsInjective
<1> QED BY <1>4, <1>5

\* The first place of e in s.
Place(s, e) == CHOOSE j \in DOMAIN s : s[j] = e /\ \A k \in 1..(j - 1) : s[k] # e

\* Without repetitions there is one.
LEMMA PlaceFacts ==
    ASSUME NEW S, NEW s \in Seq(S), IsInjective(s), NEW e \in Range(s)
    PROVE  Place(s, e) \in 1..Len(s) /\ s[Place(s, e)] = e
<1>0. DOMAIN s = 1..Len(s) /\ Len(s) \in Nat
    OBVIOUS
<1>1. PICK p \in DOMAIN s : s[p] = e
    BY DEF Range
<1>2. \A k \in 1..(p - 1) : s[k] # e
    BY <1>0, <1>1 DEF IsInjective
<1>3. Place(s, e) \in DOMAIN s /\ s[Place(s, e)] = e
    BY <1>1, <1>2, Zenon DEF Place
<1> QED BY <1>0, <1>3

\* The element is gone and the others stay.
LEMMA WithoutElement ==
    ASSUME NEW S, NEW s \in Seq(S), IsInjective(s), NEW e \in Range(s)
    PROVE  LET w == SubSeq(s, 1, Place(s, e) - 1) \o SubSeq(s, Place(s, e) + 1, Len(s))
           IN  /\ w \in Seq(S) /\ Len(s) \in Nat /\ Len(w) = Len(s) - 1 /\ Len(w) \in Nat
               /\ Range(w) = Range(s) \ {e} /\ IsInjective(w)
<1> DEFINE w == SubSeq(s, 1, Place(s, e) - 1) \o SubSeq(s, Place(s, e) + 1, Len(s))
<1>1. Place(s, e) \in 1..Len(s) /\ s[Place(s, e)] = e
    BY PlaceFacts
<1>2. w \in Seq(S) /\ Len(w) = Len(s) - 1 /\ Skips(w, s, Len(s), Place(s, e))
    BY <1>1, WithoutFacts
<1>3. Len(s) \in Nat
    OBVIOUS
<1> HIDE DEF w
<1>4. Range(w) = Range(s) \ {e} /\ IsInjective(w)
    BY <1>1, <1>2, <1>3, SkipsElement
<1>5. Len(w) \in Nat
    BY <1>1, <1>2, <1>3
<1> QED BY <1>2, <1>3, <1>4, <1>5 DEF w

\* A sequence without repetitions is as long as its elements are many.
LEMMA InjectiveCount ==
    ASSUME NEW S, NEW s \in Seq(S), IsInjective(s)
    PROVE  /\ Len(s) \in Nat /\ IsFiniteSet(Range(s)) /\ Cardinality(Range(s)) = Len(s)
<1>1. Len(s) \in Nat /\ DOMAIN s = 1..Len(s)
    OBVIOUS
<1>2. s \in [1..Len(s) -> Range(s)]
    BY <1>1 DEF Range
<1>3. s \in Surjection(1..Len(s), Range(s))
    BY <1>1, <1>2 DEF Surjection, Range
<1>4. s \in Injection(1..Len(s), Range(s))
    BY <1>1, <1>2 DEF Injection, IsInjective
<1>5. IsFiniteSet(1..Len(s)) /\ Cardinality(1..Len(s)) = Len(s)
    <2>1. Len(s) \in Int /\ 1 \in Int
        BY <1>1
    <2>2. IsFiniteSet(1..Len(s)) /\ Cardinality(1..Len(s)) = IF 1 > Len(s) THEN 0 ELSE Len(s) - 1 + 1
        BY <2>1, FS_Interval, Zenon
    <2> QED BY <2>2, <1>1
<1>6. /\ IsFiniteSet(Range(s))
      /\ Cardinality(Range(s)) = Cardinality(1..Len(s)) <=> s \in Injection(1..Len(s), Range(s))
    BY <1>3, <1>5, FS_Surjection
<1> QED BY <1>1, <1>4, <1>5, <1>6

\* Among finitely many elements it has at most as many, and fewer when one is missing.
LEMMA InjectiveFits ==
    ASSUME NEW S, IsFiniteSet(S), NEW s \in Seq(S), IsInjective(s)
    PROVE  /\ Len(s) \in Nat /\ Cardinality(S) \in Nat /\ Len(s) <= Cardinality(S)
           /\ \A e \in S \ Range(s) : Len(s) < Cardinality(S)
<1>1. Len(s) \in Nat /\ Cardinality(Range(s)) = Len(s)
    BY InjectiveCount
<1>2. Range(s) \in SUBSET S
    <2>1. \A i \in DOMAIN s : s[i] \in S
        OBVIOUS
    <2> QED BY <2>1 DEF Range
<1>3. Cardinality(Range(s)) <= Cardinality(S) /\ (Cardinality(S) = Cardinality(Range(s)) => S = Range(s))
    BY <1>2, FS_Subset
<1>4. Cardinality(S) \in Nat
    BY FS_CardinalityType
<1>5. \A e \in S \ Range(s) : S # Range(s)
    OBVIOUS
<1> QED BY <1>1, <1>3, <1>4, <1>5

\* One message more, at the end of the second of two sequences or, when both are
\* put together, of the first.
LEMMA ConcatOne ==
    ASSUME NEW S, NEW s \in Seq(S), NEW t \in Seq(S), NEW e \in S
    PROVE  s \o Append(t, e) = Append(s \o t, e)
OBVIOUS

\* The subscriber takes the first value of its queue.
LEMMA ConcatShift ==
    ASSUME NEW S, NEW s \in Seq(S), NEW t \in Seq(S), t # <<>>
    PROVE  Append(s, Head(t)) \o Tail(t) = s \o t
OBVIOUS

\* A publisher takes it.
LEMMA ConcatDrop ==
    ASSUME NEW S, NEW s \in Seq(S), NEW t \in Seq(S), t # <<>>, NEW u, u = s \o t, NEW v, v = s \o Tail(t)
    PROVE  v \in Seq(S) /\ Len(s) + 1 \in 1..Len(u) /\ Skips(v, u, Len(u), Len(s) + 1)
<1>1. /\ Len(s) \in Nat /\ Len(t) \in Nat /\ Len(u) = Len(s) + Len(t)
      /\ DOMAIN u = 1..(Len(s) + Len(t))
      /\ \A i \in 1..Len(s) : u[i] = s[i]
      /\ \A i \in 1..Len(t) : u[Len(s) + i] = t[i]
    BY ConcatFacts
<1>2. /\ Tail(t) \in Seq(S) /\ Len(t) = Len(Tail(t)) + 1 /\ Len(Tail(t)) \in Nat
      /\ \A i \in 1..Len(Tail(t)) : Tail(t)[i] = t[i + 1]
    BY TailFacts
<1>3. /\ v \in Seq(S) /\ DOMAIN v = 1..(Len(s) + Len(Tail(t)))
      /\ \A i \in 1..Len(s) : v[i] = s[i]
      /\ \A i \in 1..Len(Tail(t)) : v[Len(s) + i] = Tail(t)[i]
    BY <1>2, ConcatFacts
<1>4. PICK a \in Nat, b \in Nat : a = Len(s) /\ b = Len(Tail(t))
    BY <1>1, <1>2
<1>5. /\ Len(t) = b + 1 /\ Len(u) = a + b + 1 /\ DOMAIN u = 1..(a + b + 1) /\ DOMAIN v = 1..(a + b)
    BY <1>1, <1>2, <1>3, <1>4
<1>6. ASSUME NEW j \in 1..(a + b) PROVE v[j] = IF j < a + 1 THEN u[j] ELSE u[j + 1]
    <2>1. CASE j < a + 1
        <3>1. j \in 1..Len(s)
            BY <2>1, <1>4
        <3> QED BY <2>1, <3>1, <1>1, <1>3
    <2>2. CASE ~(j < a + 1)
        <3>1. PICK i \in 1..b : j = a + i
            <4>1. j - a \in 1..b /\ j = a + (j - a)
                BY <2>2
            <4> QED BY <4>1
        <3>2. v[j] = t[i + 1]
            BY <3>1, <1>2, <1>3, <1>4
        <3>3. i + 1 \in 1..Len(t) /\ Len(s) + (i + 1) = j + 1
            BY <3>1, <1>4, <1>5
        <3>4. u[j + 1] = t[i + 1]
            BY <3>3, <1>1
        <3> QED BY <2>2, <3>2, <3>4
    <2> QED BY <2>1, <2>2
<1>7. (a + b + 1) - 1 = a + b /\ a + 1 \in 1..(a + b + 1)
    OBVIOUS
<1>8. Skips(v, u, a + b + 1, a + 1)
    BY <1>5, <1>6, <1>7 DEF Skips
<1> QED BY <1>3, <1>4, <1>5, <1>7, <1>8

-----------------------------------------------------------------------------
(* DelayQueue *)

\* The next hour at which the driver looks is one of the clock, or Never.
LEMMA DelayedNextAt ==
    ASSUME Delayed!TypeOK
    PROVE  Delayed!NextAt \in 0..Delayed!Never
<1> DEFINE T == {task[n].at : n \in Delayed!Later}
<1>1. T \subseteq 0..MaxTime
    BY DEF Delayed!TypeOK, Delayed!Later, Delayed!Made
<1>2. CASE Delayed!Later = {}
    BY <1>2, BoundsAssumption DEF Delayed!NextAt, Delayed!Never
<1>3. CASE Delayed!Later # {}
    <2>1. T \subseteq Nat /\ T # {}
        BY <1>1, <1>3
    <2> HIDE DEF T
    <2>2. \E t \in T : \A u \in T : t <= u
        BY <2>1, Least
    <2> USE DEF T
    <2>3. \E t \in T : \A n \in Delayed!Later : t <= task[n].at
        BY <2>2
    <2>4. Delayed!NextAt \in T
        BY <2>3, <1>3 DEF Delayed!NextAt
    <2> QED BY <2>4, <1>1, BoundsAssumption DEF Delayed!Never
<1> QED BY <1>2, <1>3

\* Nothing is scheduled at first.
LEMMA DelayedInit == Delayed!Init => Delayed!IInv
<1> SUFFICES ASSUME Delayed!Init PROVE Delayed!IInv
    OBVIOUS
<1>1. Delayed!Made = {}
    BY DEF Delayed!Init, Delayed!Made
<1>2. Cardinality({}) = 0 /\ \A S : Delayed!Cardinality(S) = Cardinality(S)
    BY FS_EmptySet DEF Cardinality, Delayed!Cardinality
<1>3. Delayed!TypeOK
    BY <1>1, BoundsAssumption DEF Delayed!Init, Delayed!TypeOK, Delayed!Made, Delayed!Tasks, Delayed!Never
<1>4. Delayed!TaskInv
    BY <1>1, <1>2 DEF Delayed!Init, Delayed!TaskInv
<1> QED BY <1>3, <1>4 DEF Delayed!IInv, Delayed!RevokedNeverFires, Delayed!Init

\* A task that is marked dead keeps its key and its time; the others stay.
LEMMA DelayedKill ==
    ASSUME Delayed!TypeOK, Delayed!TaskInv, NEW k \in Keys, NEW f, f = Delayed!Kill(byKey[k])
    PROVE  /\ f \in [Delayed!Made -> [key : Keys, at : 0..MaxTime, dead : BOOLEAN]]
           /\ \A m \in Delayed!Made :
                 /\ f[m].key = task[m].key /\ f[m].at = task[m].at
                 /\ f[m].dead = (task[m].dead \/ m = byKey[k])
<1>1. CASE byKey[k] = None
    <2>1. \A m \in Delayed!Made : m \in Nat
        BY DEF Delayed!TypeOK, Delayed!Tasks
    <2> QED BY <1>1, <2>1, BoundsAssumption DEF Delayed!Kill, Delayed!TypeOK
<1>2. CASE byKey[k] # None
    <2>1. byKey[k] \in Delayed!Made
        BY <1>2 DEF Delayed!TypeOK
    <2> QED BY <1>2, <2>1 DEF Delayed!Kill, Delayed!TypeOK, Delayed!Made
<1> QED BY <1>1, <1>2

\* A new task takes the next number, and the key's old one is out of reach.
LEMMA DelayedSchedule ==
    ASSUME Delayed!IInv, NEW k \in Keys, NEW at \in now..MaxTime, Delayed!Schedule(k, at)
    PROVE  Delayed!IInv'
<1> DEFINE n == Cardinality(Delayed!Made) + 1
<1>0. \A S : Delayed!Cardinality(S) = Cardinality(S)
    BY DEF Cardinality, Delayed!Cardinality
<1>1. PICK f : f = Delayed!Kill(byKey[k])
    OBVIOUS
<1>2. /\ stop = "no" /\ n \in Delayed!Tasks
      /\ task' = [m \in Delayed!Made \cup {n} |->
                     IF m = n THEN [key |-> k, at |-> at, dead |-> FALSE] ELSE f[m]]
      /\ heap' = heap \cup {n}
      /\ byKey' = [byKey EXCEPT ![k] = n]
      /\ revoked' = revoked \cup ({byKey[k]} \ {None})
      /\ wake' = [wake EXCEPT !.callers = @ + 1]
      /\ UNCHANGED <<driver, stop, now, fired>>
    BY <1>0, <1>1 DEF Delayed!Schedule, Delayed!Revoke, Delayed!Waking
<1>3. /\ f \in [Delayed!Made -> [key : Keys, at : 0..MaxTime, dead : BOOLEAN]]
      /\ \A m \in Delayed!Made :
            /\ f[m].key = task[m].key /\ f[m].at = task[m].at
            /\ f[m].dead = (task[m].dead \/ m = byKey[k])
    BY <1>1, DelayedKill DEF Delayed!IInv
<1>4. Delayed!Made' = Delayed!Made \cup {n}
    BY <1>2 DEF Delayed!Made
<1>5. /\ Delayed!Made = 1..Cardinality(Delayed!Made)
      /\ Cardinality(Delayed!Made) \in Nat /\ n \notin Delayed!Made
      /\ Cardinality(Delayed!Made \cup {n}) = n
    <2>1. Delayed!Made = 1..Cardinality(Delayed!Made) /\ Delayed!Made \subseteq 1..MaxTasks
        BY <1>0 DEF Delayed!IInv, Delayed!TaskInv, Delayed!TypeOK, Delayed!Tasks
    <2>2. IsFiniteSet(Delayed!Made)
        <3>1. IsFiniteSet(1..MaxTasks)
            BY BoundsAssumption, FS_Interval
        <3> QED BY <2>1, <3>1, FS_Subset
    <2>3. Cardinality(Delayed!Made) \in Nat
        BY <2>2, FS_CardinalityType
    <2>4. n \notin Delayed!Made
        BY <2>1, <2>3
    <2> QED BY <2>1, <2>2, <2>3, <2>4, FS_AddElement
<1> HIDE DEF n
<1>6. Delayed!Made' = 1..Cardinality(Delayed!Made')
    BY <1>4, <1>5 DEF n
<1>7. at \in 0..MaxTime /\ now \in 0..MaxTime
    BY BoundsAssumption DEF Delayed!IInv, Delayed!TypeOK
<1>8. task' \in [Delayed!Made' -> [key : Keys, at : 0..MaxTime, dead : BOOLEAN]]
    BY <1>2, <1>3, <1>4, <1>7
<1>9. Delayed!TypeOK'
    <2>1. byKey' \in [Keys -> Delayed!Made' \cup {None}]
        BY <1>2, <1>4 DEF Delayed!IInv, Delayed!TypeOK
    <2>2. revoked' \subseteq Delayed!Made'
        BY <1>2, <1>4 DEF Delayed!IInv, Delayed!TypeOK
    <2>3. wake' \in [ch : BOOLEAN, callers : Nat]
        BY <1>2 DEF Delayed!IInv, Delayed!TypeOK
    <2>4. driver' \in [at : {"collect", "start", "sleep", "exited"}, ready : SUBSET Delayed!Made', timer : 0..Delayed!Never]
        BY <1>2, <1>4 DEF Delayed!IInv, Delayed!TypeOK
    <2> QED BY <2>1, <2>2, <2>3, <2>4, <1>2, <1>4, <1>8 DEF Delayed!IInv, Delayed!TypeOK, Delayed!Tasks, Delayed!Never
<1>10. Delayed!TaskInv'
    <2>1. \A j \in Keys : byKey'[j] # None =>
              byKey'[j] \in heap' /\ ~task'[byKey'[j]].dead /\ task'[byKey'[j]].key = j
        <3> SUFFICES ASSUME NEW j \in Keys, byKey'[j] # None
                     PROVE  byKey'[j] \in heap' /\ ~task'[byKey'[j]].dead /\ task'[byKey'[j]].key = j
            OBVIOUS
        <3>1. CASE j = k
            BY <3>1, <1>2 DEF Delayed!IInv, Delayed!TypeOK
        <3>2. CASE j # k
            <4>1. byKey'[j] = byKey[j] /\ byKey[j] \in heap /\ ~task[byKey[j]].dead /\ task[byKey[j]].key = j
                BY <3>2, <1>2 DEF Delayed!IInv, Delayed!TypeOK, Delayed!TaskInv
            <4>2. byKey[j] \in Delayed!Made /\ byKey[j] # n /\ byKey[j] # byKey[k]
                BY <4>1, <3>2, <1>5 DEF Delayed!IInv, Delayed!TypeOK, Delayed!TaskInv
            <4>3. task'[byKey[j]] = f[byKey[j]]
                BY <4>2, <1>2
            <4>4. ~f[byKey[j]].dead /\ f[byKey[j]].key = j
                BY <4>1, <4>2, <1>3
            <4> QED BY <4>1, <4>3, <4>4, <1>2
        <3> QED BY <3>1, <3>2
    <2>2. \A m \in revoked' : task'[m].dead
        <3> SUFFICES ASSUME NEW m \in revoked' PROVE task'[m].dead
            OBVIOUS
        <3>1. m \in Delayed!Made /\ m # n /\ (m \in revoked \/ m = byKey[k])
            BY <1>2, <1>5 DEF Delayed!IInv, Delayed!TypeOK
        <3>2. task'[m] = f[m]
            BY <3>1, <1>2
        <3> QED BY <3>1, <3>2, <1>3 DEF Delayed!IInv, Delayed!TaskInv
    <2>3. (fired' \cup driver'.ready) \cap heap' = {}
        BY <1>2, <1>5 DEF Delayed!IInv, Delayed!TypeOK, Delayed!TaskInv
    <2> QED BY <2>1, <2>2, <2>3, <1>6, <1>0 DEF Delayed!TaskInv
<1>11. Delayed!RevokedNeverFires'
    BY <1>2 DEF Delayed!IInv, Delayed!TypeOK, Delayed!TaskInv, Delayed!RevokedNeverFires
<1> QED BY <1>9, <1>10, <1>11 DEF Delayed!IInv

\* A cancelled task was in the heap, so that no one had it in hand.
LEMMA DelayedCancel ==
    ASSUME Delayed!IInv, NEW k \in Keys, Delayed!Cancel(k)
    PROVE  Delayed!IInv'
<1>1. PICK f : f = Delayed!Kill(byKey[k])
    OBVIOUS
<1>2. /\ byKey[k] # None /\ byKey[k] \in heap
      /\ task' = f
      /\ byKey' = [byKey EXCEPT ![k] = None]
      /\ revoked' = revoked \cup {byKey[k]}
      /\ wake' = [wake EXCEPT !.callers = @ + 1]
      /\ UNCHANGED <<heap, driver, stop, now, fired>>
    BY <1>1 DEF Delayed!Cancel, Delayed!Revoke, Delayed!Waking, Delayed!IInv, Delayed!TaskInv
<1>3. /\ f \in [Delayed!Made -> [key : Keys, at : 0..MaxTime, dead : BOOLEAN]]
      /\ \A m \in Delayed!Made :
            /\ f[m].key = task[m].key /\ f[m].at = task[m].at
            /\ f[m].dead = (task[m].dead \/ m = byKey[k])
    BY <1>1, DelayedKill DEF Delayed!IInv
<1>4. Delayed!Made' = Delayed!Made
    BY <1>2, <1>3 DEF Delayed!Made
<1>5. Delayed!TypeOK'
    <2>1. revoked' \subseteq Delayed!Made' /\ heap' \subseteq Delayed!Made'
        BY <1>2, <1>4 DEF Delayed!IInv, Delayed!TypeOK
    <2>2. wake' \in [ch : BOOLEAN, callers : Nat]
        BY <1>2 DEF Delayed!IInv, Delayed!TypeOK
    <2>3. task' \in [Delayed!Made' -> [key : Keys, at : 0..MaxTime, dead : BOOLEAN]]
        BY <1>2, <1>3, <1>4
    <2>4. byKey' \in [Keys -> Delayed!Made' \cup {None}]
        BY <1>2, <1>4 DEF Delayed!IInv, Delayed!TypeOK
    <2> QED BY <2>1, <2>2, <2>3, <2>4, <1>2, <1>4 DEF Delayed!IInv, Delayed!TypeOK, Delayed!Tasks, Delayed!Never
<1>6. Delayed!TaskInv'
    <2>1. \A j \in Keys : byKey'[j] # None =>
              byKey'[j] \in heap' /\ ~task'[byKey'[j]].dead /\ task'[byKey'[j]].key = j
        <3> SUFFICES ASSUME NEW j \in Keys, byKey'[j] # None
                     PROVE  byKey'[j] \in heap' /\ ~task'[byKey'[j]].dead /\ task'[byKey'[j]].key = j
            OBVIOUS
        <3>1. j # k
            BY <1>2 DEF Delayed!IInv, Delayed!TypeOK
        <3>2. byKey'[j] = byKey[j] /\ byKey[j] \in heap /\ ~task[byKey[j]].dead /\ task[byKey[j]].key = j
            BY <3>1, <1>2 DEF Delayed!IInv, Delayed!TypeOK, Delayed!TaskInv
        <3>3. byKey[j] \in Delayed!Made /\ byKey[j] # byKey[k]
            BY <3>2, <3>1, <1>2 DEF Delayed!IInv, Delayed!TypeOK, Delayed!TaskInv
        <3> QED BY <3>2, <3>3, <1>2, <1>3
    <2>2. \A m \in revoked' : task'[m].dead
        BY <1>2, <1>3 DEF Delayed!IInv, Delayed!TaskInv, Delayed!TypeOK
    <2>3. (fired' \cup driver'.ready) \cap heap' = {}
        BY <1>2 DEF Delayed!IInv, Delayed!TaskInv
    <2>4. Delayed!Made' = 1..Delayed!Cardinality(Delayed!Made')
        BY <1>4 DEF Delayed!IInv, Delayed!TaskInv
    <2> QED BY <2>1, <2>2, <2>3, <2>4 DEF Delayed!TaskInv
<1>7. Delayed!RevokedNeverFires'
    BY <1>2 DEF Delayed!IInv, Delayed!TaskInv, Delayed!RevokedNeverFires
<1> QED BY <1>5, <1>6, <1>7 DEF Delayed!IInv

\* What the driver collects is live, leaves the heap and loses its key.
LEMMA DelayedCollect ==
    ASSUME Delayed!IInv, Delayed!Collect
    PROVE  Delayed!IInv'
<1>1. Delayed!Due \subseteq heap /\ Delayed!Due \subseteq Delayed!Popped /\ Delayed!Popped \subseteq heap
      /\ \A n \in Delayed!Due : ~task[n].dead
    BY DEF Delayed!Due, Delayed!Popped
<1>2. /\ heap' = heap \ Delayed!Popped
      /\ task' = [n \in Delayed!Made |-> IF n \in Delayed!Due THEN [task[n] EXCEPT !.dead = TRUE] ELSE task[n]]
      /\ byKey' = [k \in Keys |-> IF \E n \in Delayed!Due : task[n].key = k THEN None ELSE byKey[k]]
      /\ driver' = [at |-> "start", ready |-> Delayed!Due, timer |-> Delayed!NextAt]
      /\ UNCHANGED <<wake, stop, now, fired, revoked>>
    BY DEF Delayed!Collect
<1>3. Delayed!NextAt \in 0..Delayed!Never
    BY DelayedNextAt DEF Delayed!IInv
<1>4. Delayed!Made' = Delayed!Made
    BY <1>2 DEF Delayed!Made
<1>5. \A n \in Delayed!Made :
          /\ task'[n] \in [key : Keys, at : 0..MaxTime, dead : BOOLEAN]
          /\ task'[n].key = task[n].key
          /\ task'[n].dead = (task[n].dead \/ n \in Delayed!Due)
    BY <1>2 DEF Delayed!IInv, Delayed!TypeOK
<1>6. Delayed!TypeOK'
    <2>1. task' \in [Delayed!Made' -> [key : Keys, at : 0..MaxTime, dead : BOOLEAN]]
        BY <1>2, <1>4, <1>5
    <2>2. byKey' \in [Keys -> Delayed!Made' \cup {None}]
        BY <1>2, <1>4 DEF Delayed!IInv, Delayed!TypeOK
    <2>3. driver' \in [at : {"collect", "start", "sleep", "exited"}, ready : SUBSET Delayed!Made', timer : 0..Delayed!Never]
        BY <1>1, <1>2, <1>3, <1>4 DEF Delayed!IInv, Delayed!TypeOK
    <2> QED BY <2>1, <2>2, <2>3, <1>2, <1>4 DEF Delayed!IInv, Delayed!TypeOK, Delayed!Tasks, Delayed!Never
<1>7. Delayed!TaskInv'
    <2>1. ASSUME NEW k \in Keys, byKey'[k] # None
          PROVE  byKey'[k] \in heap' /\ ~task'[byKey'[k]].dead /\ task'[byKey'[k]].key = k
        <3>1. /\ byKey'[k] = byKey[k] /\ \A n \in Delayed!Due : task[n].key # k
              /\ byKey[k] \in heap /\ ~task[byKey[k]].dead /\ task[byKey[k]].key = k
            BY <2>1, <1>2 DEF Delayed!IInv, Delayed!TaskInv
        <3>2. byKey[k] \in Delayed!Made /\ byKey[k] \notin Delayed!Due /\ byKey[k] \notin Delayed!Popped
            BY <3>1 DEF Delayed!IInv, Delayed!TypeOK, Delayed!Due
        <3> QED BY <3>1, <3>2, <1>2, <1>5
    <2>2. \A n \in revoked' : task'[n].dead
        BY <1>2, <1>5 DEF Delayed!IInv, Delayed!TaskInv, Delayed!TypeOK
    <2>3. (fired' \cup driver'.ready) \cap heap' = {}
        BY <1>1, <1>2 DEF Delayed!IInv, Delayed!TaskInv
    <2>4. Delayed!Made' = 1..Delayed!Cardinality(Delayed!Made')
        BY <1>4 DEF Delayed!IInv, Delayed!TaskInv
    <2> QED BY <2>1, <2>2, <2>3, <2>4 DEF Delayed!TaskInv
<1>8. Delayed!RevokedNeverFires'
    <2>1. Delayed!Due \cap revoked = {} /\ Delayed!Due \cap fired = {}
        BY <1>1 DEF Delayed!IInv, Delayed!TaskInv
    <2> QED BY <2>1, <1>2 DEF Delayed!IInv, Delayed!RevokedNeverFires
<1> QED BY <1>6, <1>7, <1>8 DEF Delayed!IInv

\* The other steps move the driver, the token, the clock or the stop.
LEMMA DelayedOther ==
    ASSUME Delayed!IInv,
           Delayed!Wake \/ Delayed!Stop \/ Delayed!StartReady \/ Delayed!Awake \/ Delayed!Tick
    PROVE  Delayed!IInv'
<1>1. UNCHANGED <<task, heap, byKey, revoked>> /\ Delayed!Made' = Delayed!Made
    BY DEF Delayed!Wake, Delayed!Stop, Delayed!StartReady, Delayed!Awake, Delayed!Tick, Delayed!Made
<1>2. /\ driver' \in [at : {"collect", "start", "sleep", "exited"}, ready : SUBSET Delayed!Made, timer : 0..Delayed!Never]
      /\ wake' \in [ch : BOOLEAN, callers : Nat]
      /\ stop' \in {"no", "marked", "closed"} /\ now' \in 0..MaxTime
      /\ fired' \subseteq Delayed!Made
    <2> USE DEF Delayed!IInv, Delayed!TypeOK
    <2>1. CASE Delayed!Wake
        BY <2>1 DEF Delayed!Wake
    <2>2. CASE Delayed!Stop
        BY <2>2 DEF Delayed!Stop
    <2>3. CASE Delayed!StartReady
        BY <2>3 DEF Delayed!StartReady
    <2>4. CASE Delayed!Awake
        BY <2>4 DEF Delayed!Awake
    <2>5. CASE Delayed!Tick
        BY <2>5, BoundsAssumption DEF Delayed!Tick
    <2> QED BY <2>1, <2>2, <2>3, <2>4, <2>5
<1>3. /\ fired' \cup driver'.ready = fired \cup driver.ready
      /\ fired' \cap driver'.ready = {}
    BY DEF Delayed!IInv, Delayed!TypeOK, Delayed!RevokedNeverFires,
           Delayed!Wake, Delayed!Stop, Delayed!StartReady, Delayed!Awake, Delayed!Tick
<1>4. Delayed!TypeOK'
    BY <1>1, <1>2 DEF Delayed!IInv, Delayed!TypeOK, Delayed!Tasks, Delayed!Never
<1>5. Delayed!TaskInv'
    BY <1>1, <1>3 DEF Delayed!IInv, Delayed!TaskInv
<1>6. Delayed!RevokedNeverFires'
    BY <1>1, <1>3 DEF Delayed!IInv, Delayed!RevokedNeverFires
<1> QED BY <1>4, <1>5, <1>6 DEF Delayed!IInv

\* delayqueue.go:100, 123: keys, heap and the driver's tasks stay consistent.
LEMMA DelayedInvariant == MCSpec => []Delayed!IInv
<1>1. MCInit => Delayed!IInv
    BY DelayedInit DEF MCInit
<1>2. Delayed!IInv /\ [MCNext]_mcVars => Delayed!IInv'
    <2> SUFFICES ASSUME Delayed!IInv, [MCNext]_mcVars PROVE Delayed!IInv'
        OBVIOUS
    <2>1. Delayed!Next \/ UNCHANGED delayedVars
        BY DEF MCNext, Only, mcVars
    <2>2. CASE Delayed!Next
        BY <2>2, DelayedSchedule, DelayedCancel, DelayedCollect, DelayedOther DEF Delayed!Next, Delayed!Drive
    <2>3. CASE UNCHANGED delayedVars
        BY <2>3 DEF delayedVars, Delayed!IInv, Delayed!TypeOK, Delayed!TaskInv, Delayed!RevokedNeverFires,
                    Delayed!Made, Delayed!Tasks, Delayed!Never
    <2> QED BY <2>1, <2>2, <2>3
<1> QED BY <1>1, <1>2, PTL DEF MCSpec

-----------------------------------------------------------------------------
(* TimerQueue *)

\* A set of numbers that goes from 1 to its size grows by the next number.
LEMMA NextNumber ==
    ASSUME NEW S, NEW max \in Nat, S \subseteq 1..max, S = 1..Cardinality(S), NEW n, n = Cardinality(S) + 1
    PROVE  Cardinality(S) \in Nat /\ n \notin S /\ S \cup {n} = 1..Cardinality(S \cup {n})
<1>1. IsFiniteSet(1..max)
    BY FS_Interval
<1>2. IsFiniteSet(S)
    BY <1>1, FS_Subset
<1>3. Cardinality(S) \in Nat
    BY <1>2, FS_CardinalityType
<1>4. n \notin S
    BY <1>3
<1>5. Cardinality(S \cup {n}) = n
    BY <1>2, <1>3, <1>4, FS_AddElement
<1> QED BY <1>3, <1>4, <1>5

\* There is no timer at first.
LEMMA TimedInit == Timed!Init => Timed!IInv
<1> SUFFICES ASSUME Timed!Init PROVE Timed!IInv
    OBVIOUS
<1>1. Timed!Added = {}
    BY DEF Timed!Init, Timed!Added
<1>2. Cardinality({}) = 0 /\ \A S : Timed!Cardinality(S) = Cardinality(S)
    BY FS_EmptySet DEF Cardinality, Timed!Cardinality
<1>3. Timed!TypeOK
    BY <1>1, BoundsAssumption DEF Timed!Init, Timed!TypeOK, Timed!Timers, Timed!Added
<1>4. Timed!CommandInv
    BY <1>1, <1>2 DEF Timed!Init, Timed!CommandInv
<1>5. Timed!IndexNamesHeap
    BY DEF Timed!Init, Timed!IndexNamesHeap
<1> QED BY <1>3, <1>4, <1>5 DEF Timed!IInv

\* A new timer is in no command, and in the heap only later.
LEMMA TimedAddAt ==
    ASSUME Timed!IInv, NEW id \in TimerIds \cup {None}, NEW at \in clock..MaxClock, Timed!AddAt(id, at)
    PROVE  Timed!IInv'
<1> DEFINE n == Cardinality(Timed!Added) + 1
           cmd == [add |-> n, cancel |-> None]
<1> USE DEF Timed!IInv
<1>0. \A S : Timed!Cardinality(S) = Cardinality(S)
    BY DEF Cardinality, Timed!Cardinality
<1>1. /\ n \in Timed!Timers
      /\ Len(cmdCh) < ChanSize /\ cmdCh' = Append(cmdCh, cmd)
      /\ timer' = [m \in Timed!Added \cup {n} |-> IF m = n THEN [id |-> id, at |-> at] ELSE timer[m]]
      /\ UNCHANGED <<pending, idIndex, running, clock, called, dropped>>
    BY <1>0 DEF Timed!AddAt, Timed!Offer
<1>2. Timed!Added' = Timed!Added \cup {n}
    BY <1>1 DEF Timed!Added
<1>3. n \notin Timed!Added /\ Timed!Added \cup {n} = 1..Cardinality(Timed!Added \cup {n}) /\ n \in Nat
    <2>1. Timed!Added \subseteq 1..MaxAdds /\ Timed!Added = 1..Cardinality(Timed!Added) /\ MaxAdds \in Nat
        BY <1>0, BoundsAssumption DEF Timed!TypeOK, Timed!Timers, Timed!CommandInv
    <2>2. n = Cardinality(Timed!Added) + 1
        OBVIOUS
    <2> HIDE DEF n
    <2>3. Cardinality(Timed!Added) \in Nat /\ n \notin Timed!Added
          /\ Timed!Added \cup {n} = 1..Cardinality(Timed!Added \cup {n})
        BY <2>1, <2>2, NextNumber, Zenon
    <2> QED BY <2>2, <2>3
<1> HIDE DEF n
<1> DEFINE C == [add : Timed!Added' \cup {None}, cancel : TimerIds \cup {None}]
<1>a. cmd \in C /\ [add : Timed!Added \cup {None}, cancel : TimerIds \cup {None}] \subseteq C
    BY <1>2
<1>b. cmdCh \in Seq([add : Timed!Added \cup {None}, cancel : TimerIds \cup {None}])
    BY DEF Timed!TypeOK
<1> HIDE DEF C
<1>c. cmdCh \in Seq(C)
    BY <1>a, <1>b, SeqMonotonic
<1>4. /\ cmdCh' \in Seq(C) /\ Len(cmdCh) \in Nat /\ Len(cmdCh') = Len(cmdCh) + 1
      /\ DOMAIN cmdCh = 1..Len(cmdCh) /\ DOMAIN cmdCh' = 1..(Len(cmdCh) + 1)
      /\ \A i \in 1..Len(cmdCh) : cmdCh'[i] = cmdCh[i]
      /\ cmdCh'[Len(cmdCh) + 1] = cmd
    BY <1>a, <1>c, <1>1, AppendFacts
<1>5. Timed!TypeOK'
    <2>1. cmdCh' \in Seq([add : Timed!Added' \cup {None}, cancel : TimerIds \cup {None}])
        BY <1>4 DEF C
    <2>3. Len(cmdCh') <= ChanSize
        BY <1>1, <1>4, BoundsAssumption
    <2>2. timer' \in [Timed!Added' -> [id : TimerIds \cup {None}, at : 0..MaxClock]]
        BY <1>1, <1>2, BoundsAssumption DEF Timed!TypeOK
    <2> QED BY <2>1, <2>2, <2>3, <1>1, <1>2 DEF Timed!TypeOK, Timed!Timers
<1>6. Timed!CommandInv'
    <2>1. \A i \in DOMAIN cmdCh : cmdCh[i] \in [add : Timed!Added \cup {None}, cancel : TimerIds \cup {None}]
        BY <1>b, <1>4, ElementOfSeq
    <2>2. /\ n # None
          /\ \A i \in DOMAIN cmdCh : cmdCh[i].add # n
          /\ n \notin pending \cup called \cup dropped
        BY <2>1, <1>3, BoundsAssumption DEF Timed!TypeOK
    <2>3. \A i \in DOMAIN cmdCh' : cmdCh'[i].add # None =>
              /\ cmdCh'[i].add \notin pending \cup called \cup dropped
              /\ \A j \in DOMAIN cmdCh' : cmdCh'[j].add = cmdCh'[i].add => i = j
        <3> SUFFICES ASSUME NEW i \in DOMAIN cmdCh', cmdCh'[i].add # None
                     PROVE  /\ cmdCh'[i].add \notin pending \cup called \cup dropped
                            /\ \A j \in DOMAIN cmdCh' : cmdCh'[j].add = cmdCh'[i].add => i = j
            OBVIOUS
        <3>1. \A j \in DOMAIN cmdCh' : j \in DOMAIN cmdCh \/ j = Len(cmdCh) + 1
            BY <1>4
        <3>2. cmd.add = n
            OBVIOUS
        <3>3. CASE i \in DOMAIN cmdCh
            BY <3>1, <3>2, <3>3, <1>4, <2>2 DEF Timed!CommandInv
        <3>4. CASE i = Len(cmdCh) + 1
            BY <3>1, <3>2, <3>4, <1>4, <2>2
        <3> QED BY <3>1, <3>3, <3>4
    <2> QED BY <2>3, <1>0, <1>1, <1>2, <1>3 DEF Timed!CommandInv
<1>7. Timed!IndexNamesHeap'
    <2>1. \A m \in Timed!Added : timer'[m] = timer[m]
        BY <1>1, <1>3
    <2> QED BY <2>1, <1>1 DEF Timed!IndexNamesHeap, Timed!TypeOK
<1> QED BY <1>5, <1>6, <1>7

\* A command to cancel names no timer.
LEMMA TimedCancel ==
    ASSUME Timed!IInv, NEW id \in TimerIds, Timed!Cancel(id)
    PROVE  Timed!IInv'
<1> DEFINE cmd == [add |-> None, cancel |-> id]
           C == [add : Timed!Added \cup {None}, cancel : TimerIds \cup {None}]
<1> USE DEF Timed!IInv
<1>1. /\ Len(cmdCh) < ChanSize /\ cmdCh' = Append(cmdCh, cmd)
      /\ UNCHANGED <<timer, pending, idIndex, running, clock, called, dropped>>
    BY DEF Timed!Cancel, Timed!Offer
<1>2. Timed!Added' = Timed!Added
    BY <1>1 DEF Timed!Added
<1>3. cmdCh \in Seq(C) /\ cmd \in C
    BY DEF Timed!TypeOK
<1>4. /\ cmdCh' \in Seq(C) /\ Len(cmdCh') = Len(cmdCh) + 1 /\ Len(cmdCh) \in Nat
      /\ DOMAIN cmdCh = 1..Len(cmdCh) /\ DOMAIN cmdCh' = 1..Len(cmdCh')
      /\ \A i \in DOMAIN cmdCh : cmdCh'[i] = cmdCh[i]
      /\ cmdCh'[Len(cmdCh) + 1] = cmd
    BY <1>1, <1>3, AppendProperties
<1>5. Timed!TypeOK'
    BY <1>1, <1>2, <1>4, BoundsAssumption DEF Timed!TypeOK, Timed!Timers
<1>6. Timed!CommandInv'
    <2>1. \A i \in DOMAIN cmdCh' : cmdCh'[i].add # None => i \in DOMAIN cmdCh /\ cmdCh'[i] = cmdCh[i]
        BY <1>4
    <2> QED BY <2>1, <1>1, <1>2 DEF Timed!CommandInv
<1>7. Timed!IndexNamesHeap'
    BY <1>1 DEF Timed!IndexNamesHeap
<1> QED BY <1>5, <1>6, <1>7

\* A command takes from the heap only what the index names, and adds what was
\* not there before.
LEMMA TimedCommand ==
    ASSUME Timed!IInv, Timed!Command
    PROVE  Timed!IInv'
<1> DEFINE C == [add : Timed!Added \cup {None}, cancel : TimerIds \cup {None}]
<1> USE DEF Timed!IInv
<1>1. PICK n, id, old :
          /\ n = cmdCh[1].add
          /\ n # None => id = timer[n].id
          /\ old = IF id = None \/ idIndex[id] = None THEN {} ELSE {idIndex[id]}
          /\ n = None => id = cmdCh[1].cancel
          /\ cmdCh # <<>> /\ cmdCh' = Tail(cmdCh)
          /\ pending' = (pending \ old) \cup ({n} \ {None})
          /\ idIndex' = IF id = None THEN idIndex ELSE [idIndex EXCEPT ![id] = n]
          /\ dropped' = dropped \cup old
          /\ UNCHANGED <<timer, running, clock, called>>
    <2>1. Head(cmdCh) = cmdCh[1]
        BY DEF Timed!TypeOK, Timed!Command
    <2> QED BY <2>1 DEF Timed!Command
<1>2. Timed!Added' = Timed!Added
    BY <1>1 DEF Timed!Added
<1>a. cmdCh \in Seq(C)
    BY DEF Timed!TypeOK
<1>3. /\ cmdCh \in Seq(C) /\ cmdCh' \in Seq(C) /\ Len(cmdCh) = Len(cmdCh') + 1 /\ Len(cmdCh') \in Nat
      /\ DOMAIN cmdCh = 1..Len(cmdCh) /\ DOMAIN cmdCh' = 1..Len(cmdCh')
      /\ \A i \in DOMAIN cmdCh' : i + 1 \in DOMAIN cmdCh /\ cmdCh'[i] = cmdCh[i + 1]
      /\ 1 \in DOMAIN cmdCh /\ cmdCh[1] \in C
    <2> HIDE DEF C
    <2> QED BY <1>1, <1>a, TailFacts
<1>4. /\ n \in Timed!Added \cup {None} /\ id \in TimerIds \cup {None}
      /\ n # None => n \notin pending \cup called \cup dropped
    <2>1. n \in Timed!Added \cup {None}
        BY <1>1, <1>3
    <2>2. cmdCh[1].cancel \in TimerIds \cup {None}
        BY <1>3
    <2>3. n # None => timer[n].id \in TimerIds \cup {None}
        BY <2>1 DEF Timed!TypeOK
    <2>4. n # None => n \notin pending \cup called \cup dropped
        BY <1>1, <1>3 DEF Timed!CommandInv
    <2> QED BY <2>1, <2>2, <2>3, <2>4, <1>1
<1>5. old \subseteq pending /\ \A m \in old : timer[m].id = id
    BY <1>1, <1>4 DEF Timed!IndexNamesHeap
<1>6. Timed!TypeOK'
    <2>1. idIndex' \in [TimerIds -> Timed!Added' \cup {None}]
        BY <1>1, <1>2, <1>4 DEF Timed!TypeOK
    <2>2. pending' \subseteq Timed!Added' /\ dropped' \subseteq Timed!Added'
        BY <1>1, <1>2, <1>4, <1>5 DEF Timed!TypeOK
    <2>3. Len(cmdCh') <= ChanSize
        BY <1>3, BoundsAssumption DEF Timed!TypeOK
    <2> QED BY <2>1, <2>2, <2>3, <1>1, <1>2, <1>3 DEF Timed!TypeOK, Timed!Timers
<1>7. Timed!CommandInv'
    <2>1. ASSUME NEW i \in DOMAIN cmdCh', cmdCh'[i].add # None
          PROVE  /\ cmdCh'[i].add \notin pending' \cup called' \cup dropped'
                 /\ \A j \in DOMAIN cmdCh' : cmdCh'[j].add = cmdCh'[i].add => i = j
        <3>1. i + 1 \in DOMAIN cmdCh /\ cmdCh'[i] = cmdCh[i + 1] /\ i \in Nat /\ i + 1 # 1
            BY <2>1, <1>3
        <3>2. /\ cmdCh[i + 1].add \notin pending \cup called \cup dropped
              /\ \A j \in DOMAIN cmdCh : cmdCh[j].add = cmdCh[i + 1].add => i + 1 = j
            BY <3>1, <2>1 DEF Timed!CommandInv
        <3>3. cmdCh[i + 1].add # n
            BY <3>1, <3>2, <1>1, <1>3
        <3>4. \A j \in DOMAIN cmdCh' : cmdCh'[j].add = cmdCh'[i].add => i = j
            BY <3>1, <3>2, <1>3
        <3> QED BY <3>1, <3>2, <3>3, <3>4, <1>1, <1>5
    <2>2. pending' \cap (called' \cup dropped') = {}
        BY <1>1, <1>4, <1>5 DEF Timed!CommandInv
    <2> QED BY <2>1, <2>2, <1>2 DEF Timed!CommandInv
<1>8. Timed!IndexNamesHeap'
    <2>1. ASSUME NEW i \in TimerIds, idIndex'[i] # None
          PROVE  idIndex'[i] \in pending' /\ timer'[idIndex'[i]].id = i
        <3>1. CASE i = id /\ id # None
            <4>1. idIndex'[i] = n
                BY <3>1, <1>1 DEF Timed!TypeOK
            <4> QED BY <4>1, <3>1, <2>1, <1>1
        <3>2. CASE ~(i = id /\ id # None)
            <4>1. idIndex'[i] = idIndex[i]
                BY <3>2, <1>1 DEF Timed!TypeOK
            <4>2. idIndex[i] \in pending /\ timer[idIndex[i]].id = i
                BY <4>1, <2>1 DEF Timed!IndexNamesHeap
            <4>3. idIndex[i] \notin old
                BY <4>2, <3>2, <1>1, <1>5
            <4> QED BY <4>1, <4>2, <4>3, <1>1
        <3> QED BY <3>1, <3>2
    <2>2. called' \cap (dropped' \cup pending') = {}
        BY <1>1, <1>4, <1>5 DEF Timed!CommandInv, Timed!IndexNamesHeap
    <2> QED BY <2>1, <2>2 DEF Timed!IndexNamesHeap
<1> QED BY <1>6, <1>7, <1>8

\* What fires leaves the heap and the index.
LEMMA TimedTickerFires ==
    ASSUME Timed!IInv, Timed!TickerFires
    PROVE  Timed!IInv'
<1> USE DEF Timed!IInv
<1>1. PICK due \in SUBSET pending :
          /\ pending' = pending \ due
          /\ idIndex' = [id \in TimerIds |-> IF \E n \in due : timer[n].id = id THEN None ELSE idIndex[id]]
          /\ called' = called \cup due
    <2>1. PICK t \in {clock - 1, clock} \cap Nat :
              LET due == {n \in pending : timer[n].at <= t} IN
              /\ pending' = pending \ due
              /\ idIndex' = [id \in TimerIds |-> IF \E n \in due : timer[n].id = id THEN None ELSE idIndex[id]]
              /\ called' = called \cup due
        BY DEF Timed!TickerFires
    <2> WITNESS {n \in pending : timer[n].at <= t} \in SUBSET pending
    <2> QED BY <2>1
<1>2. UNCHANGED <<timer, cmdCh, running, clock, dropped>> /\ Timed!Added' = Timed!Added
    BY DEF Timed!TickerFires, Timed!Added
<1>3. Timed!TypeOK'
    BY <1>1, <1>2 DEF Timed!TypeOK, Timed!Timers
<1>4. Timed!CommandInv'
    <2>1. pending' \cup called' = pending \cup called /\ pending' \cap (called' \cup dropped') = {}
        BY <1>1, <1>2 DEF Timed!CommandInv
    <2> QED BY <2>1, <1>2 DEF Timed!CommandInv
<1>5. Timed!IndexNamesHeap'
    <2>1. ASSUME NEW i \in TimerIds, idIndex'[i] # None
          PROVE  idIndex'[i] \in pending' /\ timer'[idIndex'[i]].id = i
        <3>1. idIndex'[i] = idIndex[i] /\ \A n \in due : timer[n].id # i
            BY <2>1, <1>1
        <3>2. idIndex[i] \in pending /\ timer[idIndex[i]].id = i
            BY <3>1, <2>1 DEF Timed!IndexNamesHeap
        <3> QED BY <3>1, <3>2, <1>1, <1>2
    <2>2. called' \cap (dropped' \cup pending') = {}
        BY <1>1, <1>2 DEF Timed!CommandInv, Timed!IndexNamesHeap
    <2> QED BY <2>1, <2>2 DEF Timed!IndexNamesHeap
<1> QED BY <1>3, <1>4, <1>5

\* timerqueue.go:208, 218: index, heap and channel stay consistent.
LEMMA TimedInvariant == MCSpec => []Timed!IInv
<1>1. MCInit => Timed!IInv
    BY TimedInit DEF MCInit
<1>2. Timed!IInv /\ [MCNext]_mcVars => Timed!IInv'
    <2> SUFFICES ASSUME Timed!IInv, [MCNext]_mcVars PROVE Timed!IInv'
        OBVIOUS
    <2>1. Timed!Next \/ UNCHANGED timedVars
        BY DEF MCNext, Only, mcVars
    <2>2. CASE UNCHANGED <<timer, cmdCh, pending, idIndex, called, dropped>>
              /\ running' \in BOOLEAN /\ clock' \in 0..MaxClock
        BY <2>2 DEF Timed!IInv, Timed!TypeOK, Timed!CommandInv, Timed!IndexNamesHeap,
                    Timed!Added, Timed!Timers
    <2>3. ASSUME Timed!Done \/ Timed!Tick \/ UNCHANGED timedVars PROVE Timed!IInv'
        <3>1. running' \in BOOLEAN /\ clock' \in 0..MaxClock
            <4>1. running \in BOOLEAN /\ clock \in 0..MaxClock
                BY DEF Timed!IInv, Timed!TypeOK
            <4>2. CASE Timed!Done \/ UNCHANGED timedVars
                BY <4>1, <4>2 DEF Timed!Done, timedVars
            <4>3. CASE Timed!Tick
                BY <4>1, <4>3, BoundsAssumption DEF Timed!Tick
            <4> QED BY <2>3, <4>2, <4>3
        <3> QED BY <3>1, <2>2, <2>3 DEF Timed!Done, Timed!Tick, timedVars
    <2>4. CASE Timed!Next
        BY <2>3, <2>4, TimedAddAt, TimedCancel, TimedCommand, TimedTickerFires DEF Timed!Next
    <2> QED BY <2>1, <2>3, <2>4
<1> QED BY <1>1, <1>2, PTL DEF MCSpec

-----------------------------------------------------------------------------
(* Scheduler *)

\* Nothing is queued and nobody has stopped at first.
LEMMA PoolInit == Pool!Init => Pool!IInv
<1> SUFFICES ASSUME Pool!Init PROVE Pool!IInv
    OBVIOUS
<1>1. Pool!TypeOK
    <2>1. queue \in Seq(Keys) /\ Len(queue) <= QueueSize
        BY BoundsAssumption DEF Pool!Init
    <2>2. worker \in [Workers -> [at : Pool!Places, task : Keys \cup {None}]]
        BY DEF Pool!Init, Pool!Places
    <2> QED BY <2>1, <2>2 DEF Pool!Init, Pool!TypeOK
<1>2. Pool!DrainInv
    BY DEF Pool!Init, Pool!DrainInv
<1>3. Pool!NoSendOnClosed
    BY DEF Pool!Init, Pool!NoSendOnClosed
<1> QED BY <1>1, <1>2, <1>3 DEF Pool!IInv

\* A caller on its way: it gets past the look at stopped only before the close.
LEMMA PoolCaller ==
    ASSUME Pool!IInv, NEW t \in Keys, Pool!Enter(t) \/ Pool!Look(t) \/ Pool!GiveUp(t)
    PROVE  Pool!IInv'
<1> USE DEF Pool!IInv
<1>1. PICK c \in {"locked", "select", "false"} :
          /\ caller' = [caller EXCEPT ![t] = c]
          /\ UNCHANGED <<queue, closed, worker, paused, schedStop, ran>>
          /\ c = "select" => schedStop = "no"
    BY DEF Pool!Enter, Pool!Look, Pool!GiveUp, Pool!Stopped
<1>2. Pool!TypeOK'
    BY <1>1 DEF Pool!TypeOK
<1>3. Pool!DrainInv'
    BY <1>1 DEF Pool!TypeOK, Pool!DrainInv
<1>4. Pool!NoSendOnClosed'
    BY <1>1 DEF Pool!TypeOK, Pool!DrainInv, Pool!NoSendOnClosed
<1> QED BY <1>2, <1>3, <1>4

\* An accepted task is at the end of the queue, which is open.
LEMMA PoolSend ==
    ASSUME Pool!IInv, NEW t \in Keys, Pool!Send(t)
    PROVE  Pool!IInv'
<1> USE DEF Pool!IInv
<1>1. /\ caller[t] = "select" /\ Len(queue) < QueueSize /\ ~closed
      /\ queue' = Append(queue, t)
      /\ caller' = [caller EXCEPT ![t] = "true"]
      /\ UNCHANGED <<closed, worker, paused, schedStop, ran>>
    BY DEF Pool!Send, Pool!NoSendOnClosed, Pool!TypeOK
<1>2. /\ queue' \in Seq(Keys) /\ Len(queue') = Len(queue) + 1 /\ Len(queue) \in Nat
      /\ DOMAIN queue = 1..Len(queue) /\ DOMAIN queue' = 1..(Len(queue) + 1)
      /\ \A i \in 1..Len(queue) : queue'[i] = queue[i]
      /\ queue'[Len(queue) + 1] = t
    BY <1>1, AppendFacts DEF Pool!TypeOK
<1>3. Pool!TypeOK'
    BY <1>1, <1>2, BoundsAssumption DEF Pool!TypeOK
<1>4. Pool!DrainInv'
    <2>1. ASSUME NEW u \in Keys, caller'[u] = "true"
          PROVE  \/ u \in ran'
                 \/ \E i \in DOMAIN queue' : queue'[i] = u
                 \/ \E w \in Workers : worker'[w].at = "exec" /\ worker'[w].task = u
        <3>1. CASE u = t
            BY <3>1, <1>2
        <3>2. CASE u # t
            <4>1. caller[u] = "true"
                BY <2>1, <3>2, <1>1 DEF Pool!TypeOK
            <4> QED BY <4>1, <1>1, <1>2 DEF Pool!DrainInv
        <3> QED BY <3>1, <3>2
    <2>2. \A w \in Workers :
              /\ worker'[w].at = "exited" => closed' /\ queue' = <<>>
              /\ worker'[w].at = "exec" => worker'[w].task \in Keys
              /\ schedStop' = "done" => worker'[w].at = "exited"
        BY <1>1 DEF Pool!DrainInv
    <2> QED BY <2>1, <2>2, <1>1 DEF Pool!DrainInv
<1>5. Pool!NoSendOnClosed'
    BY <1>1 DEF Pool!NoSendOnClosed
<1> QED BY <1>3, <1>4, <1>5

\* Workers that are woken, that wait or that look do not touch the tasks.
LEMMA PoolWaits ==
    ASSUME Pool!IInv, UNCHANGED <<queue, closed, caller, ran>>,
           schedStop' = schedStop \/ (schedStop' \in {"resume", "broadcast", "signal", "lock"} /\ ~closed),
           worker' \in [Workers -> [at : Pool!Places, task : Keys \cup {None}]],
           \A w \in Workers : /\ worker'[w].task = worker[w].task
                              /\ worker'[w].at = "exec" <=> worker[w].at = "exec"
                              /\ worker'[w].at = "exited" <=> worker[w].at = "exited"
    PROVE  Pool!IInv'
<1>1. Pool!TypeOK'
    BY DEF Pool!IInv, Pool!TypeOK
<1>2. Pool!DrainInv'
    BY DEF Pool!IInv, Pool!DrainInv, Pool!TypeOK
<1>3. Pool!NoSendOnClosed'
    BY DEF Pool!IInv, Pool!NoSendOnClosed
<1> QED BY <1>1, <1>2, <1>3 DEF Pool!IInv

\* Stop closes the queue when no caller is inside, and ends when the workers have.
LEMMA PoolStop ==
    ASSUME Pool!IInv, Pool!Stop
    PROVE  Pool!IInv'
<1>1. UNCHANGED <<queue, caller, ran>>
    BY DEF Pool!Stop
<1>2. worker \in [Workers -> [at : Pool!Places, task : Keys \cup {None}]]
    BY DEF Pool!IInv, Pool!TypeOK
<1>3. CASE schedStop \in {"no", "resume", "signal"}
    <2>1. UNCHANGED <<closed, worker>> /\ schedStop' \in {"resume", "broadcast", "signal", "lock"} /\ ~closed
        BY <1>3 DEF Pool!Stop, Pool!IInv, Pool!DrainInv
    <2> QED BY <2>1, <1>1, <1>2, PoolWaits
<1>4. CASE schedStop = "broadcast"
    <2>1. UNCHANGED closed /\ Pool!Broadcast /\ schedStop' = "signal" /\ ~closed
        BY <1>4 DEF Pool!Stop, Pool!IInv, Pool!DrainInv
    <2>2. /\ worker' \in [Workers -> [at : Pool!Places, task : Keys \cup {None}]]
          /\ \A w \in Workers : /\ worker'[w].task = worker[w].task
                                /\ worker'[w].at = "exec" <=> worker[w].at = "exec"
                                /\ worker'[w].at = "exited" <=> worker[w].at = "exited"
        BY <2>1, <1>2 DEF Pool!Broadcast, Pool!Places
    <2> QED BY <2>1, <2>2, <1>1, PoolWaits
<1>5. CASE schedStop = "lock"
    <2>1. /\ \A t \in Keys : caller[t] # "select"
          /\ schedStop' = "join" /\ closed' = TRUE /\ UNCHANGED worker
        BY <1>5 DEF Pool!Stop, Pool!ReadLocked
    <2> QED BY <2>1, <1>1, <1>5 DEF Pool!IInv, Pool!TypeOK, Pool!DrainInv, Pool!NoSendOnClosed
<1>6. CASE schedStop = "join"
    <2>1. /\ \A w \in Workers : worker[w].at = "exited"
          /\ schedStop' = "done" /\ UNCHANGED <<closed, worker>>
        BY <1>6 DEF Pool!Stop
    <2> QED BY <2>1, <1>1, <1>6 DEF Pool!IInv, Pool!TypeOK, Pool!DrainInv, Pool!NoSendOnClosed
<1> QED BY <1>3, <1>4, <1>5, <1>6 DEF Pool!Stop

\* A worker takes the first task, or leaves a queue that nobody sends to.
LEMMA PoolTake ==
    ASSUME Pool!IInv, NEW w \in Workers, Pool!Take(w)
    PROVE  Pool!IInv'
<1> USE DEF Pool!IInv
<1>1. worker[w].at = "take" /\ UNCHANGED <<closed, caller, paused, schedStop, ran>>
    BY DEF Pool!Take
<1>2. CASE queue # <<>>
    <2>1. /\ worker' = [worker EXCEPT ![w] = [at |-> "exec", task |-> queue[1]]]
          /\ queue' = Tail(queue) /\ Len(queue') <= QueueSize
          /\ queue' \in Seq(Keys) /\ queue[1] \in Keys
          /\ DOMAIN queue = 1..(Len(queue') + 1) /\ Len(queue') \in Nat /\ DOMAIN queue' = 1..Len(queue')
          /\ \A i \in 1..Len(queue') : queue'[i] = queue[i + 1]
        <3>1. queue' = Tail(queue) /\ worker' = [worker EXCEPT ![w] = [at |-> "exec", task |-> Head(queue)]]
            BY <1>2 DEF Pool!Take
        <3> QED BY <3>1, <1>2, TailFacts, BoundsAssumption DEF Pool!TypeOK
    <2>2. Pool!TypeOK'
        BY <2>1, <1>1 DEF Pool!TypeOK, Pool!Places
    <2>3. worker'[w] = [at |-> "exec", task |-> queue[1]] /\ \A v \in Workers : v # w => worker'[v] = worker[v]
        BY <2>1 DEF Pool!TypeOK
    <2>4. ASSUME NEW t \in Keys, caller'[t] = "true"
          PROVE  \/ t \in ran'
                 \/ \E i \in DOMAIN queue' : queue'[i] = t
                 \/ \E v \in Workers : worker'[v].at = "exec" /\ worker'[v].task = t
        <3>1. CASE t \in ran
            BY <3>1, <1>1
        <3>2. CASE \E v \in Workers : worker[v].at = "exec" /\ worker[v].task = t
            BY <3>2, <2>3, <1>1
        <3>3. ASSUME NEW i \in DOMAIN queue, queue[i] = t
              PROVE  (\E j \in DOMAIN queue' : queue'[j] = t) \/ t = queue[1]
            <4>1. CASE i = 1
                BY <4>1, <3>3
            <4>2. CASE i # 1
                <5>1. i - 1 \in DOMAIN queue' /\ queue'[i - 1] = t
                    BY <4>2, <3>3, <2>1
                <5> QED BY <5>1
            <4> QED BY <4>1, <4>2
        <3> QED BY <3>1, <3>2, <3>3, <2>3, <2>4, <1>1 DEF Pool!DrainInv
    <2>5. \A v \in Workers :
              /\ worker'[v].at = "exited" => closed' /\ queue' = <<>>
              /\ worker'[v].at = "exec" => worker'[v].task \in Keys
              /\ schedStop' = "done" => worker'[v].at = "exited"
        BY <2>1, <2>3, <1>1, <1>2 DEF Pool!DrainInv
    <2>6. Pool!DrainInv'
        BY <2>4, <2>5, <1>1 DEF Pool!DrainInv
    <2> QED BY <2>2, <2>6, <1>1 DEF Pool!NoSendOnClosed
<1>3. CASE queue = <<>>
    <2>1. closed /\ worker' = [worker EXCEPT ![w].at = "exited"] /\ UNCHANGED queue
        BY <1>3 DEF Pool!Take
    <2>2. Pool!TypeOK'
        BY <2>1, <1>1 DEF Pool!TypeOK, Pool!Places
    <2>3. worker'[w].at = "exited" /\ \A v \in Workers : v # w => worker'[v] = worker[v]
        BY <2>1 DEF Pool!TypeOK
    <2>4. Pool!DrainInv'
        BY <2>1, <2>3, <1>1, <1>3 DEF Pool!DrainInv
    <2> QED BY <2>2, <2>4, <1>1 DEF Pool!NoSendOnClosed
<1> QED BY <1>2, <1>3

\* The task in a worker's hands runs.
LEMMA PoolExec ==
    ASSUME Pool!IInv, NEW w \in Workers, Pool!Exec(w)
    PROVE  Pool!IInv'
<1> USE DEF Pool!IInv
<1>1. /\ worker[w].at = "exec" /\ worker[w].task \in Keys
      /\ ran' = ran \cup {worker[w].task}
      /\ worker' = [worker EXCEPT ![w] = [at |-> "check", task |-> None]]
      /\ UNCHANGED <<queue, closed, caller, paused, schedStop>>
    BY DEF Pool!Exec, Pool!DrainInv
<1>2. Pool!TypeOK'
    BY <1>1 DEF Pool!TypeOK, Pool!Places
<1>3. worker'[w] = [at |-> "check", task |-> None] /\ \A v \in Workers : v # w => worker'[v] = worker[v]
    BY <1>1 DEF Pool!TypeOK
<1>4. Pool!DrainInv'
    BY <1>1, <1>3 DEF Pool!DrainInv
<1> QED BY <1>1, <1>2, <1>4 DEF Pool!NoSendOnClosed

\* scheduler.go:161-169: queue, callers and workers stay consistent through Stop.
LEMMA PoolInvariant == MCSpec => []Pool!IInv
<1>1. MCInit => Pool!IInv
    BY PoolInit DEF MCInit
<1>2. Pool!IInv /\ [MCNext]_mcVars => Pool!IInv'
    <2> SUFFICES ASSUME Pool!IInv, [MCNext]_mcVars PROVE Pool!IInv'
        OBVIOUS
    <2>1. Pool!Next \/ UNCHANGED poolVars
        BY DEF MCNext, Only, mcVars
    <2>2. worker \in [Workers -> [at : Pool!Places, task : Keys \cup {None}]]
        BY DEF Pool!IInv, Pool!TypeOK
    <2>3. CASE Pool!Pause \/ UNCHANGED poolVars
        BY <2>2, <2>3, PoolWaits DEF Pool!Pause, poolVars
    <2>4. CASE Pool!Resume
        <3>1. /\ worker' \in [Workers -> [at : Pool!Places, task : Keys \cup {None}]]
              /\ \A w \in Workers : /\ worker'[w].task = worker[w].task
                                    /\ worker'[w].at = "exec" <=> worker[w].at = "exec"
                                    /\ worker'[w].at = "exited" <=> worker[w].at = "exited"
            BY <2>2, <2>4 DEF Pool!Resume, Pool!Broadcast, Pool!Places
        <3> QED BY <3>1, <2>4, PoolWaits DEF Pool!Resume
    <2>5. ASSUME NEW w \in Workers, Pool!PauseCheck(w) PROVE Pool!IInv'
        <3>1. /\ worker' \in [Workers -> [at : Pool!Places, task : Keys \cup {None}]]
              /\ \A v \in Workers : /\ worker'[v].task = worker[v].task
                                    /\ worker'[v].at = "exec" <=> worker[v].at = "exec"
                                    /\ worker'[v].at = "exited" <=> worker[v].at = "exited"
            BY <2>2, <2>5 DEF Pool!PauseCheck, Pool!Move, Pool!Places
        <3> QED BY <3>1, <2>5, PoolWaits DEF Pool!PauseCheck
    <2>6. ASSUME NEW t \in Keys, Pool!Enter(t) \/ Pool!Look(t) \/ Pool!Send(t) \/ Pool!GiveUp(t)
          PROVE  Pool!IInv'
        BY <2>6, PoolCaller, PoolSend
    <2>7. ASSUME NEW w \in Workers, Pool!Take(w) \/ Pool!Exec(w) PROVE Pool!IInv'
        BY <2>7, PoolTake, PoolExec
    <2> QED BY <2>1, <2>3, <2>4, <2>5, <2>6, <2>7, PoolStop DEF Pool!Next, Pool!Work
<1> QED BY <1>1, <1>2, PTL DEF MCSpec

\* A task that was accepted has run once the workers are gone.
LEMMA PoolDrained == Pool!IInv => Pool!DrainedAtStop
BY DEF Pool!IInv, Pool!DrainInv, Pool!DrainedAtStop, Pool!TypeOK

-----------------------------------------------------------------------------
(* Batcher *)

\* Nothing was added at first.
LEMMA CollectorInit == Collector!Init => Collector!IInv
<1> SUFFICES ASSUME Collector!Init PROVE Collector!IInv
    OBVIOUS
<1>1. flushed \o buf \o in = <<>> /\ Len(in) = 0 /\ <<>> \in Seq(Threads)
    BY DEF Collector!Init
<1>2. Collector!TypeOK
    <2>1. 0 <= MaxBatch
        BY BoundsAssumption
    <2> QED BY <2>1, <1>1 DEF Collector!Init, Collector!TypeOK
<1>3. Collector!FlushInv
    BY <1>1 DEF Collector!Init, Collector!FlushInv, Collector!Range
<1>4. Collector!CloseFlushes
    BY <1>1 DEF Collector!Init, Collector!CloseFlushes, Collector!IsInjective
<1> QED BY <1>2, <1>3, <1>4 DEF Collector!IInv

\* An item is added once, at the end.
LEMMA CollectorAdd ==
    ASSUME Collector!IInv, NEW i \in Threads, Collector!Add(i)
    PROVE  Collector!IInv'
<1> DEFINE all == flushed \o buf \o in
<1> USE DEF Collector!IInv
<1>0. (\A f : Collector!Range(f) = Range(f)) /\ (\A f : Collector!IsInjective(f) <=> IsInjective(f))
    BY DEF Collector!Range, Range, Collector!IsInjective, IsInjective
<1>1. UNCHANGED <<buf, timerOn, run, closer, flushed, early>> /\ adder[i] # "added"
    BY DEF Collector!Add
<1>2. flushed \in Seq(Threads) /\ buf \in Seq(Threads) /\ in \in Seq(Threads) /\ all \in Seq(Threads)
    BY DEF Collector!TypeOK
<1>3. CASE UNCHANGED in /\ adder' \in [Threads -> {"none", "select", "added", "dropped"}]
           /\ \A j \in Threads : adder'[j] = "added" <=> adder[j] = "added"
    BY <1>1, <1>3 DEF Collector!TypeOK, Collector!FlushInv, Collector!CloseFlushes
<1>4. CASE adder[i] = "select" /\ Len(in) < MaxBatch /\ in' = Append(in, i) /\ adder' = [adder EXCEPT ![i] = "added"]
    <2>1. all' = Append(all, i)
        BY <1>1, <1>2, <1>4, ConcatAppend
    <2>2. i \notin Range(all)
        BY <1>0, <1>1 DEF Collector!FlushInv
    <2> HIDE DEF all
    <2>3. Range(all') = Range(all) \cup {i} /\ (IsInjective(all) => IsInjective(all'))
        BY <2>1, <2>2, <1>2, AppendInjective2
    <2> USE DEF all
    <2>4. Collector!TypeOK'
        <3>1. in' \in Seq(Threads) /\ Len(in') = Len(in) + 1 /\ Len(in) \in Nat
            BY <1>2, <1>4, AppendFacts
        <3> QED BY <3>1, <1>1, <1>4, BoundsAssumption DEF Collector!TypeOK
    <2>5. Range(all') = {j \in Threads : adder'[j] = "added"}
        BY <2>3, <1>0, <1>4 DEF Collector!FlushInv, Collector!TypeOK
    <2>6. Collector!FlushInv' /\ Collector!CloseFlushes'
        BY <2>3, <2>5, <1>0, <1>1 DEF Collector!FlushInv, Collector!CloseFlushes
    <2> QED BY <2>4, <2>6
<1> QED BY <1>3, <1>4 DEF Collector!Add, Collector!TypeOK

\* The first item of the channel moves to the buffer.
LEMMA CollectorShift ==
    \A s, t, u \in Seq(Threads) : u # <<>> => s \o Append(t, Head(u)) \o Tail(u) = s \o t \o u
<1> SUFFICES ASSUME NEW s \in Seq(Threads), NEW t \in Seq(Threads), NEW u \in Seq(Threads), u # <<>>
             PROVE  s \o Append(t, Head(u)) \o Tail(u) = s \o t \o u
    OBVIOUS
<1> QED OBVIOUS

\* The items move on from the channel to the buffer to flush, in order.
LEMMA CollectorLoop ==
    ASSUME Collector!IInv, Collector!Loop
    PROVE  Collector!IInv'
<1> DEFINE all == flushed \o buf \o in
<1> USE DEF Collector!IInv
<1>0. (\A f : Collector!Range(f) = Range(f)) /\ (\A f : Collector!IsInjective(f) <=> IsInjective(f))
    BY DEF Collector!Range, Range, Collector!IsInjective, IsInjective
<1>1. UNCHANGED <<adder, closer, early>>
    BY DEF Collector!Loop, Collector!Take, Collector!Timer, Collector!Quit
<1>2. flushed \in Seq(Threads) /\ buf \in Seq(Threads) /\ in \in Seq(Threads) /\ Len(in) <= MaxBatch
    BY DEF Collector!TypeOK
<1>3. /\ in' \in Seq(Threads) /\ Len(in') <= MaxBatch /\ buf' \in Seq(Threads) /\ flushed' \in Seq(Threads)
      /\ timerOn' \in BOOLEAN
      /\ all' = all
    <2>1. CASE Collector!Take
        <3> DEFINE more == Append(buf, Head(in))
        <3>1. in # <<>> /\ in' = Tail(in)
            BY <2>1 DEF Collector!Take
        <3>2. Head(in) \in Threads /\ in' \in Seq(Threads) /\ Len(in') <= MaxBatch /\ more \in Seq(Threads)
            BY <3>1, <1>2, BoundsAssumption
        <3>a. more = Append(buf, Head(in))
            OBVIOUS
        <3> HIDE DEF more
        <3>3. flushed \o more \o in' = flushed \o buf \o in
            <4>1. in # <<>>
                BY <3>1
            <4>2. flushed \o Append(buf, Head(in)) \o Tail(in) = flushed \o buf \o in
                BY <4>1, <1>2, CollectorShift, Zenon
            <4> QED BY <4>2, <3>a, <3>1, Zenon
        <3>4. CASE flushed' = flushed \o more /\ buf' = <<>> /\ timerOn' = FALSE
            <4>1. flushed' \in Seq(Threads) /\ flushed' \o <<>> \o in' = flushed \o more \o in'
                BY <3>2, <3>4, <1>2, ConcatFlush
            <4>2. flushed' \o buf' \o in' = flushed \o buf \o in
                BY <4>1, <3>3, <3>4, Zenon
            <4>3. buf' \in Seq(Threads) /\ timerOn' \in BOOLEAN
                BY <3>4, EmptySeq, Zenon
            <4> QED BY <4>1, <4>2, <4>3, <3>2, Zenon
        <3>5. CASE buf' = more /\ timerOn' \in BOOLEAN /\ UNCHANGED flushed
            BY <3>2, <3>3, <3>5, <1>2
        <3> QED BY <2>1, <3>4, <3>5 DEF Collector!Take, Collector!Flush, Collector!TypeOK, more
    <2>2. CASE UNCHANGED <<in, buf, flushed, timerOn>>
        BY <2>2, <1>2 DEF Collector!TypeOK
    <2>3. CASE UNCHANGED in /\ Collector!Flush(buf)
        <3>1. flushed' = flushed \o buf /\ buf' = <<>> /\ timerOn' = FALSE
            BY <2>3 DEF Collector!Flush
        <3>2. flushed' \in Seq(Threads) /\ flushed' \o <<>> \o in = flushed \o buf \o in
            BY <3>1, <1>2, ConcatFlush
        <3>3. buf' \in Seq(Threads) /\ timerOn' \in BOOLEAN
            BY <3>1, EmptySeq, Zenon
        <3> QED BY <3>1, <3>2, <3>3, <2>3, <1>2, Zenon
    <2> QED BY <2>1, <2>2, <2>3 DEF Collector!Loop, Collector!Timer, Collector!Quit
<1>4. /\ run' \in {"loop", "drain", "exited"}
      /\ run' # "loop" => closer # "no"
      /\ run = "exited" => FALSE
      /\ closer # "done"
      /\ run' = "exited" => in = <<>> /\ flushed' = flushed \o buf
    BY DEF Collector!Loop, Collector!Take, Collector!Timer, Collector!Quit, Collector!Flush,
           Collector!TypeOK, Collector!FlushInv
<1>5. Collector!TypeOK'
    BY <1>1, <1>3, <1>4 DEF Collector!TypeOK
<1>6. run' = "exited" => early \subseteq Range(flushed')
    <2>1. run' = "exited" => all = flushed'
        BY <1>2, <1>4
    <2> QED BY <2>1, <1>0 DEF Collector!FlushInv
<1>7. Collector!FlushInv'
    BY <1>0, <1>1, <1>3, <1>4, <1>6 DEF Collector!FlushInv
<1>8. Collector!CloseFlushes'
    BY <1>1, <1>3, <1>4 DEF Collector!CloseFlushes, Collector!TypeOK
<1> QED BY <1>5, <1>7, <1>8

\* Close notes what was added, and returns after the goroutine.
LEMMA CollectorClose ==
    ASSUME Collector!IInv, Collector!Close
    PROVE  Collector!IInv'
<1> USE DEF Collector!IInv
<1>1. UNCHANGED <<in, adder, buf, timerOn, run, flushed>>
    BY DEF Collector!Close
<1>2. CASE closer = "no" /\ closer' = "wait" /\ early' = {i \in Threads : adder[i] = "added"}
    BY <1>1, <1>2 DEF Collector!TypeOK, Collector!FlushInv, Collector!CloseFlushes
<1>3. CASE closer = "wait" /\ run = "exited" /\ closer' = "done" /\ UNCHANGED early
    BY <1>1, <1>3 DEF Collector!TypeOK, Collector!FlushInv, Collector!CloseFlushes
<1> QED BY <1>2, <1>3 DEF Collector!Close

\* batcher.go:46: what was added is flushed, collected or in the channel.
LEMMA CollectorInvariant == MCSpec => []Collector!IInv
<1>1. MCInit => Collector!IInv
    BY CollectorInit DEF MCInit
<1>2. Collector!IInv /\ [MCNext]_mcVars => Collector!IInv'
    <2> SUFFICES ASSUME Collector!IInv, [MCNext]_mcVars PROVE Collector!IInv'
        OBVIOUS
    <2>1. Collector!Next \/ UNCHANGED collectorVars
        BY DEF MCNext, Only, mcVars
    <2>2. CASE UNCHANGED collectorVars
        BY <2>2 DEF collectorVars, Collector!IInv, Collector!TypeOK, Collector!FlushInv, Collector!CloseFlushes
    <2> QED BY <2>1, <2>2, CollectorAdd, CollectorLoop, CollectorClose DEF Collector!Next
<1> QED BY <1>1, <1>2, PTL DEF MCSpec

-----------------------------------------------------------------------------
(* Hedge *)

\* The answers are finitely many, Total of them when every call has answered.
LEMMA HedgedAnswered ==
    /\ IsFiniteSet(Hedged!Answered) /\ Cardinality(Hedged!Answered) \in Nat
    /\ Cardinality(Hedged!Answered) <= Total
    /\ Cardinality(Hedged!Answered) = Total => Hedged!Answered = Hedged!Attempts
    /\ \A S : Hedged!Cardinality(S) = Cardinality(S)
<1>1. IsFiniteSet(Hedged!Attempts) /\ Cardinality(Hedged!Attempts) = Total
    BY BoundsAssumption, FS_Interval DEF Hedged!Attempts
<1>2. Hedged!Answered \in SUBSET Hedged!Attempts
    BY DEF Hedged!Answered
<1>3. /\ IsFiniteSet(Hedged!Answered) /\ Cardinality(Hedged!Answered) <= Cardinality(Hedged!Attempts)
      /\ Cardinality(Hedged!Attempts) = Cardinality(Hedged!Answered) => Hedged!Attempts = Hedged!Answered
    BY <1>1, <1>2, FS_Subset
<1>4. Cardinality(Hedged!Answered) \in Nat
    BY <1>3, FS_CardinalityType
<1>5. \A S : Hedged!Cardinality(S) = Cardinality(S)
    BY DEF Cardinality, Hedged!Cardinality
<1> QED BY <1>1, <1>3, <1>4, <1>5

\* No call has answered at first.
LEMMA HedgedInit == Hedged!Init => Hedged!IInv
<1> SUFFICES ASSUME Hedged!Init PROVE Hedged!IInv
    OBVIOUS
<1>1. Hedged!TypeOK
    <2>1. (Delay /\ Total > 1) \in BOOLEAN
        BY BoundsAssumption, Zenon
    <2>2. <<>> \in Seq({"ok", "err"})
        BY EmptySeq, Zenon
    <2> QED BY <2>1, <2>2 DEF Hedged!Init, Hedged!TypeOK
<1>2. \A a \in Hedged!Attempts : attempt[a] \notin {"ok", "err"}
    BY DEF Hedged!Init
<1>3. Cardinality(Hedged!Answered) = 0
    BY <1>2, FS_EmptySet DEF Hedged!Answered
<1>4. Hedged!ResultInv
    BY <1>2, <1>3, HedgedAnswered DEF Hedged!Init, Hedged!ResultInv
<1>5. Hedged!AnswerIsRight
    BY DEF Hedged!Init, Hedged!AnswerIsRight
<1> QED BY <1>1, <1>4, <1>5 DEF Hedged!IInv

\* A call answers once.
LEMMA HedgedAnswer ==
    ASSUME Hedged!IInv, NEW a \in Hedged!Attempts, NEW r \in {"ok", "err"}, Hedged!Answer(a, r)
    PROVE  Hedged!IInv'
<1> USE DEF Hedged!IInv
<1>1. /\ attempt[a] = "running"
      /\ attempt' = [attempt EXCEPT ![a] = r]
      /\ results' = Append(results, r)
      /\ UNCHANGED <<main, ctx>>
    BY DEF Hedged!Answer
<1>2. /\ results' \in Seq({"ok", "err"}) /\ Len(results) \in Nat /\ Len(results') = Len(results) + 1
      /\ DOMAIN results = 1..Len(results) /\ DOMAIN results' = 1..(Len(results) + 1)
      /\ \A i \in 1..Len(results) : results'[i] = results[i]
      /\ results'[Len(results) + 1] = r
    <2>1. results \in Seq({"ok", "err"})
        BY DEF Hedged!TypeOK
    <2> QED BY <2>1, <1>1, AppendFacts
<1>3. Hedged!TypeOK'
    BY <1>1, <1>2 DEF Hedged!TypeOK
<1>4. Hedged!Answered' = Hedged!Answered \cup {a} /\ a \notin Hedged!Answered
    BY <1>1 DEF Hedged!Answered, Hedged!TypeOK
<1>5. Cardinality(Hedged!Answered') = Cardinality(Hedged!Answered) + 1
    BY <1>4, HedgedAnswered, FS_AddElement
<1>6. attempt'[a] = r /\ \A b \in Hedged!Attempts : b # a => attempt'[b] = attempt[b]
    BY <1>1 DEF Hedged!TypeOK
<1>7. Hedged!ResultInv'
    <2>1. main'.completed + Len(results') = Cardinality(Hedged!Answered')
        <3>1. main.completed \in Nat
            BY DEF Hedged!TypeOK
        <3> QED BY <3>1, <1>1, <1>2, <1>5, HedgedAnswered DEF Hedged!ResultInv
    <2>2. \A i \in DOMAIN results' : results'[i] = "ok" => \E b \in Hedged!Attempts : attempt'[b] = "ok"
        <3> SUFFICES ASSUME NEW i \in DOMAIN results', results'[i] = "ok"
                     PROVE  \E b \in Hedged!Attempts : attempt'[b] = "ok"
            OBVIOUS
        <3>1. CASE i = Len(results) + 1
            BY <3>1, <1>2, <1>6
        <3>2. CASE i \in DOMAIN results
            <4>1. PICK b \in Hedged!Attempts : attempt[b] = "ok"
                BY <3>2, <1>2 DEF Hedged!ResultInv
            <4>2. b # a
                BY <4>1, <1>1
            <4> QED BY <4>1, <4>2, <1>6
        <3> QED BY <3>1, <3>2, <1>2
    <2>3. ASSUME main'.at = "select", NEW b \in Hedged!Attempts, attempt'[b] = "ok"
          PROVE  \E i \in DOMAIN results' : results'[i] = "ok"
        <3>1. CASE b = a
            BY <3>1, <2>3, <1>2, <1>6
        <3>2. CASE b # a
            <4>1. PICK i \in DOMAIN results : results[i] = "ok"
                BY <3>2, <2>3, <1>1, <1>6 DEF Hedged!ResultInv
            <4> QED BY <4>1, <1>2
        <3> QED BY <3>1, <3>2
    <2>4. main'.at = "select" => ctx' # "done"
        BY <1>1 DEF Hedged!ResultInv
    <2> QED BY <2>1, <2>2, <2>3, <2>4, HedgedAnswered DEF Hedged!ResultInv
<1>8. Hedged!AnswerIsRight'
    BY <1>1, <1>6 DEF Hedged!AnswerIsRight
<1> QED BY <1>3, <1>7, <1>8

\* A success ends Do; so does the last failure, when nothing else is left.
LEMMA HedgedReceive ==
    ASSUME Hedged!IInv, Hedged!Receive
    PROVE  Hedged!IInv'
<1> USE DEF Hedged!IInv
<1> DEFINE r == results[1]
           done == main.completed + 1
<1>0. main.completed \in Nat /\ main \in [at : {"select", "ok", "err", "cancelled"}, completed : Nat,
                                          last : {"none", "err"}, armed : BOOLEAN]
    BY DEF Hedged!TypeOK
<1>1. /\ results' \in Seq({"ok", "err"}) /\ Len(results') \in Nat /\ Len(results) = Len(results') + 1
      /\ DOMAIN results = 1..Len(results) /\ DOMAIN results' = 1..Len(results')
      /\ \A i \in 1..Len(results') : results'[i] = results[i + 1]
      /\ Head(results) = r /\ r \in {"ok", "err"}
    <2>1. results \in Seq({"ok", "err"}) /\ results # <<>> /\ results' = Tail(results)
        BY DEF Hedged!TypeOK, Hedged!Receive
    <2> QED BY <2>1, TailFacts
<1>2. /\ main.at = "select" /\ UNCHANGED attempt /\ Hedged!Answered' = Hedged!Answered
      /\ r = "ok" \/ done >= Total =>
            /\ main' = [main EXCEPT !.at = r, !.completed = done]
            /\ ctx' = IF ctx = "live" THEN "done" ELSE ctx
      /\ ~(r = "ok" \/ done >= Total) =>
            main' = [main EXCEPT !.last = r, !.completed = done] /\ UNCHANGED ctx
    BY <1>1 DEF Hedged!Receive, Hedged!Return, Hedged!Answered
<1>3. /\ main' \in [at : {"select", "ok", "err", "cancelled"}, completed : Nat,
                    last : {"none", "err"}, armed : BOOLEAN]
      /\ main'.completed = done
      /\ r = "ok" \/ done >= Total => main'.at = r
      /\ ~(r = "ok" \/ done >= Total) => main'.at = "select"
    <2>0. r \in {"ok", "err"} /\ done \in Nat
        BY <1>0, <1>1
    <2> HIDE DEF r, done
    <2>1. CASE r = "ok" \/ done >= Total
        <3>1. main' = [main EXCEPT !.at = r, !.completed = done]
            BY <2>1, <1>2
        <3> QED BY <2>0, <2>1, <3>1, <1>0
    <2>2. CASE ~(r = "ok" \/ done >= Total)
        <3>1. main' = [main EXCEPT !.last = r, !.completed = done] /\ r = "err"
            BY <2>0, <2>2, <1>2
        <3> QED BY <2>0, <2>2, <3>1, <1>0, <1>2
    <2> QED BY <2>1, <2>2
<1>4. Hedged!TypeOK'
    BY <1>1, <1>2, <1>3 DEF Hedged!TypeOK
<1>5. 1 \in DOMAIN results /\ \A i \in DOMAIN results' : i + 1 \in DOMAIN results
    BY <1>1
<1>6. Hedged!ResultInv'
    <2>1. main'.completed + Len(results') = Cardinality(Hedged!Answered')
        BY <1>0, <1>1, <1>2, <1>3, HedgedAnswered DEF Hedged!ResultInv
    <2>2. \A i \in DOMAIN results' : results'[i] = "ok" => \E b \in Hedged!Attempts : attempt'[b] = "ok"
        BY <1>1, <1>2, <1>5 DEF Hedged!ResultInv
    <2>3. ASSUME main'.at = "select", NEW b \in Hedged!Attempts, attempt'[b] = "ok"
          PROVE  \E i \in DOMAIN results' : results'[i] = "ok"
        <3>1. r # "ok"
            BY <2>3, <1>1, <1>3
        <3>2. PICK i \in DOMAIN results : results[i] = "ok"
            BY <2>3, <1>2 DEF Hedged!ResultInv
        <3>3. i - 1 \in 1..Len(results') /\ results'[i - 1] = results[i]
            BY <3>1, <3>2, <1>1
        <3> QED BY <3>2, <3>3, <1>1
    <2>4. main'.at = "select" => ctx' # "done"
        BY <1>1, <1>2, <1>3 DEF Hedged!ResultInv
    <2> QED BY <2>1, <2>2, <2>3, <2>4, HedgedAnswered DEF Hedged!ResultInv
<1>7. Hedged!AnswerIsRight'
    <2>1. main'.at = "ok" => \E a \in Hedged!Attempts : attempt'[a] = "ok"
        BY <1>1, <1>2, <1>3, <1>5 DEF Hedged!ResultInv
    <2>2. ASSUME main'.at = "err" PROVE \A a \in Hedged!Attempts : attempt'[a] = "err"
        <3>1. r = "err" /\ done >= Total
            BY <2>2, <1>1, <1>3
        <3>2. Cardinality(Hedged!Answered) = Total /\ Len(results) = 1
            BY <3>1, <1>0, <1>1, BoundsAssumption, HedgedAnswered DEF Hedged!ResultInv
        <3>3. \A i \in DOMAIN results : results[i] # "ok"
            BY <3>1, <3>2, <1>1
        <3>4. \A a \in Hedged!Attempts : attempt[a] # "ok"
            BY <3>3, <1>2 DEF Hedged!ResultInv
        <3> QED BY <3>2, <3>4, <1>2, HedgedAnswered DEF Hedged!Answered
    <2> QED BY <2>1, <2>2 DEF Hedged!AnswerIsRight
<1> QED BY <1>4, <1>6, <1>7

\* Launching a call, and the caller's own cancelling, leave the answers alone.
LEMMA HedgedOther ==
    ASSUME Hedged!IInv, Hedged!Hedged \/ Hedged!Cancel \/ Hedged!Cancelled
    PROVE  Hedged!IInv'
<1> USE DEF Hedged!IInv
<1>0. main \in [at : {"select", "ok", "err", "cancelled"}, completed : Nat,
                last : {"none", "err"}, armed : BOOLEAN] /\ main.at = "select"
    BY DEF Hedged!TypeOK, Hedged!Hedged, Hedged!Cancel, Hedged!Cancelled
<1>1. /\ UNCHANGED results
      /\ attempt' \in [Hedged!Attempts -> {"none", "running", "ok", "err"}]
      /\ \A a \in Hedged!Attempts : /\ attempt'[a] = "ok" <=> attempt[a] = "ok"
                                    /\ attempt'[a] = "err" <=> attempt[a] = "err"
    <2>1. CASE Hedged!Hedged
        BY <2>1 DEF Hedged!Hedged, Hedged!TypeOK, Hedged!Launched
    <2>2. CASE Hedged!Cancel \/ Hedged!Cancelled
        BY <2>2 DEF Hedged!Cancel, Hedged!Cancelled, Hedged!TypeOK
    <2> QED BY <2>1, <2>2
<1>2. /\ main' \in [at : {"select", "ok", "err", "cancelled"}, completed : Nat,
                    last : {"none", "err"}, armed : BOOLEAN]
      /\ main'.completed = main.completed /\ main'.at # "ok"
      /\ main'.at \in {"select", "err", "cancelled"}
      /\ main'.at # "select" => ctx' = "cancelled"
      /\ ctx' \in {"live", "cancelled", "done"}
      /\ main'.at = "select" => ctx' # "done"
    <2>1. CASE Hedged!Hedged
        <3>1. UNCHANGED ctx /\ \E b \in BOOLEAN : main' = [main EXCEPT !.armed = b]
            <4>1. PICK a \in Hedged!Attempts : main' = [main EXCEPT !.armed = a < Total]
                BY <2>1 DEF Hedged!Hedged
            <4>2. (a < Total) \in BOOLEAN
                BY BoundsAssumption DEF Hedged!Attempts
            <4> QED BY <2>1, <4>1, <4>2 DEF Hedged!Hedged
        <3> QED BY <3>1, <1>0 DEF Hedged!TypeOK, Hedged!ResultInv
    <2>2. CASE Hedged!Cancel
        BY <2>2, <1>0 DEF Hedged!Cancel
    <2>3. CASE Hedged!Cancelled
        BY <2>3, <1>0 DEF Hedged!Cancelled, Hedged!Return
    <2> QED BY <2>1, <2>2, <2>3
<1>3. Hedged!Answered' = Hedged!Answered
    BY <1>1 DEF Hedged!Answered
<1>4. Hedged!TypeOK'
    BY <1>1, <1>2 DEF Hedged!TypeOK
<1>5. Hedged!ResultInv'
    BY <1>0, <1>1, <1>2, <1>3 DEF Hedged!ResultInv
<1>6. Hedged!AnswerIsRight'
    BY <1>2 DEF Hedged!AnswerIsRight
<1> QED BY <1>4, <1>5, <1>6

\* hedge.go:18: every answer is counted, and none is lost.
LEMMA HedgedInvariant == MCSpec => []Hedged!IInv
<1>1. MCInit => Hedged!IInv
    BY HedgedInit DEF MCInit
<1>2. Hedged!IInv /\ [MCNext]_mcVars => Hedged!IInv'
    <2> SUFFICES ASSUME Hedged!IInv, [MCNext]_mcVars PROVE Hedged!IInv'
        OBVIOUS
    <2>1. Hedged!Next \/ UNCHANGED hedgedVars
        BY DEF MCNext, Only, mcVars
    <2>2. CASE UNCHANGED hedgedVars
        BY <2>2 DEF hedgedVars, Hedged!IInv, Hedged!TypeOK, Hedged!ResultInv, Hedged!AnswerIsRight,
                    Hedged!Answered, Hedged!Attempts
    <2> QED BY <2>1, <2>2, HedgedAnswer, HedgedReceive, HedgedOther
            DEF Hedged!Next, Hedged!DoStep, Hedged!Answers
<1> QED BY <1>1, <1>2, PTL DEF MCSpec

-----------------------------------------------------------------------------
(* Semaphore *)

\* The units of one client more: those it has not, and those it has.
LEMMA SemUnits ==
    ASSUME NEW A, IsFiniteSet(A), NEW u, NEW c \in Nat, \A i : <<u, i>> \notin A
    PROVE  Cardinality(A \cup ({u} \X (1..c))) = Cardinality(A) + c /\ IsFiniteSet(A \cup ({u} \X (1..c)))
<1>1. c \in Int /\ 1 \in Int
    OBVIOUS
<1>2. IsFiniteSet(1..c) /\ Cardinality(1..c) = c
    <2>1. IsFiniteSet(1..c) /\ Cardinality(1..c) = IF 1 > c THEN 0 ELSE c - 1 + 1
        BY <1>1, FS_Interval, Zenon
    <2> QED BY <2>1, <1>1
<1>3. IsFiniteSet({u}) /\ Cardinality({u}) = 1
    BY FS_Singleton
<1>4. IsFiniteSet({u} \X (1..c)) /\ Cardinality({u} \X (1..c)) = 1 * c
    <2>1. PICK S, T : S = {u} /\ T = 1..c
        OBVIOUS
    <2>2. IsFiniteSet(S) /\ IsFiniteSet(T)
        BY <1>2, <1>3, <2>1
    <2>3. IsFiniteSet(S \X T) /\ Cardinality(S \X T) = Cardinality(S) * Cardinality(T)
        BY <2>2, FS_Product
    <2>4. Cardinality(S) = 1 /\ Cardinality(T) = c
        BY <1>2, <1>3, <2>1
    <2> QED BY <2>1, <2>3, <2>4
<1>5. A \cap ({u} \X (1..c)) = {}
    OBVIOUS
<1>6. /\ IsFiniteSet(A \cup ({u} \X (1..c)))
      /\ Cardinality(A \cup ({u} \X (1..c)))
            = Cardinality(A) + Cardinality({u} \X (1..c)) - Cardinality(A \cap ({u} \X (1..c)))
    BY <1>4, FS_Union
<1>7. Cardinality(A) \in Nat
    BY FS_CardinalityType
<1>8. Cardinality(A \cap ({u} \X (1..c))) = 0
    BY <1>5, FS_EmptySet
<1>9. Cardinality({u} \X (1..c)) = c
    BY <1>4
<1> QED BY <1>6, <1>7, <1>8, <1>9

\* A cost is a number.
LEMMA SemCost ==
    ASSUME Sem!TypeOK, NEW u \in Threads
    PROVE  user[u].cost \in Nat
<1>1. Costs \cup {0} \subseteq Nat
    BY BoundsAssumption
<1>2. user[u].cost \in Costs \cup {0}
    BY DEF Sem!TypeOK
<1> QED BY <1>1, <1>2

\* The units are finitely many, and a unit is that of one client inside.
LEMMA SemFinite ==
    ASSUME Sem!TypeOK
    PROVE  /\ IsFiniteSet(Sem!Units) /\ Cardinality(Sem!Units) \in Nat
           /\ \A S : Sem!Cardinality(S) = Cardinality(S)
<1> DEFINE T == {{u} \X (1..user[u].cost) : u \in Sem!Inside}
           f == [u \in Sem!Inside |-> {u} \X (1..user[u].cost)]
<1>1. IsFiniteSet(T)
    <2>1. Sem!Inside \in SUBSET Threads
        BY DEF Sem!Inside
    <2>2. IsFiniteSet(Sem!Inside)
        BY <2>1, ConstantsAssumption, FS_Subset
    <2>3. f \in Surjection(Sem!Inside, T)
        BY Zenon DEF Surjection
    <2> HIDE DEF f, T
    <2> QED BY <2>2, <2>3, FS_Surjection
<1>2. ASSUME NEW A \in T PROVE IsFiniteSet(A)
    <2>1. PICK u \in Sem!Inside : A = {u} \X (1..user[u].cost)
        OBVIOUS
    <2>2. user[u].cost \in Nat
        BY SemCost DEF Sem!Inside
    <2>3. IsFiniteSet({} \cup ({u} \X (1..user[u].cost)))
        BY <2>2, FS_EmptySet, SemUnits
    <2> QED BY <2>1, <2>3
<1>3. IsFiniteSet(Sem!Units)
    <2> HIDE DEF T
    <2>1. IsFiniteSet(UNION T)
        BY <1>1, <1>2, FS_UNION
    <2> QED BY <2>1 DEF T, Sem!Units
<1>4. \A S : Sem!Cardinality(S) = Cardinality(S)
    BY DEF Cardinality, Sem!Cardinality
<1> QED BY <1>3, <1>4, FS_CardinalityType

\* A client that goes in, or comes out, takes its units with it.
LEMMA SemEnter ==
    ASSUME NEW f, NEW g, NEW u \in Threads, NEW S \in SUBSET Threads, u \notin S,
           \A v \in S : f[v].cost = g[v].cost,
           NEW U, U = UNION {{v} \X (1..f[v].cost) : v \in S},
           NEW V, V = UNION {{v} \X (1..g[v].cost) : v \in S \cup {u}}
    PROVE  V = U \cup ({u} \X (1..g[u].cost))
<1>1. \A x : x \in U <=> \E v \in S : x \in {v} \X (1..g[v].cost)
    <2>1. \A v \in S : {v} \X (1..g[v].cost) = {v} \X (1..f[v].cost)
        BY Zenon
    <2> QED BY <2>1, Zenon
<1>2. \A x : x \in V <=> \E v \in S \cup {u} : x \in {v} \X (1..g[v].cost)
    BY Zenon
<1> QED BY <1>1, <1>2, Zenon

\* Nobody is inside at first.
LEMMA SemInit == Sem!Init => Sem!IInv
<1> SUFFICES ASSUME Sem!Init PROVE Sem!IInv
    OBVIOUS
<1>1. Sem!TypeOK
    BY BoundsAssumption DEF Sem!Init, Sem!TypeOK
<1>2. Sem!Inside = {}
    BY DEF Sem!Init, Sem!Inside
<1>3. Sem!Units = {}
    BY <1>2 DEF Sem!Units
<1>4. Cardinality(Sem!Units) = 0
    BY <1>3, FS_EmptySet
<1>5. Sem!CostsFit
    BY <1>1, <1>4, SemFinite, BoundsAssumption DEF Sem!Init, Sem!CostsFit
<1> QED BY <1>1, <1>5 DEF Sem!IInv

\* What is taken fits, and what is given back was taken.
LEMMA SemStep ==
    ASSUME Sem!IInv, Sem!Next
    PROVE  Sem!IInv'
<1> USE DEF Sem!IInv
<1>0. \A S : Sem!Cardinality(S) = Cardinality(S)
    BY SemFinite
<1>t. used \in 0..Capacity /\ Capacity \in Nat
    BY BoundsAssumption DEF Sem!TypeOK
<1>1. ASSUME NEW u \in Threads, Sem!Take(u) PROVE Sem!IInv'
    <2>1. /\ user[u].at \in {"try", "poll"} /\ used + user[u].cost <= Capacity
          /\ used' = used + user[u].cost
          /\ user' = [user EXCEPT ![u].at = "inside"]
        BY <1>1 DEF Sem!Take, Sem!Fits
    <2>2. user[u].cost \in Nat
        BY SemCost
    <2>3. Sem!TypeOK'
        BY <2>1, <2>2, <1>t DEF Sem!TypeOK
    <2>4. /\ Sem!Inside' = Sem!Inside \cup {u} /\ u \notin Sem!Inside /\ Sem!Inside \in SUBSET Threads
          /\ \A v \in Threads : user'[v].cost = user[v].cost
        BY <2>1 DEF Sem!Inside, Sem!TypeOK
    <2>5. Sem!Units' = Sem!Units \cup ({u} \X (1..user'[u].cost))
        BY <2>4, SemEnter DEF Sem!Units
    <2>6. \A i : <<u, i>> \notin Sem!Units
        BY <2>4 DEF Sem!Units
    <2>7. Cardinality(Sem!Units') = Cardinality(Sem!Units) + user[u].cost
        <3>1. user'[u].cost = user[u].cost
            BY <2>4
        <3>2. IsFiniteSet(Sem!Units)
            BY SemFinite
        <3>3. Sem!Units' = Sem!Units \cup ({u} \X (1..user[u].cost))
            BY <3>1, <2>5
        <3>4. Cardinality(Sem!Units \cup ({u} \X (1..user[u].cost))) = Cardinality(Sem!Units) + user[u].cost
            BY <3>2, <2>2, <2>6, SemUnits
        <3> QED BY <3>3, <3>4, Zenon
    <2>8. Sem!CostsFit'
        BY <2>1, <2>7, <1>0 DEF Sem!CostsFit
    <2> QED BY <2>3, <2>8
<1>2. ASSUME NEW u \in Threads, Sem!Release(u) PROVE Sem!IInv'
    <2>1. /\ user[u].at = "inside"
          /\ used' = used - user[u].cost
          /\ user' = [user EXCEPT ![u] = [at |-> "idle", cost |-> 0]]
        BY <1>2 DEF Sem!Release
    <2>2. user[u].cost \in Nat
        BY SemCost
    <2>4. /\ Sem!Inside = Sem!Inside' \cup {u} /\ u \notin Sem!Inside' /\ Sem!Inside' \in SUBSET Threads
          /\ \A v \in Sem!Inside' : user'[v].cost = user[v].cost
        BY <2>1 DEF Sem!Inside, Sem!TypeOK
    <2>5. Sem!Units = Sem!Units' \cup ({u} \X (1..user[u].cost))
        BY <2>4, SemEnter DEF Sem!Units
    <2>6. \A i : <<u, i>> \notin Sem!Units'
        BY <2>4 DEF Sem!Units
    <2>7. IsFiniteSet(Sem!Units')
        <3>1. Sem!Units' \in SUBSET Sem!Units
            BY <2>5
        <3> QED BY <3>1, SemFinite, FS_Subset
    <2>8. Cardinality(Sem!Units) = Cardinality(Sem!Units') + user[u].cost /\ Cardinality(Sem!Units') \in Nat
        BY <2>2, <2>5, <2>6, <2>7, SemUnits, FS_CardinalityType
    <2>9. used' = Cardinality(Sem!Units') /\ used' \in 0..Capacity
        BY <2>1, <2>2, <2>8, <1>0, <1>t DEF Sem!CostsFit
    <2>10. Sem!TypeOK'
        BY <2>1, <2>9 DEF Sem!TypeOK
    <2> QED BY <2>9, <2>10, <1>0, <1>t DEF Sem!CostsFit
<1>3. ASSUME NEW u \in Threads, NEW f \in [at : {"idle", "try", "poll", "rejected"}, cost : Costs \cup {0}],
             user' = [user EXCEPT ![u] = f], UNCHANGED used, user[u].at # "inside"
      PROVE  Sem!IInv'
    <2>1. Sem!TypeOK'
        BY <1>3 DEF Sem!TypeOK
    <2>2. /\ Sem!Inside' = Sem!Inside
          /\ \A v \in Sem!Inside : user'[v] = user[v]
        BY <1>3 DEF Sem!Inside, Sem!TypeOK
    <2>3. Sem!Units' = Sem!Units
        BY <2>2 DEF Sem!Units
    <2> QED BY <2>1, <2>3, <1>0, <1>3 DEF Sem!CostsFit
<1>4. ASSUME NEW u \in Threads, Sem!Full(u) \/ Sem!Expire(u) PROVE Sem!IInv'
    <2>1. PICK p \in {"poll", "rejected"} : user' = [user EXCEPT ![u].at = p]
        BY <1>4 DEF Sem!Full, Sem!Expire
    <2>2. user[u].at \in {"try", "poll"} /\ UNCHANGED used
        BY <1>4 DEF Sem!Full, Sem!Expire
    <2>3. user[u].cost \in Costs \cup {0}
        BY DEF Sem!TypeOK
    <2>4. user' = [user EXCEPT ![u] = [at |-> p, cost |-> user[u].cost]]
        <3>1. user[u] \in [at : {"idle", "try", "poll", "inside", "rejected"}, cost : Costs \cup {0}]
            BY DEF Sem!TypeOK
        <3>2. [user[u] EXCEPT !.at = p] = [at |-> p, cost |-> user[u].cost]
            BY <3>1
        <3> QED BY <2>1, <3>2, Zenon
    <2> QED BY <2>2, <2>3, <2>4, <1>3
<1>5. ASSUME NEW u \in Threads, NEW c \in Costs, Sem!Ask(u, c) PROVE Sem!IInv'
    BY <1>5, <1>3 DEF Sem!Ask
<1> QED BY <1>1, <1>2, <1>4, <1>5 DEF Sem!Next, Sem!Step

\* semaphore.go:1: the units in use are those of the clients inside.
LEMMA SemInvariant == MCSpec => []Sem!IInv
<1>1. MCInit => Sem!IInv
    BY SemInit DEF MCInit
<1>2. Sem!IInv /\ [MCNext]_mcVars => Sem!IInv'
    <2> SUFFICES ASSUME Sem!IInv, [MCNext]_mcVars PROVE Sem!IInv'
        OBVIOUS
    <2>1. Sem!Next \/ UNCHANGED semVars
        BY DEF MCNext, Only, mcVars
    <2>2. CASE UNCHANGED semVars
        BY <2>2 DEF semVars, Sem!IInv, Sem!TypeOK, Sem!CostsFit, Sem!Units, Sem!Inside
    <2> QED BY <2>1, <2>2, SemStep
<1> QED BY <1>1, <1>2, PTL DEF MCSpec

-----------------------------------------------------------------------------
(* Dag *)

\* The words of the module, in those of this one.
LEMMA GraphWords == \A S : Graph!Cardinality(S) = Cardinality(S)
BY DEF Cardinality, Graph!Cardinality

\* The nodes, which are finitely many.
DagNodes == 1..NNodes
LEMMA GraphNodes ==
    /\ NNodes \in Nat /\ Graph!Nodes = DagNodes
    /\ IsFiniteSet(DagNodes) /\ Cardinality(DagNodes) = NNodes
<1>1. NNodes \in Nat
    BY BoundsAssumption
<1>2. NNodes \in Int /\ 1 \in Int
    BY <1>1
<1>3. IsFiniteSet(1..NNodes) /\ Cardinality(1..NNodes) = IF 1 > NNodes THEN 0 ELSE NNodes - 1 + 1
    BY <1>2, FS_Interval, Zenon
<1> QED BY <1>1, <1>3 DEF Graph!Nodes, DagNodes

\* W[l] are the nodes of the first l layers: those whose dependencies are among
\* the first l - 1.
Grown(W, D) ==
    /\ W \in [0..NNodes -> SUBSET DagNodes] /\ W[0] = {}
    /\ \A l \in DagNodes : W[l] = {n \in DagNodes : D[n] \subseteq W[l - 1]}

\* There are such sets.
LEMMA GraphGrown ==
    ASSUME NEW D
    PROVE  \E W : Grown(W, D)
<1> DEFINE S == SUBSET DagNodes
           G == [x \in S \X (1..NNodes) |-> {n \in DagNodes : D[n] \subseteq x[1]}]
<1>1. NNodes \in Nat /\ {} \in S /\ G \in [S \X (1..NNodes) -> S]
    BY GraphNodes
<1> HIDE DEF G, S
<1>2. PICK W : Recursive(W, NNodes, S, {}, G)
    BY <1>1, RecursionExists
<1>3. W \in [0..NNodes -> S] /\ W[0] = {} /\ \A i \in 1..NNodes : W[i] = G[<<W[i - 1], i>>]
    BY <1>2 DEF Recursive
<1>4. \A l \in DagNodes : W[l] = {n \in DagNodes : D[n] \subseteq W[l - 1]}
    <2> SUFFICES ASSUME NEW l \in DagNodes PROVE W[l] = {n \in DagNodes : D[n] \subseteq W[l - 1]}
        OBVIOUS
    <2>1. l - 1 \in 0..NNodes /\ l \in 1..NNodes
        BY <1>1 DEF DagNodes
    <2>2. <<W[l - 1], l>> \in S \X (1..NNodes)
        BY <2>1, <1>3
    <2>3. G[<<W[l - 1], l>>] = {n \in DagNodes : D[n] \subseteq W[l - 1]}
        BY <2>2 DEF G
    <2> QED BY <2>1, <2>3, <1>3
<1> QED BY <1>3, <1>4 DEF Grown, S

\* A number that is in 1..NNodes has one before it.
LEMMA DagIndex ==
    /\ \A l \in DagNodes : l - 1 \in 0..NNodes /\ l \in 0..NNodes /\ l \in Nat /\ l - 1 \in Nat /\ l - 1 < l
    /\ \A l \in DagNodes : l = 1 \/ l - 1 \in DagNodes
    /\ \A l \in 0..NNodes : l \in Nat /\ (l = 0 \/ l \in DagNodes) /\ l <= NNodes
    /\ NNodes \in 0..NNodes /\ 0 \in 0..NNodes
BY GraphNodes DEF DagNodes

\* The sets grow.
LEMMA GraphGrows ==
    ASSUME NEW D, NEW W, Grown(W, D)
    PROVE  \A l \in DagNodes : W[l - 1] \subseteq W[l]
<1> DEFINE Bad == {l \in DagNodes : ~(W[l - 1] \subseteq W[l])}
<1>1. ASSUME Bad # {} PROVE FALSE
    <2>1. Bad \subseteq Nat
        BY DagIndex
    <2> HIDE DEF Bad
    <2>2. PICK k \in Bad : \A l \in Bad : k <= l
        BY <1>1, <2>1, Least
    <2>3. k \in DagNodes /\ ~(W[k - 1] \subseteq W[k])
        BY <2>2 DEF Bad
    <2>4. k # 1
        BY <2>3 DEF Grown
    <2>5. k - 1 \in DagNodes /\ k - 1 \notin Bad
        BY <2>2, <2>3, <2>4, DagIndex
    <2>6. W[(k - 1) - 1] \subseteq W[k - 1]
        BY <2>5 DEF Bad
    <2>7. W[k] = {n \in DagNodes : D[n] \subseteq W[k - 1]} /\ W[k - 1] = {n \in DagNodes : D[n] \subseteq W[(k - 1) - 1]}
        BY <2>3, <2>5 DEF Grown
    <2> QED BY <2>3, <2>6, <2>7
<1> QED BY <1>1

\* Any set holds those before it.
LEMMA GraphHolds ==
    ASSUME NEW D, NEW W, Grown(W, D)
    PROVE  \A i, j \in 0..NNodes : i <= j => W[i] \subseteq W[j]
<1> SUFFICES ASSUME NEW i \in 0..NNodes PROVE \A j \in 0..NNodes : i <= j => W[i] \subseteq W[j]
    OBVIOUS
<1> DEFINE Bad == {j \in 0..NNodes : i <= j /\ ~(W[i] \subseteq W[j])}
<1>1. ASSUME Bad # {} PROVE FALSE
    <2>1. Bad \subseteq Nat
        BY DagIndex
    <2> HIDE DEF Bad
    <2>2. PICK k \in Bad : \A l \in Bad : k <= l
        BY <1>1, <2>1, Least
    <2>3. k \in 0..NNodes /\ i <= k /\ ~(W[i] \subseteq W[k]) /\ i # k /\ i \in Nat /\ k \in Nat
        BY <2>2, DagIndex DEF Bad
    <2>4. k \in DagNodes /\ k - 1 \in 0..NNodes /\ i <= k - 1 /\ ~(k <= k - 1)
        BY <2>3, DagIndex
    <2>5. W[i] \subseteq W[k - 1]
        BY <2>2, <2>4 DEF Bad
    <2>6. W[k - 1] \subseteq W[k]
        BY <2>4, GraphGrows
    <2> QED BY <2>3, <2>5, <2>6
<1> QED BY <1>1

\* Where a set is like the one before it, all that follow are.
LEMMA GraphStops ==
    ASSUME NEW D, NEW W, Grown(W, D), NEW l \in DagNodes, W[l] = W[l - 1]
    PROVE  \A j \in 0..NNodes : l <= j => W[j] = W[l - 1]
<1> DEFINE Bad == {j \in 0..NNodes : l <= j /\ W[j] # W[l - 1]}
<1>1. ASSUME Bad # {} PROVE FALSE
    <2>1. Bad \subseteq Nat
        BY DagIndex
    <2> HIDE DEF Bad
    <2>2. PICK k \in Bad : \A j \in Bad : k <= j
        BY <1>1, <2>1, Least
    <2>3. k \in 0..NNodes /\ l <= k /\ W[k] # W[l - 1] /\ l # k /\ l \in Nat /\ k \in Nat
        BY <2>2, DagIndex DEF Bad
    <2>4. k \in DagNodes /\ k - 1 \in 0..NNodes /\ l <= k - 1 /\ ~(k <= k - 1)
        BY <2>3, DagIndex
    <2>5. W[k - 1] = W[l - 1]
        BY <2>2, <2>4 DEF Bad
    <2>6. W[k] = {n \in DagNodes : D[n] \subseteq W[k - 1]} /\ W[l] = {n \in DagNodes : D[n] \subseteq W[l - 1]}
        BY <2>4 DEF Grown
    <2> QED BY <2>3, <2>5, <2>6
<1> QED BY <1>1

\* Unless they end with all nodes, some set is like the one before it.
LEMMA GraphEnds ==
    ASSUME NEW D, NEW W, Grown(W, D), W[NNodes] # DagNodes
    PROVE  \E l \in DagNodes : W[l] = W[l - 1]
<1> SUFFICES ASSUME \A l \in DagNodes : W[l] # W[l - 1] PROVE FALSE
    OBVIOUS
<1>0. \A l \in 0..NNodes : W[l] \in SUBSET DagNodes /\ IsFiniteSet(W[l]) /\ Cardinality(W[l]) \in Nat
    <2> SUFFICES ASSUME NEW l \in 0..NNodes
                 PROVE  W[l] \in SUBSET DagNodes /\ IsFiniteSet(W[l]) /\ Cardinality(W[l]) \in Nat
        OBVIOUS
    <2>1. W[l] \in SUBSET DagNodes
        BY DEF Grown
    <2>2. IsFiniteSet(W[l])
        BY <2>1, GraphNodes, FS_Subset
    <2> QED BY <2>1, <2>2, FS_CardinalityType
<1> DEFINE Bad == {j \in 0..NNodes : ~(j <= Cardinality(W[j]))}
<1>1. ASSUME Bad # {} PROVE FALSE
    <2>1. Bad \subseteq Nat
        BY DagIndex
    <2> HIDE DEF Bad
    <2>2. PICK k \in Bad : \A j \in Bad : k <= j
        BY <1>1, <2>1, Least
    <2>3. k \in 0..NNodes /\ ~(k <= Cardinality(W[k])) /\ k \in Nat
        BY <2>2, DagIndex DEF Bad
    <2>4. k # 0
        BY <2>3, <1>0
    <2>5. k \in DagNodes /\ k - 1 \in 0..NNodes /\ ~(k <= k - 1)
        BY <2>3, <2>4, DagIndex
    <2>6. k - 1 <= Cardinality(W[k - 1])
        BY <2>2, <2>5 DEF Bad
    <2>7. W[k - 1] \in SUBSET W[k] /\ W[k - 1] # W[k]
        BY <2>5, GraphGrows
    <2>8. IsFiniteSet(W[k])
        BY <2>3, <1>0
    <2>9. /\ Cardinality(W[k - 1]) <= Cardinality(W[k])
          /\ Cardinality(W[k]) = Cardinality(W[k - 1]) => W[k] = W[k - 1]
        BY <2>7, <2>8, FS_Subset
    <2>10. Cardinality(W[k]) \in Nat /\ Cardinality(W[k - 1]) \in Nat
        BY <2>3, <2>5, <1>0
    <2> QED BY <2>3, <2>6, <2>7, <2>9, <2>10
<1>2. NNodes <= Cardinality(W[NNodes])
    BY <1>1, DagIndex
<1>3. W[NNodes] \in SUBSET DagNodes /\ Cardinality(W[NNodes]) \in Nat
    BY <1>0, DagIndex
<1>4. /\ Cardinality(W[NNodes]) <= Cardinality(DagNodes)
      /\ Cardinality(DagNodes) = Cardinality(W[NNodes]) => DagNodes = W[NNodes]
    BY <1>3, GraphNodes, FS_Subset
<1> QED BY <1>2, <1>3, <1>4, GraphNodes

\* What is left of a set when some of its elements, and then others, are gone.
Counts(S, A, B) ==
    /\ Cardinality(S \ A) - Cardinality(S \cap (B \ A)) = Cardinality(S \ B)
    /\ Cardinality(S \ A) \in Nat /\ (Cardinality(S \ A) = 0 <=> S \subseteq A)
LEMMA CountLeft ==
    ASSUME NEW S, IsFiniteSet(S), NEW A, NEW B, A \subseteq B
    PROVE  Counts(S, A, B)
<1> DEFINE X == S \ A
           Y == S \cap (B \ A)
<1>1. IsFiniteSet(X) /\ IsFiniteSet(Y) /\ Y \subseteq X /\ X \ Y = S \ B /\ X \cap Y = Y
    <2>1. X \in SUBSET S /\ Y \in SUBSET S
        OBVIOUS
    <2>2. IsFiniteSet(X) /\ IsFiniteSet(Y)
        BY <2>1, FS_Subset
    <2>3. Y \subseteq X /\ X \ Y = S \ B /\ X \cap Y = Y
        OBVIOUS
    <2> QED BY <2>2, <2>3
<1>2. Cardinality(X) \in Nat /\ Cardinality(Y) \in Nat
    BY <1>1, FS_CardinalityType
<1>3. Cardinality(X) = 0 <=> X = {}
    BY <1>1, FS_EmptySet
<1> HIDE DEF X, Y
<1>4. Cardinality(X \ Y) = Cardinality(X) - Cardinality(X \cap Y)
    BY <1>1, FS_Difference
<1>5. Cardinality(X) - Cardinality(Y) = Cardinality(S \ B)
    BY <1>1, <1>4
<1>6. X = {} <=> S \subseteq A
    BY DEF X
<1> QED BY <1>2, <1>3, <1>5, <1>6 DEF X, Y, Counts

\* What topoSort makes of the first layer, and of each one from the layer before.
DagFirst(D) ==
    [layer |-> {n \in DagNodes : D[n] = {}}, inDegree |-> [n \in DagNodes |-> Graph!Cardinality(D[n])]]
DagNext(D, prev) ==
    LET left == [n \in DagNodes |-> prev.inDegree[n] - Graph!Cardinality(D[n] \cap prev.layer)]
    IN  [layer |-> {n \in DagNodes : prev.inDegree[n] > 0 /\ left[n] = 0}, inDegree |-> left]

\* The layer l, and how many dependencies of each node are not in an earlier one.
DagLayer(W, D, l) ==
    [layer |-> W[l] \ W[l - 1], inDegree |-> [n \in DagNodes |-> Cardinality(D[n] \ W[l - 1])]]

\* They are what topoSort makes.
LEMMA GraphLayer ==
    ASSUME NEW D \in [DagNodes -> SUBSET DagNodes], NEW W, Grown(W, D), NEW l \in DagNodes
    PROVE  DagLayer(W, D, l) = IF l = 1 THEN DagFirst(D) ELSE DagNext(D, DagLayer(W, D, l - 1))
<1>1. \A n \in DagNodes : D[n] \in SUBSET DagNodes /\ IsFiniteSet(D[n])
    <2>1. \A n \in DagNodes : D[n] \in SUBSET DagNodes
        OBVIOUS
    <2> QED BY <2>1, GraphNodes, FS_Subset
<1>2. CASE l = 1
    <2>1. W[l - 1] = {} /\ W[l] = {n \in DagNodes : D[n] = {}}
        BY <1>2 DEF Grown
    <2>2. \A n \in DagNodes : D[n] \ W[l - 1] = D[n]
        BY <2>1
    <2>3. [n \in DagNodes |-> Cardinality(D[n] \ W[l - 1])] = [n \in DagNodes |-> Graph!Cardinality(D[n])]
        BY <2>2, GraphWords
    <2>4. W[l] \ W[l - 1] = {n \in DagNodes : D[n] = {}}
        BY <2>1
    <2> QED BY <1>2, <2>3, <2>4 DEF DagLayer, DagFirst
<1>3. CASE l # 1
    <2> DEFINE k == l - 1
               prev == DagLayer(W, D, k)
               left == [n \in DagNodes |-> prev.inDegree[n] - Graph!Cardinality(D[n] \cap prev.layer)]
               after == [n \in DagNodes |-> Cardinality(D[n] \ W[k])]
    <2>1. k \in DagNodes /\ W[k - 1] \subseteq W[k]
        BY <1>3, DagIndex, GraphGrows
    <2>2. /\ W[l] = {n \in DagNodes : D[n] \subseteq W[k]}
          /\ W[k] = {n \in DagNodes : D[n] \subseteq W[k - 1]}
        BY <2>1 DEF Grown
    <2>3. prev.layer = W[k] \ W[k - 1] /\ prev.inDegree = [n \in DagNodes |-> Cardinality(D[n] \ W[k - 1])]
        BY DEF DagLayer
    <2> HIDE DEF k, prev
    <2>4. \A n \in DagNodes :
              /\ Cardinality(D[n] \ W[k - 1]) - Cardinality(D[n] \cap (W[k] \ W[k - 1])) = Cardinality(D[n] \ W[k])
              /\ Cardinality(D[n] \ W[k - 1]) \in Nat /\ (Cardinality(D[n] \ W[k - 1]) = 0 <=> D[n] \subseteq W[k - 1])
        <3> SUFFICES ASSUME NEW n \in DagNodes
                     PROVE  /\ Cardinality(D[n] \ W[k - 1]) - Cardinality(D[n] \cap (W[k] \ W[k - 1])) = Cardinality(D[n] \ W[k])
                            /\ Cardinality(D[n] \ W[k - 1]) \in Nat
                            /\ (Cardinality(D[n] \ W[k - 1]) = 0 <=> D[n] \subseteq W[k - 1])
            OBVIOUS
        <3>1. IsFiniteSet(D[n]) /\ W[k - 1] \subseteq W[k]
            BY <1>1, <2>1
        <3>2. Counts(D[n], W[k - 1], W[k])
            BY <3>1, CountLeft
        <3> QED BY <3>2 DEF Counts
    <2>5. \A n \in DagNodes : Cardinality(D[n] \ W[k]) \in Nat /\ (Cardinality(D[n] \ W[k]) = 0 <=> D[n] \subseteq W[k])
        <3> SUFFICES ASSUME NEW n \in DagNodes
                     PROVE  Cardinality(D[n] \ W[k]) \in Nat /\ (Cardinality(D[n] \ W[k]) = 0 <=> D[n] \subseteq W[k])
            OBVIOUS
        <3>1. IsFiniteSet(D[n]) /\ W[k] \subseteq W[k]
            BY <1>1
        <3>2. Counts(D[n], W[k], W[k])
            BY <3>1, CountLeft
        <3> QED BY <3>2 DEF Counts
    <2>6. \A n \in DagNodes : left[n] = Cardinality(D[n] \ W[k])
        BY <2>3, <2>4, GraphWords
    <2>7. left = after
        BY <2>6
    <2>8. {n \in DagNodes : prev.inDegree[n] > 0 /\ left[n] = 0} = W[l] \ W[k]
        <3>1. \A n \in DagNodes : prev.inDegree[n] > 0 <=> ~(D[n] \subseteq W[k - 1])
            <4> SUFFICES ASSUME NEW n \in DagNodes PROVE prev.inDegree[n] > 0 <=> ~(D[n] \subseteq W[k - 1])
                OBVIOUS
            <4>1. PICK c \in Nat : c = Cardinality(D[n] \ W[k - 1])
                BY <2>4
            <4>2. (c = 0 <=> D[n] \subseteq W[k - 1]) /\ prev.inDegree[n] = c
                BY <4>1, <2>3, <2>4
            <4>3. c > 0 <=> c # 0
                OBVIOUS
            <4> QED BY <4>2, <4>3
        <3>2. \A n \in DagNodes : left[n] = 0 <=> D[n] \subseteq W[k]
            BY <2>5, <2>6
        <3> HIDE DEF left
        <3> QED BY <2>2, <3>1, <3>2
    <2> HIDE DEF left, after
    <2>9. DagNext(D, prev) = [layer |-> W[l] \ W[k], inDegree |-> after]
        BY <2>7, <2>8 DEF DagNext, left
    <2>10. DagLayer(W, D, l) = [layer |-> W[l] \ W[k], inDegree |-> after]
        BY DEF DagLayer, k, after
    <2> QED BY <1>3, <2>9, <2>10 DEF prev, k
<1> QED BY <1>2, <1>3

\* topoSort: the layers are the steps in which the sets grow.
LEMMA GraphSort ==
    ASSUME NEW D \in [DagNodes -> SUBSET DagNodes], NEW W, Grown(W, D)
    PROVE  Graph!TopoSort(D) = [l \in DagNodes |-> W[l] \ W[l - 1]]
<1> DEFINE f == [l \in DagNodes |-> DagLayer(W, D, l)]
           kahn == CHOOSE g : g = [l \in DagNodes |-> IF l = 1 THEN DagFirst(D) ELSE DagNext(D, g[l - 1])]
<1>1. f = [l \in DagNodes |-> IF l = 1 THEN DagFirst(D) ELSE DagNext(D, f[l - 1])]
    <2>1. \A l \in DagNodes : DagLayer(W, D, l) = IF l = 1 THEN DagFirst(D) ELSE DagNext(D, f[l - 1])
        BY GraphLayer, DagIndex
    <2> QED BY <2>1
<1>2. kahn = [l \in DagNodes |-> IF l = 1 THEN DagFirst(D) ELSE DagNext(D, kahn[l - 1])]
    BY <1>1, Zenon
<1>3. Graph!TopoSort(D) = [l \in DagNodes |-> kahn[l].layer]
    BY Zenon DEF Graph!TopoSort, Graph!Nodes, DagNodes, DagFirst, DagNext
<1> HIDE DEF kahn, f
<1>4. \A l \in DagNodes : kahn[l] = f[l]
    <2> DEFINE Bad == {l \in DagNodes : kahn[l] # f[l]}
    <2>1. ASSUME Bad # {} PROVE FALSE
        <3>1. Bad \subseteq Nat
            BY DagIndex
        <3> HIDE DEF Bad
        <3>2. PICK k \in Bad : \A l \in Bad : k <= l
            BY <2>1, <3>1, Least
        <3>3. k \in DagNodes /\ kahn[k] # f[k]
            BY <3>2 DEF Bad
        <3>4. kahn[k] = IF k = 1 THEN DagFirst(D) ELSE DagNext(D, kahn[k - 1])
            BY <3>3, <1>2
        <3>5. f[k] = IF k = 1 THEN DagFirst(D) ELSE DagNext(D, f[k - 1])
            BY <3>3, <1>1
        <3>6. k # 1 /\ kahn[k - 1] # f[k - 1]
            BY <3>3, <3>4, <3>5
        <3>7. k - 1 \in DagNodes /\ ~(k <= k - 1)
            BY <3>3, <3>6, DagIndex
        <3> QED BY <3>2, <3>6, <3>7 DEF Bad
    <2> QED BY <2>1
<1>5. \A l \in DagNodes : kahn[l].layer = W[l] \ W[l - 1]
    <2>1. \A l \in DagNodes : f[l] = DagLayer(W, D, l)
        BY DEF f
    <2>2. \A l \in DagNodes : DagLayer(W, D, l).layer = W[l] \ W[l - 1]
        BY DEF DagLayer
    <2> QED BY <2>1, <2>2, <1>4
<1> QED BY <1>3, <1>5

\* What topoSort promises: the dependencies of a node are in earlier layers, the
\* layers have no gap, and where they do not hold all nodes there is a cycle.
LEMMA GraphFacts ==
    ASSUME NEW D \in [DagNodes -> SUBSET DagNodes], NEW T, T = Graph!TopoSort(D)
    PROVE  /\ T \in [DagNodes -> SUBSET DagNodes]
           /\ \A l \in DagNodes : \A n \in T[l] : \A d \in D[n] : \E k \in DagNodes : k < l /\ d \in T[k]
           /\ \A l, k \in DagNodes : T[l] = {} /\ l <= k => T[k] = {}
           /\ UNION {T[l] : l \in DagNodes} # DagNodes =>
                 \E s \in (SUBSET DagNodes) \ {{}} : \A n \in s : D[n] \cap s # {}
<1>1. PICK W : Grown(W, D)
    BY GraphGrown
<1>2. T = [l \in DagNodes |-> W[l] \ W[l - 1]]
    BY <1>1, GraphSort
<1>3. \A l \in 0..NNodes : W[l] \in SUBSET DagNodes
    BY <1>1 DEF Grown
<1>4. T \in [DagNodes -> SUBSET DagNodes]
    BY <1>2, <1>3, DagIndex
<1>5. ASSUME NEW j \in 0..NNodes, NEW d \in W[j]
      PROVE  \E k \in DagNodes : k <= j /\ d \in T[k]
    <2> DEFINE Has == {k \in 0..NNodes : d \in W[k]}
    <2>1. Has \subseteq Nat /\ Has # {}
        BY DagIndex
    <2> HIDE DEF Has
    <2>2. PICK k \in Has : \A i \in Has : k <= i
        BY <2>1, Least
    <2>3. k \in 0..NNodes /\ d \in W[k] /\ k <= j
        BY <2>2 DEF Has
    <2>4. k # 0
        BY <2>3, <1>1 DEF Grown
    <2>5. k \in DagNodes /\ k - 1 \in 0..NNodes /\ ~(k <= k - 1)
        BY <2>3, <2>4, DagIndex
    <2>6. d \notin W[k - 1]
        BY <2>2, <2>5 DEF Has
    <2> QED BY <2>3, <2>5, <2>6, <1>2
<1>6. ASSUME NEW l \in DagNodes, NEW n \in T[l], NEW d \in D[n]
      PROVE  \E k \in DagNodes : k < l /\ d \in T[k]
    <2>1. n \in W[l] /\ W[l] = {m \in DagNodes : D[m] \subseteq W[l - 1]}
        BY <1>1, <1>2 DEF Grown
    <2>2. d \in W[l - 1] /\ l - 1 \in 0..NNodes
        BY <2>1, DagIndex
    <2>3. PICK k \in DagNodes : k <= l - 1 /\ d \in T[k]
        BY <2>2, <1>5
    <2>4. k < l
        BY <2>3, DagIndex
    <2> QED BY <2>3, <2>4
<1>7. ASSUME NEW l \in DagNodes, NEW k \in DagNodes, T[l] = {}, l <= k
      PROVE  T[k] = {}
    <2>1. W[l - 1] \subseteq W[l]
        BY <1>1, GraphGrows
    <2>2. W[l] = W[l - 1]
        BY <2>1, <1>2, <1>7
    <2>3. \A j \in 0..NNodes : l <= j => W[j] = W[l - 1]
        BY <2>2, <1>1, GraphStops
    <2>4. CASE l = k
        BY <2>4, <1>7
    <2>5. CASE l # k
        <3>1. k \in 0..NNodes /\ k - 1 \in 0..NNodes /\ l <= k - 1
            BY <2>5, <1>7, DagIndex
        <3> QED BY <3>1, <2>3, <1>2, <1>7
    <2> QED BY <2>4, <2>5
<1>8. ASSUME UNION {T[l] : l \in DagNodes} # DagNodes
      PROVE  \E s \in (SUBSET DagNodes) \ {{}} : \A n \in s : D[n] \cap s # {}
    <2>1. W[NNodes] # DagNodes
        <3>1. \A d \in W[NNodes] : \E k \in DagNodes : d \in T[k]
            BY <1>5, DagIndex
        <3> QED BY <3>1, <1>4, <1>8
    <2>2. PICK l \in DagNodes : W[l] = W[l - 1]
        BY <2>1, <1>1, GraphEnds
    <2>3. W[NNodes] = W[l - 1]
        <3>1. NNodes \in 0..NNodes /\ l <= NNodes
            BY DagIndex
        <3> QED BY <3>1, <2>2, <1>1, GraphStops
    <2>4. W[NNodes] = {n \in DagNodes : D[n] \subseteq W[NNodes]}
        <3>1. W[l] = {n \in DagNodes : D[n] \subseteq W[l - 1]}
            BY <1>1 DEF Grown
        <3> QED BY <3>1, <2>2, <2>3
    <2> DEFINE s == DagNodes \ W[NNodes]
    <2>5. s \in (SUBSET DagNodes) \ {{}}
        <3>1. W[NNodes] \in SUBSET DagNodes
            BY <1>3, DagIndex
        <3>2. s # {}
            BY <3>1, <2>1
        <3>3. s \in SUBSET DagNodes
            OBVIOUS
        <3> QED BY <3>2, <3>3
    <2>6. \A n \in s : D[n] \cap s # {}
        <3> SUFFICES ASSUME NEW n \in s, D[n] \subseteq W[NNodes] PROVE FALSE
            OBVIOUS
        <3> QED BY <2>4
    <2> QED BY <2>5, <2>6
<1> QED BY <1>4, <1>6, <1>7, <1>8

\* What the invariant says, with T for the layers.
LEMMA GraphNow ==
    ASSUME Graph!IInv, NEW T, T = Graph!TopoSort(dependsOn)
    PROVE  /\ dependsOn \in [DagNodes -> SUBSET DagNodes] /\ level \in 0..NNodes
           /\ node \in [DagNodes -> {"none", "running", "ok", "err"}]
           /\ \A l \in DagNodes : l < level => \A n \in T[l] : node[n] \in Graph!Passed
           /\ \A n \in DagNodes : node[n] # "none" => \E l \in DagNodes : l <= level /\ n \in T[l]
           /\ Graph!Layers = T
           /\ Graph!Layer = IF level = 0 THEN {} ELSE T[level]
           /\ Graph!Sorted <=> UNION {T[l] : l \in DagNodes} = DagNodes
           /\ T \in [DagNodes -> SUBSET DagNodes]
           /\ \A l \in DagNodes : \A n \in T[l] : \A d \in dependsOn[n] : \E k \in DagNodes : k < l /\ d \in T[k]
           /\ \A l, k \in DagNodes : T[l] = {} /\ l <= k => T[k] = {}
           /\ ~Graph!Sorted => \E s \in (SUBSET DagNodes) \ {{}} : \A n \in s : dependsOn[n] \cap s # {}
<1>1. /\ dependsOn \in [DagNodes -> SUBSET DagNodes] /\ level \in 0..NNodes
      /\ node \in [DagNodes -> {"none", "running", "ok", "err"}]
    BY GraphNodes DEF Graph!IInv, Graph!TypeOK
<1>2. Graph!Layers = T /\ (Graph!Layer = IF level = 0 THEN {} ELSE T[level])
    BY DEF Graph!Layers, Graph!Layer
<1>3. Graph!Sorted <=> UNION {T[l] : l \in DagNodes} = DagNodes
    BY <1>2, GraphNodes DEF Graph!Sorted
<1>4. /\ \A l \in DagNodes : l < level => \A n \in T[l] : node[n] \in Graph!Passed
      /\ \A n \in DagNodes : node[n] # "none" => \E l \in DagNodes : l <= level /\ n \in T[l]
    BY <1>2, GraphNodes DEF Graph!IInv, Graph!LayerInv
<1>5. /\ T \in [DagNodes -> SUBSET DagNodes]
      /\ \A l \in DagNodes : \A n \in T[l] : \A d \in dependsOn[n] : \E k \in DagNodes : k < l /\ d \in T[k]
      /\ \A l, k \in DagNodes : T[l] = {} /\ l <= k => T[k] = {}
      /\ UNION {T[l] : l \in DagNodes} # DagNodes =>
            \E s \in (SUBSET DagNodes) \ {{}} : \A n \in s : dependsOn[n] \cap s # {}
    BY <1>1, GraphFacts
<1> QED BY <1>1, <1>2, <1>3, <1>4, <1>5

\* The words of the invariant that speak of the progress of Run.
Started(T, n, lv, passed) ==
    /\ \A l \in DagNodes : l < lv => \A m \in T[l] : n[m] \in passed
    /\ \A m \in DagNodes : n[m] # "none" => \E l \in DagNodes : l <= lv /\ m \in T[l]

\* What is to show of the next state.
LEMMA GraphNew ==
    ASSUME Graph!IInv, NEW T, T = Graph!TopoSort(dependsOn), UNCHANGED <<dependsOn, failFast>>,
           level' \in 0..NNodes, node' \in [DagNodes -> {"none", "running", "ok", "err"}],
           outcome' \in {"running", "nil", "error", "cancelled", "cycle"}, dagCtx' \in BOOLEAN,
           Started(T, node', level', Graph!Passed),
           \A n \in DagNodes : node'[n] # "none" => \A d \in dependsOn[n] : node'[d] \in Graph!Passed,
           outcome' = "cycle" => outcome = "cycle" \/ ~Graph!Sorted,
           outcome' = "nil" => \A n \in DagNodes : node'[n] = "ok",
           outcome' = "error" /\ ~failFast => \A n \in DagNodes : node'[n] \in {"ok", "err"}
    PROVE  Graph!IInv'
<1>1. Graph!TypeOK'
    BY GraphNodes, GraphNow DEF Graph!IInv, Graph!TypeOK
<1>2. Graph!Layers' = T /\ Graph!Passed' = Graph!Passed
    BY DEF Graph!Layers, Graph!Passed
<1>3. Graph!LayerInv'
    BY <1>2, GraphNodes DEF Graph!LayerInv, Started
<1>4. Graph!DependenciesFirst'
    <2>1. \A n \in DagNodes : node'[n] # "none" => \A d \in dependsOn'[n] : node'[d] \in Graph!Passed'
        BY <1>2
    <2>2. outcome' = "cycle" => \E s \in (SUBSET DagNodes) \ {{}} : \A n \in s : dependsOn'[n] \cap s # {}
        <3>1. outcome = "cycle" => \E s \in (SUBSET DagNodes) \ {{}} : \A n \in s : dependsOn[n] \cap s # {}
            BY GraphNodes DEF Graph!IInv, Graph!DependenciesFirst
        <3> QED BY <3>1, GraphNow
    <2> QED BY <2>1, <2>2, GraphNodes DEF Graph!DependenciesFirst
<1> QED BY <1>1, <1>3, <1>4 DEF Graph!IInv

\* Nothing runs at first.
LEMMA GraphInit == Graph!Init => Graph!IInv
<1> SUFFICES ASSUME Graph!Init PROVE Graph!IInv
    OBVIOUS
<1>1. Graph!TypeOK
    <2>1. failFast \in BOOLEAN /\ dagCtx = FALSE /\ FALSE \in BOOLEAN
        BY Zenon DEF Graph!Init
    <2>2. dagCtx \in BOOLEAN
        BY <2>1
    <2>3. 0 \in 0..NNodes
        BY DagIndex
    <2> QED BY <2>1, <2>2, <2>3, GraphNodes DEF Graph!Init, Graph!TypeOK
<1>2. Graph!LayerInv
    <2>1. \A l \in DagNodes : ~(l < 0)
        BY DagIndex
    <2> QED BY <2>1, GraphNodes DEF Graph!Init, Graph!LayerInv
<1>3. Graph!DependenciesFirst
    BY GraphNodes DEF Graph!Init, Graph!DependenciesFirst
<1> QED BY <1>1, <1>2, <1>3 DEF Graph!IInv

\* Run refuses a graph, or goes on to the next layer, or ends.
LEMMA GraphRun ==
    ASSUME Graph!IInv, Graph!Sort \/ Graph!NextLayer
    PROVE  Graph!IInv'
<1> DEFINE T == Graph!TopoSort(dependsOn)
<1> HIDE DEF T
<1>0. T = Graph!TopoSort(dependsOn)
    BY DEF T
<1>1. /\ outcome = "running" /\ UNCHANGED <<dependsOn, failFast, node, dagCtx>>
    BY DEF Graph!Sort, Graph!NextLayer
<1>2. dagCtx' \in BOOLEAN /\ node' \in [DagNodes -> {"none", "running", "ok", "err"}] /\ level \in 0..NNodes
    <2>1. dagCtx \in BOOLEAN
        BY DEF Graph!IInv, Graph!TypeOK
    <2>2. node \in [DagNodes -> {"none", "running", "ok", "err"}] /\ level \in 0..NNodes
        BY <1>0, GraphNow
    <2> QED BY <2>1, <2>2, <1>1
<1>3. \A n \in DagNodes : node'[n] # "none" => \A d \in dependsOn[n] : node'[d] \in Graph!Passed
    BY <1>1, GraphNodes DEF Graph!IInv, Graph!DependenciesFirst
<1>4. Started(T, node', level, Graph!Passed)
    BY <1>0, <1>1, GraphNow DEF Started
<1>5. CASE Graph!Sort
    <2>1. outcome' = "cycle" /\ level' = level /\ ~Graph!Sorted
        BY <1>5 DEF Graph!Sort
    <2> QED BY <2>1, <1>0, <1>1, <1>2, <1>3, <1>4, GraphNew
<1>6. CASE Graph!NextLayer
    <2> DEFINE failed == \E n \in DagNodes : node[n] = "err"
               last == level = NNodes \/ T[level + 1] = {}
    <2>1. Graph!Layers = T
        BY <1>0, GraphNow
    <2>2. /\ Graph!Sorted /\ \A n \in Graph!Layer : node[n] \in {"ok", "err"}
          /\ IF (failFast /\ failed) \/ last \/ dagCtx
             THEN /\ outcome' = IF (failFast /\ failed) \/ (last /\ failed) THEN "error"
                                ELSE IF last THEN "nil" ELSE "cancelled"
                  /\ UNCHANGED level
             ELSE level' = level + 1 /\ UNCHANGED outcome
        BY <1>6, <2>1, GraphNodes DEF Graph!NextLayer
    <2>3. \A l \in DagNodes : l = level => \A n \in T[l] : node[n] \in {"ok", "err"}
        <3>1. Graph!Layer = IF level = 0 THEN {} ELSE T[level]
            BY <1>0, GraphNow
        <3>2. \A l \in DagNodes : l # 0
            BY DEF DagNodes
        <3> QED BY <2>2, <3>1, <3>2
    <2>4. \A l \in DagNodes : l <= level => \A n \in T[l] : node[n] \in {"ok", "err"}
        <3> SUFFICES ASSUME NEW l \in DagNodes, l <= level, NEW n \in T[l] PROVE node[n] \in {"ok", "err"}
            OBVIOUS
        <3>1. CASE l = level
            BY <3>1, <2>3
        <3>2. CASE l # level
            <4>1. l < level
                BY <3>2, <1>2, DagIndex
            <4>2. node[n] \in Graph!Passed
                BY <4>1, <1>0, GraphNow
            <4> QED BY <4>2 DEF Graph!Passed
        <3> QED BY <3>1, <3>2
    <2>5. ASSUME last PROVE \A n \in DagNodes : node[n] \in {"ok", "err"}
        <3> SUFFICES ASSUME NEW n \in DagNodes PROVE node[n] \in {"ok", "err"}
            OBVIOUS
        <3>1. PICK l \in DagNodes : n \in T[l]
            <4>1. UNION {T[l] : l \in DagNodes} = DagNodes
                BY <2>2, <1>0, GraphNow
            <4> QED BY <4>1
        <3>2. l <= level
            <4>1. CASE level = NNodes
                BY <4>1, DagIndex
            <4>2. CASE level # NNodes /\ ~(l <= level)
                <5>1. level + 1 \in DagNodes /\ level + 1 <= l
                    BY <4>2, <1>2, DagIndex DEF DagNodes
                <5>2. T[level + 1] = {}
                    BY <4>2, <2>5
                <5>3. T[l] = {}
                    BY <5>1, <5>2, <1>0, GraphNow
                <5> QED BY <5>3, <3>1
            <4> QED BY <4>1, <4>2
        <3> QED BY <3>1, <3>2, <2>4
    <2>6. CASE (failFast /\ failed) \/ last \/ dagCtx
        <3> HIDE DEF last
        <3>1. level' = level /\ outcome' \in {"nil", "error", "cancelled"}
            BY <2>2, <2>6
        <3>2. outcome' = "nil" => last /\ ~failed
            BY <2>2, <2>6
        <3>3. outcome' = "error" /\ ~failFast => last
            BY <2>2, <2>6
        <3>4. outcome' = "nil" => \A n \in DagNodes : node'[n] = "ok"
            BY <3>2, <2>5, <1>1
        <3>5. outcome' = "error" /\ ~failFast => \A n \in DagNodes : node'[n] \in {"ok", "err"}
            BY <3>3, <2>5, <1>1
        <3>6. level' \in 0..NNodes /\ outcome' \in {"running", "nil", "error", "cancelled", "cycle"} /\ outcome' # "cycle"
            BY <3>1, <1>2
        <3>7. Started(T, node', level', Graph!Passed)
            BY <3>1, <1>4
        <3> QED BY <3>4, <3>5, <3>6, <3>7, <1>0, <1>1, <1>2, <1>3, GraphNew
    <2>7. CASE ~((failFast /\ failed) \/ last \/ dagCtx)
        <3>1. level' = level + 1 /\ outcome' = "running" /\ level # NNodes /\ ~(failFast /\ failed)
            BY <2>2, <2>7, <1>1
        <3>2. level' \in 0..NNodes /\ \A l \in DagNodes : l < level' => l <= level
            BY <3>1, <1>2, DagIndex
        <3>3. \A l \in DagNodes : l <= level => \A n \in T[l] : node[n] \in Graph!Passed
            <4> SUFFICES ASSUME NEW l \in DagNodes, l <= level, NEW n \in T[l] PROVE node[n] \in Graph!Passed
                OBVIOUS
            <4>1. n \in DagNodes
                BY <1>0, GraphNow
            <4>2. failFast => node[n] # "err"
                BY <3>1, <4>1
            <4> QED BY <4>2, <2>4 DEF Graph!Passed
        <3>4. \A l \in DagNodes : l <= level => l <= level'
            BY <3>1, <1>2, DagIndex
        <3>5. Started(T, node', level', Graph!Passed)
            BY <3>2, <3>3, <3>4, <1>1, <1>4 DEF Started
        <3> QED BY <3>1, <3>2, <3>5, <1>0, <1>1, <1>2, <1>3, GraphNew
    <2> QED BY <2>6, <2>7
<1> QED BY <1>5, <1>6

\* A node starts in its layer, and ends.
LEMMA GraphNode ==
    ASSUME Graph!IInv, NEW n \in DagNodes, Graph!Launch(n) \/ Graph!Execs(n)
    PROVE  Graph!IInv'
<1> DEFINE T == Graph!TopoSort(dependsOn)
<1> HIDE DEF T
<1>0. T = Graph!TopoSort(dependsOn)
    BY DEF T
<1>1. /\ UNCHANGED <<dependsOn, failFast, level, outcome, dagCtx>>
      /\ node \in [DagNodes -> {"none", "running", "ok", "err"}] /\ level \in 0..NNodes
    BY <1>0, GraphNow DEF Graph!Launch, Graph!Execs, Graph!Exec
<1>2. PICK r \in {"running", "ok", "err"} :
          /\ node' = [node EXCEPT ![n] = r] /\ node[n] \in {"none", "running"}
          /\ node[n] = "none" => outcome = "running" /\ level # 0 /\ n \in T[level]
    <2>1. Graph!Layer = IF level = 0 THEN {} ELSE T[level]
        BY <1>0, GraphNow
    <2> QED BY <2>1 DEF Graph!Launch, Graph!Execs, Graph!Exec
<1>3. /\ node' \in [DagNodes -> {"none", "running", "ok", "err"}] /\ node'[n] = r
      /\ \A m \in DagNodes : m # n => node'[m] = node[m]
    BY <1>1, <1>2
<1>4. node[n] \notin Graph!Passed
    BY <1>2 DEF Graph!Passed
<1>5. \E l \in DagNodes : l <= level /\ n \in T[l]
    <2>1. CASE node[n] = "none"
        <3>1. level \in DagNodes /\ n \in T[level] /\ level <= level
            BY <2>1, <1>1, <1>2, DagIndex
        <3> QED BY <3>1
    <2>2. CASE node[n] # "none"
        BY <2>2, <1>0, GraphNow
    <2> QED BY <2>1, <2>2
<1>6. Started(T, node', level', Graph!Passed)
    <2>1. \A l \in DagNodes : l < level => \A m \in T[l] : m \in DagNodes /\ node[m] \in Graph!Passed
        BY <1>0, GraphNow
    <2>2. \A m \in DagNodes : node[m] # "none" => \E l \in DagNodes : l <= level /\ m \in T[l]
        BY <1>0, GraphNow
    <2>3. \A l \in DagNodes : l < level => \A m \in T[l] : node'[m] \in Graph!Passed
        BY <2>1, <1>3, <1>4
    <2>4. \A m \in DagNodes : node'[m] # "none" => \E l \in DagNodes : l <= level /\ m \in T[l]
        BY <2>2, <1>3, <1>5
    <2> QED BY <2>3, <2>4, <1>1 DEF Started
<1>7. \A m \in DagNodes : node'[m] # "none" => \A d \in dependsOn[m] : node'[d] \in Graph!Passed
    <2>0. \A m \in DagNodes : dependsOn[m] \subseteq DagNodes
        BY <1>0, GraphNow
    <2>1. \A m \in DagNodes : node[m] # "none" => \A d \in dependsOn[m] : node[d] \in Graph!Passed
        BY GraphNodes DEF Graph!IInv, Graph!DependenciesFirst
    <2>2. \A d \in dependsOn[n] : node[d] \in Graph!Passed
        <3>1. CASE node[n] = "none"
            <4> SUFFICES ASSUME NEW d \in dependsOn[n] PROVE node[d] \in Graph!Passed
                OBVIOUS
            <4>1. level \in DagNodes /\ n \in T[level]
                BY <3>1, <1>1, <1>2, DagIndex
            <4>2. PICK k \in DagNodes : k < level /\ d \in T[k]
                BY <4>1, <1>0, GraphNow
            <4> QED BY <4>2, <1>0, GraphNow
        <3>2. CASE node[n] # "none"
            BY <3>2, <2>1
        <3> QED BY <3>1, <3>2
    <2>3. \A m \in DagNodes : node'[m] # "none" => \A d \in dependsOn[m] : d \in DagNodes /\ node[d] \in Graph!Passed
        BY <2>0, <2>1, <2>2, <1>3
    <2> QED BY <2>3, <1>3, <1>4
<1>8. outcome \notin {"nil"} /\ (outcome = "error" => failFast)
    <2>1. CASE node[n] = "none"
        BY <2>1, <1>2
    <2>2. CASE node[n] # "none"
        <3>1. node[n] = "running"
            BY <2>2, <1>2
        <3> QED BY <3>1, GraphNodes DEF Graph!IInv, Graph!DependenciesFirst
    <2> QED BY <2>1, <2>2
<1>9. outcome' \in {"running", "nil", "error", "cancelled", "cycle"} /\ dagCtx' \in BOOLEAN /\ level' \in 0..NNodes
    <2>1. outcome \in {"running", "nil", "error", "cancelled", "cycle"} /\ dagCtx \in BOOLEAN
        BY DEF Graph!IInv, Graph!TypeOK
    <2> QED BY <2>1, <1>1
<1> QED BY <1>0, <1>1, <1>3, <1>6, <1>7, <1>8, <1>9, GraphNew

\* dag.go:27, 75-77: the layers run one after the other.
LEMMA GraphInvariant == MCSpec => []Graph!IInv
<1>1. MCInit => Graph!IInv
    BY GraphInit DEF MCInit
<1>2. Graph!IInv /\ [MCNext]_mcVars => Graph!IInv'
    <2> SUFFICES ASSUME Graph!IInv, [MCNext]_mcVars PROVE Graph!IInv'
        OBVIOUS
    <2>1. Graph!Next \/ UNCHANGED graphVars
        BY DEF MCNext, Only, mcVars
    <2>2. CASE UNCHANGED graphVars
        BY <2>2 DEF graphVars, Graph!IInv, Graph!TypeOK, Graph!LayerInv, Graph!DependenciesFirst, Graph!Passed, Graph!Layers
    <2>3. CASE Graph!CtxDone
        <3>1. dagCtx' = TRUE /\ UNCHANGED <<dependsOn, failFast, level, node, outcome>>
            BY <2>3 DEF Graph!CtxDone
        <3>2. dagCtx' \in BOOLEAN
            BY <3>1
        <3> QED BY <3>1, <3>2 DEF Graph!IInv, Graph!TypeOK, Graph!LayerInv, Graph!DependenciesFirst, Graph!Passed, Graph!Layers
    <2>4. CASE Graph!Run \/ \E n \in Graph!Nodes : Graph!Execs(n)
        BY <2>4, GraphRun, GraphNode, GraphNodes DEF Graph!Run
    <2> QED BY <2>1, <2>2, <2>3, <2>4 DEF Graph!Next
<1> QED BY <1>1, <1>2, PTL DEF MCSpec

-----------------------------------------------------------------------------
(* Broadcaster *)

\* What the subscriber has or will get is a sequence of values.
LEMMA StreamGot ==
    ASSUME Stream!TypeOK
    PROVE  /\ Stream!Got \in Seq(Stream!Values) /\ Len(Stream!Got) \in Nat
           /\ DOMAIN Stream!Got = 1..Len(Stream!Got)
           /\ Len(before) \in Nat /\ DOMAIN before = 1..Len(before)
           /\ Len(subQueue) \in Nat /\ BufSize \in Nat \ {0}
           /\ \A i \in DOMAIN Stream!Got : Stream!Got[i] \in Nat
<1>1. received \in Seq(Stream!Values) /\ subQueue \in Seq(Stream!Values) /\ before \in Seq(SUBSET Stream!Values)
    BY DEF Stream!TypeOK
<1>2. Stream!Got \in Seq(Stream!Values)
    BY <1>1, ConcatProperties DEF Stream!Got
<1>3. Stream!Values \subseteq Nat
    BY DEF Stream!Values
<1>4. Len(Stream!Got) \in Nat /\ DOMAIN Stream!Got = 1..Len(Stream!Got) /\ \A i \in DOMAIN Stream!Got : Stream!Got[i] \in Stream!Values
    BY <1>2
<1>5. Len(before) \in Nat /\ DOMAIN before = 1..Len(before) /\ Len(subQueue) \in Nat
    BY <1>1
<1> QED BY <1>2, <1>3, <1>4, <1>5, BoundsAssumption

\* Nothing is published at first.
LEMMA StreamInit == Stream!Init => Stream!IInv
<1> SUFFICES ASSUME Stream!Init PROVE Stream!IInv
    OBVIOUS
<1>1. <<>> \in Seq(Stream!Values) /\ <<>> \in Seq(SUBSET Stream!Values)
    BY EmptySeq, Zenon
<1>2. Stream!TypeOK
    <2>1. Len(<<>>) <= BufSize
        BY BoundsAssumption
    <2> QED BY <1>1, <2>1 DEF Stream!Init, Stream!TypeOK
<1>3. Stream!Got = <<>>
    BY DEF Stream!Init, Stream!Got
<1>4. DOMAIN Stream!Got = {} /\ Stream!Inside = {} /\ Stream!Again = {} /\ returned = {} /\ DOMAIN before = {}
    BY <1>3 DEF Stream!Init, Stream!Inside, Stream!Again
<1> QED BY <1>2, <1>4 DEF Stream!IInv, Stream!ValueInv, Stream!RepairInv, Stream!InOrder

\* A step that changes neither the values that arrive nor those that returned.
LEMMA StreamStill ==
    ASSUME Stream!IInv, UNCHANGED <<publish, dropOldest, before, returned>>, Stream!Got' = Stream!Got,
           Stream!TypeOK', Len(subQueue') <= Len(subQueue)
    PROVE  Stream!IInv'
<1> USE DEF Stream!IInv
<1>0. Len(subQueue) \in Nat /\ Len(subQueue') \in Nat /\ BufSize \in Nat
    BY StreamGot DEF Stream!TypeOK
<1>1. Stream!Again' = Stream!Again /\ Stream!Inside' = Stream!Inside
    BY DEF Stream!Again, Stream!Inside
<1>2. Stream!ValueInv' /\ Stream!InOrder'
    BY <1>1 DEF Stream!ValueInv, Stream!InOrder
<1>3. \A v : Stream!NewestFor(v)' <=> Stream!NewestFor(v)
    BY DEF Stream!NewestFor
<1>4. Stream!RepairInv'
    BY <1>0, <1>1, <1>3 DEF Stream!RepairInv
<1> QED BY <1>2, <1>4

\* Subscribing, leaving, and taking a value.
LEMMA StreamSubscriber ==
    ASSUME Stream!IInv, Stream!Subscribe \/ Stream!Unsubscribe \/ Stream!Receive
    PROVE  Stream!IInv'
<1> USE DEF Stream!IInv
<1>1. CASE Stream!Subscribe \/ Stream!Unsubscribe
    <2>1. subscribed' \in {"yes", "closed"} /\ UNCHANGED <<subQueue, publish, dropOldest, received, before, returned>>
        BY <1>1 DEF Stream!Subscribe, Stream!Unsubscribe
    <2>2. Stream!TypeOK' /\ Stream!Got' = Stream!Got
        BY <2>1 DEF Stream!TypeOK, Stream!Got
    <2>3. Len(subQueue') <= Len(subQueue)
        BY <2>1, StreamGot
    <2> QED BY <2>1, <2>2, <2>3, StreamStill
<1>2. CASE Stream!Receive
    <2>1. /\ subQueue # <<>> /\ received' = Append(received, Head(subQueue)) /\ subQueue' = Tail(subQueue)
          /\ UNCHANGED <<subscribed, publish, dropOldest, before, returned>>
          /\ received \in Seq(Stream!Values) /\ subQueue \in Seq(Stream!Values) /\ Len(subQueue) <= BufSize
        BY <1>2 DEF Stream!Receive, Stream!TypeOK
    <2>2. Stream!Got' = Stream!Got
        BY <2>1, ConcatShift DEF Stream!Got
    <2>3. /\ subQueue' \in Seq(Stream!Values) /\ Len(subQueue) = Len(subQueue') + 1
          /\ Len(subQueue') \in Nat /\ Head(subQueue) \in Stream!Values
        BY <2>1, TailFacts
    <2>4. received' \in Seq(Stream!Values)
        BY <2>1, <2>3, AppendFacts
    <2>5. Len(subQueue') <= Len(subQueue) /\ Len(subQueue') <= BufSize
        BY <2>1, <2>3, StreamGot
    <2>6. Stream!TypeOK'
        BY <2>1, <2>3, <2>4, <2>5 DEF Stream!TypeOK
    <2> QED BY <2>1, <2>2, <2>5, <2>6, StreamStill
<1> QED BY <1>1, <1>2

\* A new value has a number of its own, and all that returned before it.
LEMMA StreamPublish ==
    ASSUME Stream!IInv, NEW p \in Publishers, Stream!Publish(p)
    PROVE  Stream!IInv'
<1> USE DEF Stream!IInv
<1> DEFINE n == Len(before) + 1
<1>1. /\ publish[p].at = "idle" /\ Len(before) < MaxValues
      /\ publish' = [publish EXCEPT ![p] = [at |-> "first", value |-> n]]
      /\ before' = Append(before, returned)
      /\ UNCHANGED <<subQueue, subscribed, dropOldest, received, returned>>
    BY DEF Stream!Publish
<1>2. /\ Len(before) \in Nat /\ DOMAIN before = 1..Len(before) /\ n \in Stream!Values /\ n \notin DOMAIN before
      /\ MaxValues \in Nat
    BY <1>1, StreamGot, BoundsAssumption DEF Stream!Values
<1>3. /\ before' \in Seq(SUBSET Stream!Values) /\ DOMAIN before' = DOMAIN before \cup {n}
      /\ \A v \in DOMAIN before : before'[v] = before[v]
      /\ before'[n] = returned
    <2>1. before \in Seq(SUBSET Stream!Values) /\ returned \in SUBSET Stream!Values
        BY DEF Stream!TypeOK
    <2>2. /\ before' \in Seq(SUBSET Stream!Values) /\ DOMAIN before' = 1..(Len(before) + 1)
          /\ \A v \in 1..Len(before) : before'[v] = before[v]
          /\ before'[Len(before) + 1] = returned
        BY <2>1, <1>1, AppendFacts
    <2>3. 1..(Len(before) + 1) = 1..Len(before) \cup {n}
        BY <1>2
    <2> QED BY <2>2, <2>3, <1>2
<1> HIDE DEF n
<1>4. Stream!TypeOK'
    BY <1>1, <1>2, <1>3 DEF Stream!TypeOK
<1>5. Stream!Got' = Stream!Got
    BY <1>1 DEF Stream!Got
<1>6. /\ Stream!Inside' = Stream!Inside \cup {p} /\ p \notin Stream!Inside
      /\ publish'[p].value = n
      /\ \A q \in Stream!Inside : publish'[q] = publish[q]
      /\ Stream!Again' = Stream!Again /\ \A q \in Stream!Again : publish'[q] = publish[q]
      /\ Stream!Again \subseteq Stream!Inside
    BY <1>1 DEF Stream!Inside, Stream!Again, Stream!TypeOK
<1>7. Stream!ValueInv'
    <2>1. \A i \in DOMAIN Stream!Got' : Stream!Got'[i] \in DOMAIN before'
        BY <1>3, <1>5 DEF Stream!ValueInv
    <2>2. returned' \subseteq DOMAIN before' /\ \A v \in DOMAIN before' : before'[v] \subseteq returned'
        BY <1>1, <1>3 DEF Stream!ValueInv
    <2>3. n \in DOMAIN before' \ returned'
        BY <1>1, <1>2, <1>3 DEF Stream!ValueInv
    <2>4. \A q \in Stream!Inside : publish'[q].value \in DOMAIN before' \ returned' /\ publish'[q].value # n
        BY <1>1, <1>2, <1>3, <1>6 DEF Stream!ValueInv
    <2>5. \A q, r \in Stream!Inside' : publish'[q].value = publish'[r].value => q = r
        BY <2>4, <1>6 DEF Stream!ValueInv
    <2> QED BY <2>1, <2>2, <2>3, <2>4, <2>5, <1>6 DEF Stream!ValueInv
<1>8. \A v \in DOMAIN before : Stream!NewestFor(v)' <=> Stream!NewestFor(v)
    BY <1>3, <1>5 DEF Stream!NewestFor
<1>9. \A v \in returned \cup {publish[q].value : q \in Stream!Again} : v \in DOMAIN before
    BY <1>6 DEF Stream!ValueInv
<1>10. {publish'[q].value : q \in Stream!Again'} = {publish[q].value : q \in Stream!Again}
    BY <1>6
<1>11. Stream!RepairInv'
    BY <1>1, <1>6, <1>8, <1>9, <1>10 DEF Stream!RepairInv
<1>12. Stream!InOrder'
    BY <1>3, <1>5 DEF Stream!InOrder, Stream!ValueInv
<1> QED BY <1>4, <1>7, <1>11, <1>12

\* A Publish returns: the others have values of their own.
LEMMA StreamReturn ==
    ASSUME Stream!IInv, NEW p \in Stream!Inside, Stream!Return(p)
    PROVE  /\ publish' \in [Publishers -> [at : {"idle", "first", "drop", "again"}, value : Stream!Values \cup {None}]]
           /\ returned' \subseteq Stream!Values /\ returned' \subseteq DOMAIN before
           /\ returned' = returned \cup {publish[p].value} /\ publish[p].value \in DOMAIN before
           /\ publish[p].value \in Stream!Values
           /\ \A v \in DOMAIN before : before[v] \subseteq returned' /\ publish[p].value \notin before[v]
           /\ Stream!Inside' = Stream!Inside \ {p} /\ Stream!Again' = Stream!Again \ {p}
           /\ Stream!Again \subseteq Stream!Inside
           /\ \A q \in Stream!Inside' : publish'[q] = publish[q] /\ publish[q].value \in DOMAIN before \ returned'
           /\ \A q, r \in Stream!Inside' : publish'[q].value = publish'[r].value => q = r
<1> USE DEF Stream!IInv
<1>1. /\ publish' = [publish EXCEPT ![p] = [at |-> "idle", value |-> None]]
      /\ returned' = returned \cup {publish[p].value}
      /\ p \in Publishers
    BY DEF Stream!Return, Stream!Inside
<1>2. publish[p].value \in DOMAIN before \ returned
    BY DEF Stream!ValueInv
<1>3. publish[p].value \in Stream!Values
    <2>1. publish[p].value \in Nat
        BY <1>2, StreamGot
    <2>2. publish[p].value \in Stream!Values \cup {None}
        BY <1>1 DEF Stream!TypeOK
    <2> QED BY <2>1, <2>2, BoundsAssumption
<1>4. publish' \in [Publishers -> [at : {"idle", "first", "drop", "again"}, value : Stream!Values \cup {None}]]
    BY <1>1 DEF Stream!TypeOK
<1>5. returned' \subseteq Stream!Values /\ returned' \subseteq DOMAIN before
    BY <1>1, <1>2, <1>3 DEF Stream!TypeOK, Stream!ValueInv
<1>6. /\ Stream!Inside' = Stream!Inside \ {p} /\ Stream!Again' = Stream!Again \ {p}
      /\ Stream!Again \subseteq Stream!Inside
      /\ \A q \in Stream!Inside' : publish'[q] = publish[q]
    BY <1>1 DEF Stream!Inside, Stream!Again, Stream!TypeOK
<1>7. \A q \in Stream!Inside' : publish[q].value \in DOMAIN before \ returned'
    BY <1>1, <1>6 DEF Stream!ValueInv
<1>8. \A q, r \in Stream!Inside' : publish'[q].value = publish'[r].value => q = r
    BY <1>6 DEF Stream!ValueInv
<1>9. \A v \in DOMAIN before : before[v] \subseteq returned' /\ publish[p].value \notin before[v]
    BY <1>1, <1>2 DEF Stream!ValueInv
<1> QED BY <1>1, <1>2, <1>3, <1>4, <1>5, <1>6, <1>7, <1>8, <1>9

\* A value that is sent is newer than all that returned.
LEMMA StreamTrySend ==
    ASSUME Stream!IInv, NEW p \in Publishers, Stream!TrySend(p)
    PROVE  Stream!IInv'
<1> USE DEF Stream!IInv
<1> DEFINE x == publish[p].value
<1>1. /\ p \in Stream!Inside /\ Len(subQueue) < BufSize /\ subQueue' = Append(subQueue, x)
      /\ Stream!Return(p) /\ UNCHANGED <<subscribed, dropOldest, received, before>>
    BY DEF Stream!TrySend, Stream!Return, Stream!Inside
<1>2. /\ publish' \in [Publishers -> [at : {"idle", "first", "drop", "again"}, value : Stream!Values \cup {None}]]
      /\ returned' \subseteq Stream!Values /\ returned' \subseteq DOMAIN before
      /\ x \in DOMAIN before /\ x \in Stream!Values
      /\ \A v \in DOMAIN before : before[v] \subseteq returned' /\ x \notin before[v]
      /\ Stream!Again' \subseteq Stream!Inside'
      /\ \A q \in Stream!Inside' : publish'[q] = publish[q] /\ publish[q].value \in DOMAIN before \ returned'
      /\ \A q, r \in Stream!Inside' : publish'[q].value = publish'[r].value => q = r
    BY <1>1, StreamReturn
<1> HIDE DEF x
<1>3. received \in Seq(Stream!Values) /\ subQueue \in Seq(Stream!Values)
    BY DEF Stream!TypeOK
<1>4. subQueue' \in Seq(Stream!Values) /\ Len(subQueue') = Len(subQueue) + 1
    BY <1>1, <1>2, <1>3, AppendFacts
<1>5. Len(subQueue') <= BufSize
    BY <1>1, <1>4, StreamGot
<1>6. Stream!TypeOK'
    BY <1>1, <1>2, <1>4, <1>5 DEF Stream!TypeOK
<1>7. Stream!Got' = Append(Stream!Got, x)
    BY <1>1, <1>2, <1>3, ConcatOne DEF Stream!Got
<1>8. /\ Stream!Got' # <<>> /\ Len(Stream!Got') = Len(Stream!Got) + 1
      /\ DOMAIN Stream!Got' = 1..(Len(Stream!Got) + 1)
      /\ \A i \in 1..Len(Stream!Got) : Stream!Got'[i] = Stream!Got[i]
      /\ Stream!Got'[Len(Stream!Got) + 1] = x
      /\ DOMAIN Stream!Got = 1..Len(Stream!Got) /\ Len(Stream!Got) \in Nat
    <2>1. Stream!Got \in Seq(Stream!Values)
        BY StreamGot
    <2> QED BY <2>1, <1>2, <1>7, AppendFacts
<1>9. \A i \in DOMAIN Stream!Got' :
        \/ i \in DOMAIN Stream!Got /\ Stream!Got'[i] = Stream!Got[i]
        \/ i = Len(Stream!Got) + 1
    BY <1>8
<1>10. Stream!ValueInv'
    <2>1. \A i \in DOMAIN Stream!Got' : Stream!Got'[i] \in DOMAIN before
        BY <1>2, <1>8, <1>9 DEF Stream!ValueInv
    <2> QED BY <2>1, <1>1, <1>2 DEF Stream!ValueInv
<1>11. \A v \in DOMAIN before : Stream!NewestFor(v)'
    BY <1>1, <1>2, <1>8 DEF Stream!NewestFor
<1>12. Stream!RepairInv'
    <2>1. \A v \in returned' \cup {publish'[q].value : q \in Stream!Again'} : v \in DOMAIN before
        BY <1>2
    <2> QED BY <2>1, <1>11 DEF Stream!RepairInv
<1>13. Stream!InOrder'
    <2> SUFFICES ASSUME NEW i \in DOMAIN Stream!Got', NEW j \in DOMAIN Stream!Got', i < j
                 PROVE  Stream!Got'[j] \notin before[Stream!Got'[i]]
        BY <1>1 DEF Stream!InOrder
    <2>1. i \in DOMAIN Stream!Got /\ Stream!Got'[i] = Stream!Got[i]
        BY <1>8, <1>9
    <2>2. Stream!Got[i] \in DOMAIN before
        BY <2>1 DEF Stream!ValueInv
    <2>3. CASE j = Len(Stream!Got) + 1
        BY <2>1, <2>2, <2>3, <1>2, <1>8
    <2>4. CASE j \in DOMAIN Stream!Got /\ Stream!Got'[j] = Stream!Got[j]
        BY <2>1, <2>4 DEF Stream!InOrder
    <2> QED BY <2>3, <2>4, <1>9
<1> QED BY <1>6, <1>10, <1>12, <1>13

\* A value that finds no room is dropped, or goes on to make room.
LEMMA StreamNoRoom ==
    ASSUME Stream!IInv, NEW p \in Publishers, Stream!NoRoom(p)
    PROVE  Stream!IInv'
<1> USE DEF Stream!IInv
<1>0. /\ Len(subQueue) = BufSize /\ UNCHANGED <<subQueue, subscribed, dropOldest, received, before>>
      /\ Stream!Got' = Stream!Got /\ p \in Stream!Inside
    BY DEF Stream!NoRoom, Stream!Return, Stream!Got, Stream!Inside
<1>n. \A v : Stream!NewestFor(v)' <=> Stream!NewestFor(v)
    BY <1>0 DEF Stream!NewestFor
<1>l. ~(Len(subQueue) < BufSize)
    BY <1>0, StreamGot
<1>1. CASE /\ publish[p].at = "again" \/ (publish[p].at = "first" /\ ~dropOldest)
           /\ Stream!Return(p)
    <2>2. /\ publish' \in [Publishers -> [at : {"idle", "first", "drop", "again"}, value : Stream!Values \cup {None}]]
          /\ returned' \subseteq Stream!Values /\ returned' \subseteq DOMAIN before
          /\ returned' = returned \cup {publish[p].value}
          /\ \A v \in DOMAIN before : before[v] \subseteq returned'
          /\ Stream!Again' = Stream!Again \ {p} /\ Stream!Again' \subseteq Stream!Inside'
          /\ \A q \in Stream!Inside' : publish'[q] = publish[q] /\ publish[q].value \in DOMAIN before \ returned'
          /\ \A q, r \in Stream!Inside' : publish'[q].value = publish'[r].value => q = r
        BY <1>0, <1>1, StreamReturn
    <2>3. Stream!TypeOK'
        BY <2>2, <1>0 DEF Stream!TypeOK
    <2>4. Stream!ValueInv'
        BY <2>2, <1>0 DEF Stream!ValueInv
    <2>5. Stream!InOrder'
        BY <1>0 DEF Stream!InOrder
    <2>6. ASSUME dropOldest' PROVE \A v \in returned' \cup {publish'[q].value : q \in Stream!Again'} : Stream!NewestFor(v)'
        <3>1. p \in Stream!Again /\ dropOldest
            BY <2>6, <1>0, <1>1 DEF Stream!Again
        <3>2. \A v \in returned \cup {publish[q].value : q \in Stream!Again} : Stream!NewestFor(v)
            BY <3>1, <1>l DEF Stream!RepairInv
        <3>3. \A v \in returned' \cup {publish'[q].value : q \in Stream!Again'} :
                  v \in returned \cup {publish[q].value : q \in Stream!Again}
            BY <3>1, <2>2
        <3> QED BY <3>2, <3>3, <1>n
    <2> QED BY <2>3, <2>4, <2>5, <2>6 DEF Stream!RepairInv
<1>2. CASE /\ publish[p].at = "first" /\ dropOldest
           /\ publish' = [publish EXCEPT ![p].at = "drop"]
           /\ UNCHANGED <<subscribed, dropOldest, received, before, returned>>
    <2>1. Stream!TypeOK'
        BY <1>0, <1>2 DEF Stream!TypeOK
    <2>2. /\ Stream!Inside' = Stream!Inside /\ Stream!Again' = Stream!Again
          /\ \A q \in Publishers : publish'[q].value = publish[q].value
        BY <1>2 DEF Stream!TypeOK, Stream!Inside, Stream!Again
    <2>3. \A q \in Stream!Inside \cup Stream!Again : publish'[q].value = publish[q].value
        BY <2>2 DEF Stream!Inside, Stream!Again
    <2>4. Stream!ValueInv'
        BY <2>2, <2>3, <1>0, <1>2 DEF Stream!ValueInv
    <2>5. {publish'[q].value : q \in Stream!Again'} = {publish[q].value : q \in Stream!Again}
        BY <2>2, <2>3
    <2>6. Stream!RepairInv'
        BY <2>2, <2>5, <1>0, <1>2, <1>n DEF Stream!RepairInv
    <2>7. Stream!InOrder'
        BY <1>0 DEF Stream!InOrder
    <2> QED BY <2>1, <2>4, <2>6, <2>7
<1> QED BY <1>1, <1>2 DEF Stream!NoRoom

\* The oldest value makes room.
LEMMA StreamDrop ==
    ASSUME Stream!IInv, NEW p \in Publishers, Stream!Drop(p)
    PROVE  Stream!IInv'
<1> USE DEF Stream!IInv
<1>1. /\ publish[p].at = "drop" /\ publish' = [publish EXCEPT ![p].at = "again"]
      /\ subQueue' = IF subQueue = <<>> THEN <<>> ELSE Tail(subQueue)
      /\ UNCHANGED <<subscribed, dropOldest, received, before, returned>>
    BY DEF Stream!Drop
<1>2. received \in Seq(Stream!Values) /\ subQueue \in Seq(Stream!Values) /\ Len(subQueue) <= BufSize
    BY DEF Stream!TypeOK
<1>3. subQueue' \in Seq(Stream!Values) /\ Len(subQueue') < BufSize
    <2>1. CASE subQueue = <<>>
        BY <2>1, <1>1, <1>2, StreamGot
    <2>2. CASE subQueue # <<>>
        <3>1. subQueue' \in Seq(Stream!Values) /\ Len(subQueue) = Len(subQueue') + 1 /\ Len(subQueue') \in Nat
            BY <2>2, <1>1, <1>2, TailFacts
        <3> QED BY <3>1, <1>2, StreamGot
    <2> QED BY <2>1, <2>2
<1>4. Stream!TypeOK'
    <2>1. Len(subQueue') <= BufSize
        BY <1>3, StreamGot
    <2> QED BY <2>1, <1>1, <1>3 DEF Stream!TypeOK
<1>5. /\ p \in Stream!Again' /\ Stream!Inside' = Stream!Inside
      /\ \A q \in Stream!Inside : publish'[q].value = publish[q].value
    BY <1>1 DEF Stream!TypeOK, Stream!Inside, Stream!Again
<1>6. Stream!RepairInv'
    BY <1>3, <1>5 DEF Stream!RepairInv
<1>7. /\ \A i \in DOMAIN Stream!Got' : Stream!Got'[i] \in DOMAIN before
      /\ Stream!InOrder'
    <2>1. CASE subQueue = <<>>
        <3>1. Stream!Got' = Stream!Got
            BY <2>1, <1>1 DEF Stream!Got
        <3> QED BY <3>1, <1>1 DEF Stream!ValueInv, Stream!InOrder
    <2>2. CASE subQueue # <<>>
        <3> DEFINE k == Len(received) + 1
                   len == Len(Stream!Got)
                   at(q) == IF q < k THEN q ELSE q + 1
        <3>1. k \in 1..len /\ Skips(Stream!Got', Stream!Got, len, k)
            BY <2>2, <1>1, <1>2, ConcatDrop DEF Stream!Got
        <3>2. len \in Nat
            BY StreamGot
        <3> HIDE DEF k, len
        <3>3. \A i \in DOMAIN Stream!Got' : at(i) \in DOMAIN Stream!Got /\ Stream!Got'[i] = Stream!Got[at(i)]
            BY <3>1, <3>2 DEF Skips
        <3>4. \A i, j \in DOMAIN Stream!Got' : i < j => at(i) < at(j)
            BY <3>1, <3>2 DEF Skips
        <3> HIDE DEF at
        <3>5. \A i \in DOMAIN Stream!Got' : Stream!Got'[i] \in DOMAIN before
            BY <3>3 DEF Stream!ValueInv
        <3> QED BY <3>3, <3>4, <3>5, <1>1 DEF Stream!InOrder
    <2> QED BY <2>1, <2>2
<1>8. Stream!ValueInv'
    BY <1>1, <1>5, <1>7 DEF Stream!ValueInv
<1> QED BY <1>4, <1>6, <1>7, <1>8

\* broadcaster.go:26-31: the newest value survives.
LEMMA StreamInvariant == MCSpec => []Stream!IInv
<1>1. MCInit => Stream!IInv
    BY StreamInit DEF MCInit
<1>2. Stream!IInv /\ [MCNext]_mcVars => Stream!IInv'
    <2> SUFFICES ASSUME Stream!IInv, [MCNext]_mcVars PROVE Stream!IInv'
        OBVIOUS
    <2>1. Stream!Next \/ UNCHANGED streamVars
        BY DEF MCNext, Only, mcVars
    <2>2. CASE UNCHANGED streamVars
        <3>1. /\ Stream!Got' = Stream!Got /\ Stream!TypeOK'
              /\ UNCHANGED <<publish, dropOldest, before, returned, subQueue>>
            BY <2>2 DEF streamVars, Stream!Got, Stream!IInv, Stream!TypeOK
        <3>2. Len(subQueue') <= Len(subQueue)
            BY <3>1, StreamGot DEF Stream!IInv
        <3> QED BY <3>1, <3>2, StreamStill
    <2> QED BY <2>1, <2>2, StreamSubscriber, StreamPublish, StreamTrySend, StreamNoRoom, StreamDrop DEF Stream!Next
<1> QED BY <1>1, <1>2, PTL DEF MCSpec

\* What it is for: the newest value survives when nobody is publishing.
LEMMA StreamLatest == Stream!IInv => Stream!LatestSurvives
<1> SUFFICES ASSUME Stream!IInv, dropOldest, Stream!Inside = {} PROVE \A v \in returned : Stream!NewestFor(v)
    BY DEF Stream!IInv, Stream!LatestSurvives
<1>1. Stream!Again = {}
    BY DEF Stream!Again, Stream!Inside
<1> QED BY <1>1 DEF Stream!IInv, Stream!RepairInv

-----------------------------------------------------------------------------
(* Party *)

\* The members are finitely many.
LEMMA TeamFinite ==
    /\ \A S \in SUBSET (Threads \cup {None}) : IsFiniteSet(S) /\ Cardinality(S) \in Nat
    /\ \A S : Team!Cardinality(S) = Cardinality(S)
    /\ \A f : Team!Range(f) = Range(f) /\ (Team!IsInjective(f) <=> IsInjective(f))
<1>1. IsFiniteSet(Threads \cup {None})
    BY ConstantsAssumption, FS_AddElement
<1>2. \A S \in SUBSET (Threads \cup {None}) : IsFiniteSet(S)
    BY <1>1, FS_Subset
<1>3. \A S : Team!Cardinality(S) = Cardinality(S)
    BY DEF Cardinality, Team!Cardinality
<1>4. \A f : Team!Range(f) = Range(f) /\ (Team!IsInjective(f) <=> IsInjective(f))
    BY DEF Range, Team!Range, IsInjective, Team!IsInjective
<1> QED BY <1>2, <1>3, <1>4, FS_CardinalityType

\* What TeamStep has of Without.
LEMMA TeamWithout ==
    ASSUME NEW s \in Seq(Threads \cup {None}), IsInjective(s), NEW e \in Range(s), NEW w, w = Team!Without(s, e)
    PROVE  /\ w \in Seq(Threads \cup {None}) /\ Len(s) \in Nat /\ Len(w) = Len(s) - 1 /\ Len(w) \in Nat
           /\ Range(w) = Range(s) \ {e} /\ IsInjective(w)
<1>1. w = SubSeq(s, 1, Place(s, e) - 1) \o SubSeq(s, Place(s, e) + 1, Len(s))
    BY Zenon DEF Team!Without, Place
<1> QED BY <1>1, WithoutElement

\* The leader is alone at first.
LEMMA TeamInit == Team!Init => Team!IInv
<1> SUFFICES ASSUME Team!Init PROVE Team!IInv
    OBVIOUS
<1> DEFINE P == Threads \cup {None}
<1>1. leader \in P /\ joinOrder = <<leader>> /\ requests = <<>> /\ members = {leader} /\ reserved = 0
    BY DEF Team!Init
<1>2. stopped \in BOOLEAN /\ openParty \in BOOLEAN
    BY Zenon DEF Team!Init
<1>3. joinOrder \in Seq(P) /\ requests \in Seq(P) /\ Len(joinOrder) = 1 /\ Len(requests) = 0
    BY <1>1
<1>4. Range(joinOrder) = members /\ Range(requests) = {} /\ IsInjective(joinOrder) /\ IsInjective(requests)
    BY <1>1 DEF Range, IsInjective
<1>5. Cardinality(members) = 1
    BY <1>1, FS_Singleton
<1>6. Team!TypeOK
    BY <1>1, <1>2, <1>3 DEF Team!TypeOK
<1>7. Team!SeatsFit
    BY <1>1, <1>3, <1>4, <1>5, TeamFinite, BoundsAssumption DEF Team!SeatsFit
<1> QED BY <1>1, <1>4, <1>6, <1>7, TeamFinite DEF Team!IInv

\* What there is to show about a step.
LEMMA TeamNew ==
    ASSUME leader' \in Threads \cup {None}, members' \in SUBSET (Threads \cup {None}),
           joinOrder' \in Seq(Threads \cup {None}), requests' \in Seq(Threads \cup {None}),
           reserved' \in Nat, stopped' \in BOOLEAN, openParty' \in BOOLEAN,
           IsInjective(joinOrder'), IsInjective(requests'), openParty' => requests' = <<>>,
           reserved' = Len(requests'), Range(requests') \cap members' = {},
           Range(joinOrder') = members', Len(joinOrder') = Cardinality(members'),
           stopped' \/ leader' \in members',
           MaxSize = 0 \/ Cardinality(members') + Len(requests') <= MaxSize
    PROVE  Team!IInv'
BY TeamFinite DEF Team!IInv, Team!TypeOK, Team!SeatsFit

\* A seat that is taken was free or reserved; a leaving leader has a successor.
LEMMA TeamStep ==
    ASSUME Team!IInv, Team!Next
    PROVE  Team!IInv'
<1> DEFINE P == Threads \cup {None}
<1>t. /\ leader \in P /\ members \in SUBSET P /\ joinOrder \in Seq(P) /\ requests \in Seq(P)
      /\ reserved \in Nat /\ stopped \in BOOLEAN /\ openParty \in BOOLEAN
    BY DEF Team!IInv, Team!TypeOK
<1>i. /\ IsInjective(joinOrder) /\ IsInjective(requests) /\ (openParty => requests = <<>>)
      /\ reserved = Len(requests) /\ Range(requests) \cap members = {}
      /\ Range(joinOrder) = members /\ Len(joinOrder) = Cardinality(members)
      /\ stopped \/ leader \in members
      /\ MaxSize = 0 \/ Cardinality(members) + Len(requests) <= MaxSize
    BY TeamFinite DEF Team!IInv, Team!SeatsFit
<1>n. /\ IsFiniteSet(members) /\ Cardinality(members) \in Nat /\ Len(requests) \in Nat /\ MaxSize \in Nat
    BY <1>t, TeamFinite, BoundsAssumption
<1>j. ASSUME NEW u \in P, u \notin members, Team!Join(u)
      PROVE  /\ members' \in SUBSET P /\ joinOrder' \in Seq(P) /\ IsInjective(joinOrder')
             /\ members' = members \cup {u}
             /\ Cardinality(members') = Cardinality(members) + 1
             /\ Range(joinOrder') = members' /\ Len(joinOrder') = Cardinality(members')
    <2>1. members' = members \cup {u} /\ joinOrder' = Append(joinOrder, u)
        BY <1>j DEF Team!Join
    <2>2. Cardinality(members') = Cardinality(members) + 1
        BY <2>1, <1>j, <1>n, FS_AddElement
    <2> HIDE DEF P
    <2>3. joinOrder' \in Seq(P) /\ Len(joinOrder') = Len(joinOrder) + 1
        BY <2>1, <1>t, AppendFacts
    <2>4. /\ Range(joinOrder') = Range(joinOrder) \cup {u}
          /\ IsInjective(joinOrder) /\ u \notin Range(joinOrder) => IsInjective(joinOrder')
        BY <2>1, <1>t, AppendInjective2
    <2> QED BY <2>1, <2>2, <2>3, <2>4, <1>i, <1>j, <1>t
<1>1. ASSUME NEW u \in P, Team!RequestJoin(u) PROVE Team!IInv'
    <2>1. /\ u \notin members /\ UNCHANGED <<leader, stopped, openParty>> /\ Team!CanAdd
        BY <1>1 DEF Team!RequestJoin
    <2>2. MaxSize = 0 \/ Cardinality(members) + Len(requests) + 1 <= MaxSize
        BY <2>1, <1>n, <1>i, TeamFinite DEF Team!CanAdd
    <2>3. CASE openParty /\ Team!Join(u) /\ UNCHANGED <<requests, reserved>>
        <3>1. requests = <<>> /\ Range(requests') = {} /\ Len(requests') = 0
            BY <2>3, <1>i DEF Range
        <3>2. MaxSize = 0 \/ Cardinality(members') + Len(requests') <= MaxSize
            BY <2>2, <2>3, <3>1, <1>j, <2>1, <1>n
        <3>3. stopped' \/ leader' \in members'
            BY <2>1, <2>3, <1>i, <1>j
        <3> QED BY <2>1, <2>3, <3>1, <3>2, <3>3, <1>t, <1>i, <1>j, TeamNew
    <2>4. CASE /\ ~openParty /\ u \notin Team!Range(requests)
               /\ requests' = Append(requests, u) /\ reserved' = reserved + 1
               /\ UNCHANGED <<members, joinOrder>>
        <3>0. u \notin Range(requests)
            BY <2>4, TeamFinite
        <3>1. requests' \in Seq(P) /\ Len(requests') = Len(requests) + 1
            <4> HIDE DEF P
            <4> QED BY <2>4, <1>t, AppendFacts
        <3>2. Range(requests') = Range(requests) \cup {u} /\ IsInjective(requests')
            <4> HIDE DEF P
            <4> QED BY <2>4, <3>0, <1>t, <1>i, AppendInjective2
        <3>3. reserved' \in Nat /\ reserved' = Len(requests')
            BY <2>4, <3>1, <1>i, <1>t
        <3>4. Range(requests') \cap members' = {}
            BY <2>1, <2>4, <3>2, <1>i
        <3>5. MaxSize = 0 \/ Cardinality(members') + Len(requests') <= MaxSize
            BY <2>2, <2>4, <3>1, <1>n
        <3> QED BY <2>1, <2>4, <3>1, <3>2, <3>3, <3>4, <3>5, <1>t, <1>i, TeamNew
    <2> QED BY <2>3, <2>4, <1>1 DEF Team!RequestJoin
<1>2. ASSUME NEW by \in P, NEW u \in P, Team!Accept(by, u) PROVE Team!IInv'
    <2>1. /\ u \in Range(requests) /\ requests' = Team!Without(requests, u) /\ reserved' = reserved - 1
          /\ Team!Join(u) /\ UNCHANGED <<leader, stopped, openParty>>
        BY <1>2, TeamFinite DEF Team!Accept
    <2>2. u \notin members
        BY <2>1, <1>i
    <2>3. /\ requests' \in Seq(P) /\ Len(requests') = Len(requests) - 1 /\ Len(requests') \in Nat
          /\ Range(requests') = Range(requests) \ {u} /\ IsInjective(requests')
        BY <2>1, <1>t, <1>i, TeamWithout
    <2>4. ~openParty
        BY <2>1, <1>i DEF Range
    <2>5. reserved' \in Nat /\ reserved' = Len(requests')
        BY <2>1, <2>3, <1>i
    <2>6. Range(requests') \cap members' = {}
        BY <2>1, <2>2, <2>3, <1>i, <1>j
    <2>7. MaxSize = 0 \/ Cardinality(members') + Len(requests') <= MaxSize
        BY <2>1, <2>2, <2>3, <1>i, <1>j, <1>n
    <2>8. stopped' \/ leader' \in members'
        BY <2>1, <2>2, <1>i, <1>j
    <2> QED BY <2>1, <2>2, <2>3, <2>4, <2>5, <2>6, <2>7, <2>8, <1>t, <1>j, TeamNew
<1>3. ASSUME NEW by \in P, NEW u \in P, Team!RemoveMember(by, u) PROVE Team!IInv'
    <2> DEFINE rest == Team!Without(joinOrder, u)
    <2>1. /\ u \in members /\ members' = members \ {u} /\ joinOrder' = rest
          /\ leader' = IF u = leader /\ rest # <<>> THEN Head(rest) ELSE leader
          /\ stopped' = (stopped \/ (u = leader /\ members = {u}))
          /\ UNCHANGED <<requests, reserved, openParty>>
        BY <1>3 DEF Team!RemoveMember
    <2>2. rest = Team!Without(joinOrder, u) /\ u \in Range(joinOrder)
        BY <2>1, <1>i
    <2> HIDE DEF rest
    <2>3. /\ rest \in Seq(P) /\ Len(rest) = Len(joinOrder) - 1
          /\ Range(rest) = members \ {u} /\ IsInjective(rest)
        BY <2>2, <1>t, <1>i, TeamWithout
    <2>4. Cardinality(members') = Cardinality(members) - 1
        BY <2>1, <1>n, FS_RemoveElement
    <2>5. stopped' \in BOOLEAN
        BY <2>1, Zenon
    <2>6. rest # <<>> => Head(rest) \in Range(rest) /\ Head(rest) \in P
        <3>1. rest # <<>> => 1 \in DOMAIN rest /\ Head(rest) = rest[1] /\ rest[1] \in P
            BY <2>3
        <3> QED BY <3>1 DEF Range
    <2>7. rest = <<>> => members = {u}
        BY <2>1, <2>3 DEF Range
    <2>8. leader' \in P
        BY <2>1, <2>6, <1>t
    <2>9. stopped' \/ leader' \in members'
        <3>1. CASE u = leader /\ rest # <<>>
            BY <3>1, <2>1, <2>3, <2>6
        <3>2. CASE u = leader /\ rest = <<>>
            BY <3>2, <2>1, <2>7
        <3>3. CASE u # leader
            BY <3>3, <2>1, <1>i
        <3> QED BY <3>1, <3>2, <3>3
    <2>10. /\ members' \in SUBSET P /\ Range(requests') \cap members' = {}
           /\ Len(joinOrder') = Cardinality(members') /\ Range(joinOrder') = members'
        BY <2>1, <2>3, <2>4, <1>t, <1>i
    <2>11. MaxSize = 0 \/ Cardinality(members') + Len(requests') <= MaxSize
        BY <2>1, <2>4, <1>i, <1>n
    <2> QED BY <2>1, <2>3, <2>5, <2>8, <2>9, <2>10, <2>11, <1>t, <1>i, TeamNew
<1>4. ASSUME NEW by \in P, NEW u \in P, Team!Promote(by, u) PROVE Team!IInv'
    <2>1. u \in members /\ leader' = u /\ UNCHANGED <<members, joinOrder, requests, reserved, stopped, openParty>>
        BY <1>4 DEF Team!Promote
    <2> QED BY <2>1, <1>t, <1>i, TeamNew
<1> QED BY <1>1, <1>2, <1>3, <1>4 DEF Team!Next

\* party.go:264-272: the seats fit.
LEMMA TeamInvariant == MCSpec => []Team!IInv
<1>1. MCInit => Team!IInv
    BY TeamInit DEF MCInit
<1>2. Team!IInv /\ [MCNext]_mcVars => Team!IInv'
    <2> SUFFICES ASSUME Team!IInv, [MCNext]_mcVars PROVE Team!IInv'
        OBVIOUS
    <2>1. Team!Next \/ UNCHANGED teamVars
        BY DEF MCNext, Only, mcVars
    <2>2. CASE UNCHANGED teamVars
        BY <2>2 DEF teamVars, Team!IInv, Team!TypeOK, Team!SeatsFit
    <2> QED BY <2>1, <2>2, TeamStep
<1> QED BY <1>1, <1>2, PTL DEF MCSpec

-----------------------------------------------------------------------------
(* Wallet *)

\* A sum that addBalance accepts is the sum of integers.
LEMMA PurseSum ==
    ASSUME NEW b \in Purse!Int64, b >= 0, NEW d \in Purse!Int64,
           ~Purse!Overflows(b, d), Purse!Wrap(b + d) >= 0
    PROVE  Purse!Wrap(b + d) = b + d /\ b + d \in Purse!Int64 /\ b + d >= 0
<1>0. Half \in Nat /\ Half > 0 /\ b \in Int /\ d \in Int /\ b < Half /\ d < Half /\ -Half <= d
    BY BoundsAssumption DEF Purse!Int64
<1> DEFINE m == 2 * Half
           x == b + d + Half
<1>1. m \in Nat \ {0} /\ x \in Int /\ 0 <= x /\ x < 2 * m
    BY <1>0
<1>2. Purse!Wrap(b + d) = (x % m) - Half
    BY DEF Purse!Wrap
<1>3. CASE x < m
    <2>1. x % m = x
        BY <1>1, <1>3
    <2> QED BY <1>0, <1>2, <1>3, <2>1 DEF Purse!Int64
<1>4. CASE ~(x < m)
    <2>1. x % m = x - m
        BY <1>1, <1>4
    <2>2. Purse!Wrap(b + d) < b /\ d > 0
        BY <1>0, <1>2, <1>4, <2>1
    <2> QED BY <2>2 DEF Purse!Overflows
<1> QED BY <1>3, <1>4

\* s holds the running sums of what the records L change for o and c.
PurseSums(s, L, o, c) ==
    /\ s \in [0..Len(L) -> Int] /\ s[0] = 0
    /\ \A i \in 1..Len(L) : s[i] = s[i - 1] + (IF L[i].owner = o THEN L[i].changeset[c] ELSE 0)

\* What Posted computes: a running sum.
LEMMA PursePosted ==
    ASSUME NEW Q, NEW L \in Seq(Q), NEW o, NEW c, \A r \in Q : r.changeset[c] \in Int
    PROVE  \E s : PurseSums(s, L, o, c) /\ Purse!Posted(L, o, c) = s[Len(L)]
<1> DEFINE len == Len(L)
           a(i) == IF L[i].owner = o THEN L[i].changeset[c] ELSE 0
           add == [x \in Int \X (1..len) |-> x[1] + a(x[2])]
<1>1. len \in Nat /\ \A i \in 1..len : L[i] \in Q
    OBVIOUS
<1>2. \A i \in 1..len : a(i) \in Int
    BY <1>1
<1> HIDE DEF a, len
<1>3. add \in [Int \X (1..len) -> Int]
    BY <1>2
<1>4. 0 \in Int
    OBVIOUS
<1> HIDE DEF add
<1>5. PICK f : Recursive(f, len, Int, 0, add)
    BY <1>1, <1>3, <1>4, RecursionExists
<1>r. f \in [0..len -> Int] /\ f[0] = 0 /\ \A i \in 1..len : f[i] = add[<<f[i - 1], i>>]
    BY <1>5 DEF Recursive
<1>6. \A i \in 1..len : f[i] = f[i - 1] + a(i)
    <2> SUFFICES ASSUME NEW i \in 1..len PROVE f[i] = f[i - 1] + a(i)
        OBVIOUS
    <2>1. i - 1 \in 0..len
        BY <1>1
    <2>2. <<f[i - 1], i>> \in Int \X (1..len)
        BY <2>1, <1>r
    <2>3. add[<<f[i - 1], i>>] = f[i - 1] + a(i)
        BY <2>2 DEF add
    <2> QED BY <2>3, <1>r
<1>7. f = [i \in 0..len |-> IF i = 0 THEN 0 ELSE f[i - 1] + a(i)]
    BY <1>1, <1>r, <1>6
<1> DEFINE sum == CHOOSE g : g = [i \in 0..len |-> IF i = 0 THEN 0 ELSE g[i - 1] + a(i)]
<1>8. sum = [i \in 0..len |-> IF i = 0 THEN 0 ELSE sum[i - 1] + a(i)]
    BY <1>7, Zenon
<1>9. Purse!Posted(L, o, c) = sum[len]
    BY Zenon DEF Purse!Posted, a, len
<1> HIDE DEF sum
<1>10. sum[0] = 0 /\ \A i \in 1..len : sum[i] = sum[i - 1] + a(i)
    BY <1>1, <1>8
<1>11. \A i \in 0..len : sum[i] = f[i]
    <2>1. Alike(sum, f, len)
        BY <1>r, <1>6, <1>10 DEF Alike
    <2> QED BY <2>1, <1>1, RecursionUnique
<1>12. sum[len] = f[len]
    BY <1>1, <1>11
<1> QED BY <1>r, <1>6, <1>9, <1>12 DEF a, len, PurseSums

\* One record more adds its changeset.
LEMMA PurseAppend ==
    ASSUME NEW Q, NEW L \in Seq(Q), NEW r \in Q, NEW o, NEW c, \A q \in Q : q.changeset[c] \in Int
    PROVE  /\ Purse!Posted(L, o, c) \in Int
           /\ Purse!Posted(Append(L, r), o, c)
                 = Purse!Posted(L, o, c) + (IF r.owner = o THEN r.changeset[c] ELSE 0)
<1> DEFINE longer == Append(L, r)
           len == Len(L)
<1>1. /\ longer \in Seq(Q) /\ len \in Nat /\ Len(longer) = len + 1
      /\ \A i \in 1..len : longer[i] = L[i]
      /\ longer[len + 1] = r
    BY AppendFacts
<1> HIDE DEF longer, len
<1>2. PICK s : PurseSums(s, L, o, c) /\ Purse!Posted(L, o, c) = s[len]
    BY PursePosted DEF len
<1>3. PICK t : PurseSums(t, longer, o, c) /\ Purse!Posted(longer, o, c) = t[Len(longer)]
    BY <1>1, PursePosted
<1>s. /\ s \in [0..len -> Int] /\ s[0] = 0
      /\ \A i \in 1..len : s[i] = s[i - 1] + (IF L[i].owner = o THEN L[i].changeset[c] ELSE 0)
    BY <1>2 DEF PurseSums, len
<1>t. /\ t \in [0..Len(longer) -> Int] /\ t[0] = 0
      /\ \A i \in 1..Len(longer) :
            t[i] = t[i - 1] + (IF longer[i].owner = o THEN longer[i].changeset[c] ELSE 0)
    BY <1>3 DEF PurseSums
<1>4. \A i \in 1..len : i \in 1..Len(longer)
    BY <1>1
<1>5. Alike(s, t, len)
    BY <1>1, <1>4, <1>s, <1>t DEF Alike
<1>6. \A i \in 0..len : s[i] = t[i]
    BY <1>1, <1>5, RecursionUnique
<1>7. s[len] = t[len] /\ s[len] \in Int /\ len + 1 \in 1..Len(longer) /\ (len + 1) - 1 = len
    BY <1>1, <1>s, <1>6
<1>8. t[len + 1] = t[len] + (IF r.owner = o THEN r.changeset[c] ELSE 0)
    BY <1>1, <1>t, <1>7
<1> QED BY <1>1, <1>2, <1>3, <1>7, <1>8 DEF longer

\* The ledger is empty at first.
LEMMA PurseInit == Purse!Init => Purse!IInv
<1> SUFFICES ASSUME Purse!Init PROVE Purse!IInv
    OBVIOUS
<1> DEFINE R == [owner : Owners, changeset : Purse!Changesets, tx : TxIds \cup {None}]
<1>1. 0 \in Purse!Int64 /\ Half - 1 \in Purse!Int64 /\ Half - 1 >= 0
    BY BoundsAssumption DEF Purse!Int64
<1>2. \A f \in {Purse!Zero, [Purse!Zero EXCEPT ![CHOOSE c \in Keys : TRUE] = Half - 1]} :
          f \in [Keys -> Purse!Int64] /\ \A c \in Keys : f[c] >= 0
    <2>1. Purse!Zero \in [Keys -> Purse!Int64] /\ \A c \in Keys : Purse!Zero[c] >= 0
        BY <1>1 DEF Purse!Zero
    <2> DEFINE k == CHOOSE c \in Keys : TRUE
               f == [Purse!Zero EXCEPT ![k] = Half - 1]
    <2> HIDE DEF k
    <2>2. f \in [Keys -> Purse!Int64] /\ \A c \in Keys : f[c] >= 0
        BY <2>1, <1>1
    <2> QED BY <2>1, <2>2 DEF k
<1>3. loaded \in [Owners -> [Keys -> Purse!Int64]] /\ \A o \in Owners, c \in Keys : loaded[o][c] >= 0
    BY <1>2 DEF Purse!Init
<1>4. ledgers = <<>> /\ ledgers \in Seq(R)
    <2>1. <<>> \in Seq(R)
        BY EmptySeq, Zenon
    <2> QED BY <2>1 DEF Purse!Init
<1>5. Purse!TypeOK
    BY <1>3, <1>4, BoundsAssumption DEF Purse!Init, Purse!TypeOK
<1>6. ASSUME NEW o \in Owners, NEW c \in Keys PROVE Purse!Posted(ledgers, o, c) = 0
    <2>1. \A r \in R : r.changeset[c] \in Int
        BY BoundsAssumption DEF Purse!Changesets, Purse!Int64
    <2> HIDE DEF R
    <2>2. PICK s : PurseSums(s, ledgers, o, c) /\ Purse!Posted(ledgers, o, c) = s[Len(ledgers)]
        <3>1. ledgers \in Seq(R)
            BY <1>4
        <3> QED BY <2>1, <3>1, PursePosted
    <2>3. Len(ledgers) = 0
        BY <1>4
    <2> QED BY <2>2, <2>3 DEF PurseSums
<1>7. ASSUME NEW o \in Owners, NEW c \in Keys
      PROVE  accounts[o][c] >= 0 /\ accounts[o][c] = loaded[o][c] + Purse!Posted(ledgers, o, c)
    <2>1. loaded[o][c] \in Int
        BY <1>3, BoundsAssumption DEF Purse!Int64
    <2> QED BY <2>1, <1>3, <1>6 DEF Purse!Init
<1>8. DOMAIN ledgers = {}
    BY <1>4
<1>9. \A x \in TxIds, o \in Owners : txIndex[x][o] = 0
    BY DEF Purse!Init
<1> QED BY <1>5, <1>7, <1>8, <1>9 DEF Purse!IInv, Purse!BooksBalance

\* A changeset that fits is booked exactly.
LEMMA PursePost ==
    ASSUME Purse!IInv, NEW o \in Owners, NEW d \in Purse!Changesets, NEW x \in TxIds \cup {None},
           Purse!Post(o, d, x),
           \/ x = None /\ UNCHANGED txIndex
           \/ /\ x \in TxIds /\ txIndex[x][o] = 0
              /\ txIndex' = [txIndex EXCEPT ![x][o] = Len(ledgers) + 1]
    PROVE  Purse!IInv'
<1> USE DEF Purse!IInv
<1> DEFINE R == [owner : Owners, changeset : Purse!Changesets, tx : TxIds \cup {None}]
           r == [owner |-> o, changeset |-> d, tx |-> x]
<1>1. /\ Purse!Fits(o, d) /\ Len(ledgers) < MaxLedgers
      /\ accounts' = [accounts EXCEPT ![o] = [c \in Keys |-> Purse!Wrap(accounts[o][c] + d[c])]]
      /\ ledgers' = Append(ledgers, r)
      /\ UNCHANGED loaded
    BY DEF Purse!Post
<1>2. ledgers \in Seq(R) /\ r \in R
    BY DEF Purse!TypeOK
<1>3. \A c \in Keys : \A q \in R : q.changeset[c] \in Int
    BY BoundsAssumption DEF Purse!Changesets, Purse!Int64
<1>4. ASSUME NEW p \in Owners, NEW c \in Keys
      PROVE  /\ accounts'[p][c] = accounts[p][c] + (IF p = o THEN d[c] ELSE 0)
             /\ accounts'[p][c] \in Purse!Int64 /\ accounts'[p][c] >= 0
    <2>1. accounts[p][c] \in Purse!Int64 /\ d[c] \in Purse!Int64 /\ accounts[p][c] \in Int
        BY BoundsAssumption DEF Purse!TypeOK, Purse!Changesets, Purse!Int64
    <2>2. accounts[p][c] >= 0
        BY DEF Purse!BooksBalance
    <2>3. CASE p = o
        <3>1. ~Purse!Overflows(accounts[o][c], d[c]) /\ Purse!Wrap(accounts[o][c] + d[c]) >= 0
            BY <1>1 DEF Purse!Fits
        <3>2. accounts'[o][c] = Purse!Wrap(accounts[o][c] + d[c])
            BY <1>1 DEF Purse!TypeOK
        <3> QED BY <2>1, <2>2, <2>3, <3>1, <3>2, PurseSum
    <2>4. CASE p # o
        <3>1. accounts'[p] = accounts[p]
            BY <1>1, <2>4 DEF Purse!TypeOK
        <3> QED BY <2>1, <2>2, <2>4, <3>1
    <2> QED BY <2>3, <2>4
<1> HIDE DEF R, r
<1>5. /\ ledgers' \in Seq(R) /\ Len(ledgers) \in Nat /\ Len(ledgers') = Len(ledgers) + 1
      /\ DOMAIN ledgers = 1..Len(ledgers) /\ DOMAIN ledgers' = 1..(Len(ledgers) + 1)
      /\ \A i \in 1..Len(ledgers) : ledgers'[i] = ledgers[i] /\ ledgers[i] \in R
      /\ ledgers'[Len(ledgers) + 1] = r
    BY <1>1, <1>2, AppendFacts
<1>6. ASSUME NEW p \in Owners, NEW c \in Keys
      PROVE  accounts'[p][c] = loaded'[p][c] + Purse!Posted(ledgers', p, c)
    <2>1. /\ Purse!Posted(ledgers, p, c) \in Int
          /\ Purse!Posted(ledgers', p, c)
                 = Purse!Posted(ledgers, p, c) + (IF r.owner = p THEN r.changeset[c] ELSE 0)
        BY <1>1, <1>2, <1>3, PurseAppend
    <2>2. r.owner = o /\ r.changeset[c] = d[c]
        BY DEF r
    <2>3. loaded[p][c] \in Int /\ d[c] \in Int /\ accounts[p][c] = loaded[p][c] + Purse!Posted(ledgers, p, c)
        BY BoundsAssumption DEF Purse!TypeOK, Purse!BooksBalance, Purse!Changesets, Purse!Int64
    <2> QED BY <2>1, <2>2, <2>3, <1>1, <1>4
<1>7. Purse!TypeOK'
    <2>1. accounts' \in [Owners -> [Keys -> Purse!Int64]]
        <3>1. [c \in Keys |-> Purse!Wrap(accounts[o][c] + d[c])] \in [Keys -> Purse!Int64]
            <4>1. \A c \in Keys : Purse!Wrap(accounts[o][c] + d[c]) = accounts'[o][c]
                BY <1>1 DEF Purse!TypeOK
            <4> QED BY <4>1, <1>4
        <3> QED BY <3>1, <1>1 DEF Purse!TypeOK
    <2>2. Len(ledgers) + 1 \in 0..MaxLedgers
        <3>1. PICK n \in Nat : n = Len(ledgers)
            BY <1>5
        <3>2. n < MaxLedgers
            BY <1>1, <3>1
        <3>3. MaxLedgers \in Nat
            BY BoundsAssumption
        <3>4. n + 1 \in 0..MaxLedgers
            BY <3>2, <3>3
        <3> QED BY <3>1, <3>4
    <2>3. txIndex' \in [TxIds -> [Owners -> 0..MaxLedgers]]
        <3>1. txIndex \in [TxIds -> [Owners -> 0..MaxLedgers]]
            BY DEF Purse!TypeOK
        <3>2. PICK n \in 0..MaxLedgers : n = Len(ledgers) + 1
            BY <2>2
        <3>3. CASE x \in TxIds /\ txIndex' = [txIndex EXCEPT ![x][o] = n]
            <4>1. [txIndex[x] EXCEPT ![o] = n] \in [Owners -> 0..MaxLedgers]
                BY <3>1, <3>3
            <4>2. txIndex' = [txIndex EXCEPT ![x] = [txIndex[x] EXCEPT ![o] = n]]
                BY <3>3
            <4> QED BY <3>1, <4>1, <4>2
        <3> QED BY <3>1, <3>2, <3>3
    <2> QED BY <2>1, <2>3, <1>1, <1>5 DEF Purse!TypeOK, R
<1>8. ASSUME NEW i \in DOMAIN ledgers', ledgers'[i].tx # None
      PROVE  txIndex'[ledgers'[i].tx][ledgers'[i].owner] = i
    <2>1. \A q \in R : q.tx \in TxIds \cup {None} /\ q.owner \in Owners
        BY DEF R
    <2>t. txIndex \in [TxIds -> [Owners -> 0..MaxLedgers]]
        BY DEF Purse!TypeOK
    <2>2. CASE i = Len(ledgers) + 1
        <3>1. ledgers'[i].tx = x /\ ledgers'[i].owner = o /\ x \in TxIds
            BY <2>2, <1>5, <1>8 DEF r
        <3>2. txIndex' = [txIndex EXCEPT ![x][o] = Len(ledgers) + 1]
            BY <3>1, <1>8
        <3> QED BY <3>1, <3>2, <2>2, <2>t
    <2>3. CASE i \in DOMAIN ledgers
        <3>1. ledgers'[i] = ledgers[i] /\ i # 0
            BY <2>3, <1>5
        <3>2. txIndex[ledgers[i].tx][ledgers[i].owner] = i
            BY <3>1, <2>3, <1>8 DEF Purse!BooksBalance
        <3>3. PICK y \in TxIds, p \in Owners : y = ledgers[i].tx /\ p = ledgers[i].owner
            BY <3>1, <2>1, <2>3, <1>5, <1>8
        <3>4. ~(y = x /\ p = o) \/ UNCHANGED txIndex
            BY <3>1, <3>2, <3>3
        <3>5. txIndex'[y][p] = txIndex[y][p]
            BY <3>4, <2>t
        <3> QED BY <3>1, <3>2, <3>3, <3>5
    <2> QED BY <2>2, <2>3, <1>5
<1>9. ASSUME NEW y \in TxIds, NEW p \in Owners, txIndex'[y][p] # 0
      PROVE  /\ txIndex'[y][p] \in DOMAIN ledgers'
             /\ ledgers'[txIndex'[y][p]].tx = y /\ ledgers'[txIndex'[y][p]].owner = p
    <2>t. txIndex \in [TxIds -> [Owners -> 0..MaxLedgers]]
        BY DEF Purse!TypeOK
    <2>1. CASE txIndex'[y][p] = txIndex[y][p]
        <3>1. PICK i \in DOMAIN ledgers : i = txIndex[y][p] /\ ledgers[i].tx = y /\ ledgers[i].owner = p
            BY <1>9, <2>1 DEF Purse!BooksBalance
        <3> QED BY <1>5, <2>1, <3>1
    <2>2. CASE txIndex'[y][p] # txIndex[y][p]
        <3>1. y = x /\ p = o /\ txIndex'[y][p] = Len(ledgers) + 1
            BY <2>2, <2>t
        <3>2. r.tx = x /\ r.owner = o
            BY DEF r
        <3> QED BY <1>5, <3>1, <3>2
    <2> QED BY <2>1, <2>2
<1> QED BY <1>4, <1>6, <1>7, <1>8, <1>9 DEF Purse!BooksBalance

\* wallet.go:1-8: the books balance.
LEMMA PurseInvariant == MCSpec => []Purse!IInv
<1>1. MCInit => Purse!IInv
    BY PurseInit DEF MCInit
<1>2. Purse!IInv /\ [MCNext]_mcVars => Purse!IInv'
    <2> SUFFICES ASSUME Purse!IInv, [MCNext]_mcVars PROVE Purse!IInv'
        OBVIOUS
    <2>1. Purse!Next \/ UNCHANGED purseVars
        BY DEF MCNext, Only, mcVars
    <2>2. CASE UNCHANGED purseVars
        BY <2>2 DEF purseVars, Purse!IInv, Purse!TypeOK, Purse!BooksBalance
    <2>3. CASE Purse!Next
        <3>1. PICK o \in Owners, d \in Purse!Changesets :
                  Purse!Apply(o, d) \/ \E x \in TxIds : Purse!ApplyTx(x, o, d)
            BY <2>3 DEF Purse!Next
        <3>2. CASE Purse!Apply(o, d)
            BY <3>2, PursePost DEF Purse!Apply
        <3>3. ASSUME NEW x \in TxIds, Purse!ApplyTx(x, o, d) PROVE Purse!IInv'
            BY <3>3, PursePost DEF Purse!ApplyTx
        <3> QED BY <3>1, <3>2, <3>3
    <2> QED BY <2>1, <2>2, <2>3
<1> QED BY <1>1, <1>2, PTL DEF MCSpec

-----------------------------------------------------------------------------
(* WorkerPool *)

\* The words of the module, in those of this one.
LEMMA GophersWords ==
    /\ \A S : Gophers!Cardinality(S) = Cardinality(S) /\ (Gophers!IsFiniteSet(S) <=> IsFiniteSet(S))
    /\ \A f : Gophers!Range(f) = Range(f) /\ (Gophers!IsInjective(f) <=> IsInjective(f))
<1>1. \A S : Gophers!Cardinality(S) = Cardinality(S)
    BY DEF Cardinality, Gophers!Cardinality
<1>2. \A S : Gophers!IsFiniteSet(S) <=> IsFiniteSet(S)
    BY DEF IsFiniteSet, Gophers!IsFiniteSet
<1>3. \A f : Gophers!Range(f) = Range(f) /\ (Gophers!IsInjective(f) <=> IsInjective(f))
    BY DEF Range, Gophers!Range, IsInjective, Gophers!IsInjective
<1> QED BY <1>1, <1>2, <1>3

\* Nothing is submitted at first.
LEMMA GophersInit == Gophers!Init => Gophers!IInv
<1> SUFFICES ASSUME Gophers!Init PROVE Gophers!IInv
    OBVIOUS
<1>1. tasks \in Seq(Keys) /\ Range(tasks) = {} /\ IsInjective(tasks)
    <2>1. tasks = <<>>
        BY DEF Gophers!Init
    <2> QED BY <2>1 DEF Range, IsInjective
<1>2. Gophers!TypeOK
    <2>1. taskCh \in BOOLEAN /\ FALSE \in BOOLEAN
        BY Zenon DEF Gophers!Init
    <2>2. group \in [wg : Nat, err : Keys \cup {None}, done : BOOLEAN]
        BY <2>1 DEF Gophers!Init
    <2> QED BY <2>1, <2>2, <1>1 DEF Gophers!Init, Gophers!TypeOK
<1>3. Gophers!Counted = {} /\ Gophers!Busy = {}
    BY DEF Gophers!Init, Gophers!Counted, Gophers!Busy
<1>4. IsFiniteSet(Gophers!Counted) /\ Cardinality(Gophers!Counted) = 0
    BY <1>3, FS_EmptySet
<1>5. Gophers!TaskInv
    BY <1>1, <1>3, <1>4, GophersWords DEF Gophers!Init, Gophers!TaskInv
<1>6. Gophers!GroupCounts
    BY <1>4, GophersWords DEF Gophers!Init, Gophers!GroupCounts
<1> QED BY <1>2, <1>5, <1>6 DEF Gophers!IInv

\* Task t is submitted and has not ended.
Pending(s, e, t) == e[t] = "no" /\ s[t] \notin {"none", "refused", "add"}

\* A pending task is in the list, or with one worker.
Placed(list, g, s, e) ==
    /\ \A t \in Range(list) : t \in Keys /\ Pending(s, e, t)
    /\ \A w \in Keys : g[w].at = "exec" => g[w].task \in Keys /\ g[w].task \notin Range(list) /\ Pending(s, e, g[w].task)
    /\ \A v, w \in Keys : g[v].at = "exec" /\ g[w].at = "exec" /\ g[v].task = g[w].task => v = w

\* What the invariant says.
LEMMA GophersNow ==
    ASSUME Gophers!IInv
    PROVE  /\ tasks \in Seq(Keys) /\ IsInjective(tasks) /\ IsFiniteSet(Gophers!Counted)
           /\ group.wg = Cardinality(Gophers!Counted) /\ group.wg \in Nat
           /\ group \in [wg : Nat, err : Keys \cup {None}, done : BOOLEAN]
           /\ Placed(tasks, gopher, submit, ended)
           /\ \A t \in Keys : submit[t] \in {"none", "refused", "add"} => ended[t] = "no"
<1>1. tasks \in Seq(Keys)
    BY DEF Gophers!IInv, Gophers!TypeOK
<1>2. \A t \in Range(tasks) : t \in Keys
    <2>1. \A i \in DOMAIN tasks : tasks[i] \in Keys
        BY <1>1
    <2> QED BY <2>1 DEF Range
<1>3. \A w \in Keys : gopher[w].at = "exec" <=> w \in Gophers!Busy
    BY DEF Gophers!Busy
<1>4. Placed(tasks, gopher, submit, ended)
    BY <1>2, <1>3, GophersWords DEF Gophers!IInv, Gophers!TaskInv, Gophers!Waits, Placed, Pending
<1>5. IsInjective(tasks) /\ IsFiniteSet(Gophers!Counted) /\ group.wg = Cardinality(Gophers!Counted)
    BY GophersWords DEF Gophers!IInv, Gophers!TaskInv, Gophers!GroupCounts
<1>6. group \in [wg : Nat, err : Keys \cup {None}, done : BOOLEAN] /\ group.wg \in Nat
    BY DEF Gophers!IInv, Gophers!TypeOK
<1>7. \A t \in Keys : submit[t] \in {"none", "refused", "add"} => ended[t] = "no"
    BY DEF Gophers!IInv, Gophers!TaskInv
<1> QED BY <1>1, <1>4, <1>5, <1>6, <1>7

\* What is to show of the next state.
LEMMA GophersNew ==
    ASSUME Gophers!TypeOK', IsInjective(tasks'), IsFiniteSet(Gophers!Counted'), Placed(tasks', gopher', submit', ended'),
           \A t \in Keys : submit'[t] \in {"none", "refused", "add"} => ended'[t] = "no"
    PROVE  Gophers!TaskInv'
<1>1. \A w \in Gophers!Busy' : w \in Keys /\ gopher'[w].at = "exec"
    BY DEF Gophers!Busy
<1>2. \A t \in Range(tasks') : ended'[t] = "no" /\ submit'[t] \notin {"none", "refused", "add"}
    BY DEF Placed, Pending
<1>3. \A w \in Gophers!Busy' :
          /\ gopher'[w].task \in Keys \ Range(tasks')
          /\ ended'[gopher'[w].task] = "no" /\ submit'[gopher'[w].task] \notin {"none", "refused", "add"}
          /\ \A v \in Gophers!Busy' : gopher'[v].task = gopher'[w].task => v = w
    BY <1>1 DEF Placed, Pending
<1>4. Gophers!Range(tasks') = Range(tasks') /\ Gophers!IsInjective(tasks') /\ Gophers!IsFiniteSet(Gophers!Counted')
    BY GophersWords
<1> QED BY <1>2, <1>3, <1>4 DEF Gophers!TaskInv, Gophers!Waits

\* A Go is counted when it is not refused.
LEMMA GophersGo ==
    ASSUME Gophers!IInv, NEW t \in Keys, Gophers!Go(t)
    PROVE  Gophers!IInv'
<1> USE DEF Gophers!IInv
<1>1. PICK r \in {"refused", "add"} :
          /\ submit[t] = "none" /\ submit' = [submit EXCEPT ![t] = r]
          /\ r = "refused" => UNCHANGED group
          /\ r = "add" => group' = [group EXCEPT !.wg = @ + 1]
          /\ UNCHANGED <<tasks, taskCh, gopher, closing, ended>>
    BY DEF Gophers!Go
<1>2. ended[t] = "no"
    BY <1>1 DEF Gophers!TaskInv
<1>3. Gophers!Counted' = IF r = "add" THEN Gophers!Counted \cup {t} ELSE Gophers!Counted
    BY <1>1, <1>2 DEF Gophers!Counted, Gophers!TypeOK
<1>4. t \notin Gophers!Counted
    BY <1>1 DEF Gophers!Counted
<1>5. /\ IsFiniteSet(Gophers!Counted')
      /\ Cardinality(Gophers!Counted') = IF r = "add" THEN Cardinality(Gophers!Counted) + 1 ELSE Cardinality(Gophers!Counted)
    <2>1. /\ IsFiniteSet(Gophers!Counted \cup {t})
          /\ Cardinality(Gophers!Counted \cup {t}) = Cardinality(Gophers!Counted) + 1
        BY <1>4, GophersNow, FS_AddElement
    <2> QED BY <2>1, <1>3, GophersNow
<1>6. /\ group' \in [wg : Nat, err : Keys \cup {None}, done : BOOLEAN]
      /\ group'.wg = Cardinality(Gophers!Counted') /\ group'.err = group.err /\ group'.done = group.done
    <2>1. CASE r = "refused"
        BY <2>1, <1>1, <1>5, GophersNow
    <2>2. CASE r = "add"
        BY <2>2, <1>1, <1>5, GophersNow
    <2> QED BY <2>1, <2>2
<1>7. Gophers!TypeOK'
    BY <1>1, <1>6 DEF Gophers!TypeOK
<1>8. Placed(tasks', gopher', submit', ended')
    <2>1. \A u \in Keys : Pending(submit, ended, u) => Pending(submit', ended', u)
        BY <1>1 DEF Pending, Gophers!TypeOK
    <2>2. tasks' = tasks /\ gopher' = gopher /\ Placed(tasks, gopher, submit, ended)
        BY <1>1, GophersNow
    <2> QED BY <2>1, <2>2 DEF Placed
<1>9. Gophers!TaskInv'
    <2>1. \A u \in Keys : submit'[u] \in {"none", "refused", "add"} => ended'[u] = "no"
        BY <1>1, <1>2 DEF Gophers!TaskInv, Gophers!TypeOK
    <2>2. IsInjective(tasks')
        BY <1>1, GophersNow
    <2> QED BY <2>1, <2>2, <1>5, <1>7, <1>8, GophersNew
<1>10. Gophers!GroupCounts'
    BY <1>1, <1>6, GophersWords DEF Gophers!GroupCounts
<1> QED BY <1>7, <1>9, <1>10

\* A task enters the list once, and then the places of Go are its own.
LEMMA GophersSubmit ==
    ASSUME Gophers!IInv, NEW t \in Keys, Gophers!Submitter(t)
    PROVE  Gophers!IInv'
<1> USE DEF Gophers!IInv
<1>1. PICK r \in {"count", "scale", "zero", "run", "returned"} :
          /\ submit[t] \notin {"none", "refused"} /\ submit' = [submit EXCEPT ![t] = r]
    BY DEF Gophers!Submitter, Gophers!AddTask, Gophers!Decide, Gophers!Run
<1>2. UNCHANGED <<group, closing, ended>>
    BY DEF Gophers!Submitter, Gophers!AddTask, Gophers!Decide, Gophers!Run
<1>3. tasks \in Seq(Keys) /\ IsInjective(tasks) /\ Placed(tasks, gopher, submit, ended)
    BY GophersNow
<1>4. /\ gopher' \in [Keys -> [at : {"none", "pop", "exec", "select", "exited"}, task : Keys \cup {None}]]
      /\ \A w \in Keys : gopher'[w].at = "exec" => gopher[w].at = "exec" /\ gopher'[w].task = gopher[w].task
    BY DEF Gophers!Submitter, Gophers!AddTask, Gophers!Decide, Gophers!Run, Gophers!TypeOK
<1>5. \A u \in Keys : Pending(submit, ended, u) => Pending(submit', ended', u)
    BY <1>1, <1>2 DEF Pending, Gophers!TypeOK
<1>6. tasks' \in Seq(Keys) /\ taskCh' \in BOOLEAN /\ IsInjective(tasks') /\ Placed(tasks', gopher', submit', ended')
    <2>1. CASE Gophers!AddTask(t)
        <3>1. submit[t] = "add" /\ tasks' = Append(tasks, t) /\ taskCh' = TRUE
            BY <2>1 DEF Gophers!AddTask
        <3>2. t \notin Range(tasks) /\ \A w \in Keys : gopher[w].at = "exec" => gopher[w].task # t
            BY <3>1, <1>3 DEF Placed, Pending
        <3>3. tasks' \in Seq(Keys)
            BY <3>1, <1>3, AppendFacts
        <3>4. Range(tasks') = Range(tasks) \cup {t} /\ IsInjective(tasks')
            <4>1. PICK q \in Seq(Keys) : q = tasks /\ IsInjective(q) /\ t \notin Range(q)
                BY <3>2, <1>3
            <4>2. PICK longer : longer = Append(q, t)
                OBVIOUS
            <4>3. Range(longer) = Range(q) \cup {t} /\ (IsInjective(q) /\ t \notin Range(q) => IsInjective(longer))
                BY <4>2, AppendInjective2
            <4>4. longer = tasks'
                BY <3>1, <4>1, <4>2
            <4> QED BY <4>1, <4>3, <4>4
        <3>5. Pending(submit', ended', t)
            <4>1. ended[t] = "no"
                BY <3>1 DEF Gophers!TaskInv
            <4> QED BY <4>1, <1>1, <1>2 DEF Pending, Gophers!TypeOK
        <3>6. Placed(tasks', gopher', submit', ended')
            BY <3>2, <3>4, <3>5, <1>3, <1>4, <1>5 DEF Placed
        <3> QED BY <3>1, <3>3, <3>4, <3>6
    <2>2. CASE Gophers!Decide(t) \/ Gophers!Run(t)
        <3>1. tasks' = tasks /\ taskCh' = taskCh
            BY <2>2 DEF Gophers!Decide, Gophers!Run
        <3>2. Placed(tasks', gopher', submit', ended')
            BY <3>1, <1>3, <1>4, <1>5 DEF Placed
        <3> QED BY <3>1, <3>2, <1>3 DEF Gophers!TypeOK
    <2> QED BY <2>1, <2>2 DEF Gophers!Submitter
<1>7. Gophers!TypeOK'
    BY <1>1, <1>2, <1>4, <1>6 DEF Gophers!TypeOK
<1>8. Gophers!Counted' = Gophers!Counted
    BY <1>1, <1>2 DEF Gophers!Counted, Gophers!TypeOK
<1>9. Gophers!TaskInv'
    <2>1. \A u \in Keys : submit'[u] \in {"none", "refused", "add"} => ended'[u] = "no"
        BY <1>1, <1>2 DEF Gophers!TaskInv, Gophers!TypeOK
    <2>2. IsFiniteSet(Gophers!Counted')
        BY <1>8, GophersNow
    <2> QED BY <2>1, <2>2, <1>6, <1>7, GophersNew
<1>10. Gophers!GroupCounts'
    BY <1>2, <1>8 DEF Gophers!GroupCounts
<1> QED BY <1>7, <1>9, <1>10

\* A worker takes the first task of the list, or drops it.
LEMMA GophersPop ==
    ASSUME Gophers!IInv, NEW w \in Keys, Gophers!Pop(w)
    PROVE  Gophers!IInv'
<1> USE DEF Gophers!IInv
<1>0. gopher[w].at = "pop" /\ UNCHANGED <<taskCh, submit, group, closing>>
    BY DEF Gophers!Pop
<1>n. tasks \in Seq(Keys) /\ IsInjective(tasks) /\ Placed(tasks, gopher, submit, ended) /\ IsFiniteSet(Gophers!Counted)
    BY GophersNow
<1>1. CASE tasks = <<>>
    <2>1. gopher' = [gopher EXCEPT ![w].at = "select"] /\ UNCHANGED <<tasks, ended>>
        BY <1>1 DEF Gophers!Pop
    <2>2. Gophers!TypeOK'
        BY <2>1, <1>0 DEF Gophers!TypeOK
    <2>3. Gophers!Counted' = Gophers!Counted
        BY <2>1, <1>0 DEF Gophers!Counted
    <2>4. \A v \in Keys : gopher'[v].at = "exec" => gopher[v].at = "exec" /\ gopher'[v].task = gopher[v].task
        BY <2>1 DEF Gophers!TypeOK
    <2>5. Placed(tasks', gopher', submit', ended')
        BY <2>1, <2>4, <1>0, <1>n DEF Placed
    <2>6. Gophers!TaskInv'
        <3>1. \A u \in Keys : submit'[u] \in {"none", "refused", "add"} => ended'[u] = "no"
            BY <2>1, <1>0 DEF Gophers!TaskInv
        <3>2. IsInjective(tasks') /\ IsFiniteSet(Gophers!Counted')
            BY <2>1, <2>3, <1>n
        <3> QED BY <2>2, <2>5, <3>1, <3>2, GophersNew
    <2>7. Gophers!GroupCounts'
        BY <2>1, <2>3, <1>0 DEF Gophers!GroupCounts
    <2> QED BY <2>2, <2>6, <2>7
<1>2. CASE tasks # <<>>
    <2> DEFINE h == Head(tasks)
    <2>1. tasks' = Tail(tasks) /\ tasks \in Seq(Keys) /\ tasks # <<>>
        BY <1>2, <1>n DEF Gophers!Pop
    <2>2. /\ tasks' \in Seq(Keys) /\ Len(tasks') \in Nat /\ Len(tasks) = Len(tasks') + 1
          /\ DOMAIN tasks = 1..Len(tasks) /\ DOMAIN tasks' = 1..Len(tasks')
          /\ \A i \in 1..Len(tasks') : tasks'[i] = tasks[i + 1]
          /\ h = tasks[1] /\ h \in Keys
        BY <2>1, TailFacts
    <2> HIDE DEF h
    <2>3. 1 \in DOMAIN tasks /\ \A i \in DOMAIN tasks' : i + 1 \in DOMAIN tasks /\ i + 1 # 1 /\ tasks'[i] = tasks[i + 1]
        BY <2>2
    <2>i. \A i, j \in DOMAIN tasks' : i + 1 = j + 1 => i = j
        BY <2>2
    <2>4. /\ h \in Range(tasks) /\ Range(tasks') \subseteq Range(tasks) \ {h} /\ IsInjective(tasks')
        BY <2>2, <2>3, <2>i, <1>n DEF Range, IsInjective
    <2>5. /\ ended[h] = "no" /\ submit[h] \notin {"none", "refused", "add"}
          /\ \A v \in Keys : gopher[v].at = "exec" => gopher[v].task # h
        BY <2>4, <1>n DEF Placed, Pending
    <2>6. CASE ended' = [ended EXCEPT ![h] = "skipped"] /\ UNCHANGED gopher
        <3>1. Gophers!TypeOK'
            BY <2>2, <2>6, <1>0 DEF Gophers!TypeOK
        <3>2. Gophers!Counted' = Gophers!Counted
            BY <2>2, <2>5, <2>6, <1>0 DEF Gophers!TypeOK, Gophers!Counted
        <3>3. \A t \in Keys : t # h /\ Pending(submit, ended, t) => Pending(submit', ended', t)
            BY <2>2, <2>6, <1>0 DEF Pending, Gophers!TypeOK
        <3>4. Placed(tasks', gopher', submit', ended')
            BY <2>4, <2>5, <2>6, <3>3, <1>n DEF Placed
        <3>5. \A t \in Keys : submit'[t] \in {"none", "refused", "add"} => ended'[t] = "no"
            BY <2>2, <2>5, <2>6, <1>0 DEF Gophers!TaskInv, Gophers!TypeOK
        <3>6. Gophers!TaskInv'
            BY <2>4, <3>1, <3>2, <3>4, <3>5, <1>n, GophersNew
        <3>7. Gophers!GroupCounts'
            BY <2>2, <2>5, <2>6, <3>2, <1>0 DEF Gophers!GroupCounts, Gophers!TypeOK
        <3> QED BY <3>1, <3>6, <3>7
    <2>7. CASE gopher' = [gopher EXCEPT ![w] = [at |-> "exec", task |-> h]] /\ UNCHANGED ended
        <3>1. Gophers!TypeOK'
            BY <2>2, <2>7, <1>0 DEF Gophers!TypeOK
        <3>2. Gophers!Counted' = Gophers!Counted
            BY <2>7, <1>0 DEF Gophers!Counted
        <3>3. gopher'[w].task = h /\ \A v \in Keys : v # w => gopher'[v] = gopher[v]
            BY <2>7 DEF Gophers!TypeOK
        <3>4. Pending(submit', ended', h) /\ h \notin Range(tasks')
            BY <2>4, <2>5, <2>7, <1>0 DEF Pending
        <3>5. Placed(tasks', gopher', submit', ended')
            <4>1. \A t \in Range(tasks') : t \in Keys /\ Pending(submit', ended', t)
                BY <2>4, <2>7, <1>0, <1>n DEF Placed
            <4>2. \A v \in Keys : gopher'[v].at = "exec" =>
                      gopher'[v].task \in Keys /\ gopher'[v].task \notin Range(tasks') /\ Pending(submit', ended', gopher'[v].task)
                <5> SUFFICES ASSUME NEW v \in Keys, gopher'[v].at = "exec"
                             PROVE  gopher'[v].task \in Keys /\ gopher'[v].task \notin Range(tasks')
                                    /\ Pending(submit', ended', gopher'[v].task)
                    OBVIOUS
                <5>1. CASE v = w
                    BY <5>1, <3>3, <3>4, <2>2
                <5>2. CASE v # w
                    BY <5>2, <3>3, <2>4, <2>7, <1>0, <1>n DEF Placed
                <5> QED BY <5>1, <5>2
            <4>3. \A u, v \in Keys : gopher'[u].at = "exec" /\ gopher'[v].at = "exec" /\ gopher'[u].task = gopher'[v].task => u = v
                BY <3>3, <2>5, <1>n DEF Placed
            <4> QED BY <4>1, <4>2, <4>3 DEF Placed
        <3>6. Gophers!TaskInv'
            <4>1. \A t \in Keys : submit'[t] \in {"none", "refused", "add"} => ended'[t] = "no"
                BY <2>7, <1>0 DEF Gophers!TaskInv
            <4> QED BY <4>1, <2>4, <3>1, <3>2, <3>5, <1>n, GophersNew
        <3>7. Gophers!GroupCounts'
            BY <2>7, <3>2, <1>0 DEF Gophers!GroupCounts
        <3> QED BY <3>1, <3>6, <3>7
    <2> QED BY <1>2, <2>6, <2>7 DEF Gophers!Pop, h
<1> QED BY <1>1, <1>2

\* A task that has run is counted no more, and its error is kept if it is the first.
LEMMA GophersExecute ==
    ASSUME Gophers!IInv, NEW w \in Keys, NEW failed \in BOOLEAN, Gophers!ExecuteTask(w, failed)
    PROVE  Gophers!IInv'
<1> USE DEF Gophers!IInv
<1> DEFINE t == gopher[w].task
<1>1. /\ gopher[w].at = "exec"
      /\ ended' = [ended EXCEPT ![t] = IF failed THEN "failed" ELSE "ran"]
      /\ group' = [wg |-> group.wg - 1,
                   err |-> IF failed /\ group.err = None THEN t ELSE group.err,
                   done |-> group.done \/ failed]
      /\ gopher' = [gopher EXCEPT ![w] = [at |-> "pop", task |-> None]]
      /\ UNCHANGED <<tasks, taskCh, submit, closing>>
    BY DEF Gophers!ExecuteTask
<1>n. Placed(tasks, gopher, submit, ended)
    BY GophersNow
<1>2. /\ t \in Keys /\ t \notin Range(tasks) /\ ended[t] = "no" /\ submit[t] \notin {"none", "refused", "add"}
      /\ \A v \in Keys : gopher[v].at = "exec" /\ gopher[v].task = t => v = w
    BY <1>1, <1>n DEF Placed, Pending
<1> HIDE DEF t
<1>3. PICK r \in {"failed", "ran"} : r = IF failed THEN "failed" ELSE "ran"
    OBVIOUS
<1>4. ended' = [ended EXCEPT ![t] = r]
    BY <1>1, <1>3
<1>5. Gophers!Counted' = Gophers!Counted \ {t} /\ t \in Gophers!Counted
    BY <1>1, <1>2, <1>4 DEF Gophers!Counted, Gophers!TypeOK
<1>6. /\ IsFiniteSet(Gophers!Counted') /\ Cardinality(Gophers!Counted') = Cardinality(Gophers!Counted) - 1
      /\ Cardinality(Gophers!Counted') \in Nat
    <2>1. IsFiniteSet(Gophers!Counted \ {t}) /\ Cardinality(Gophers!Counted \ {t}) = Cardinality(Gophers!Counted) - 1
        BY <1>5, GophersNow, FS_RemoveElement
    <2> QED BY <2>1, <1>5, FS_CardinalityType
<1>7. /\ group'.wg = Cardinality(Gophers!Counted') /\ group'.wg \in Nat
      /\ group'.err = IF failed /\ group.err = None THEN t ELSE group.err
      /\ group'.done = (group.done \/ failed)
    BY <1>1, <1>6, GophersNow
<1>8. group' \in [wg : Nat, err : Keys \cup {None}, done : BOOLEAN]
    <2>1. (group.done \/ failed) \in BOOLEAN
        BY Zenon
    <2>2. PICK d \in BOOLEAN : d = (group.done \/ failed)
        BY <2>1
    <2>3. PICK e \in Keys \cup {None} : e = IF failed /\ group.err = None THEN t ELSE group.err
        BY <1>2, GophersNow
    <2>4. PICK n \in Nat : n = group.wg - 1
        BY <1>1, <1>7
    <2>5. group' = [wg |-> n, err |-> e, done |-> d]
        BY <2>2, <2>3, <2>4, <1>1, Zenon
    <2> QED BY <2>5
<1>9. Gophers!TypeOK'
    BY <1>1, <1>4, <1>8 DEF Gophers!TypeOK
<1>10. /\ \A v \in Keys : gopher'[v].at = "exec" => v # w /\ gopher'[v] = gopher[v]
       /\ \A u \in Keys : u # t /\ Pending(submit, ended, u) => Pending(submit', ended', u)
    BY <1>1, <1>4 DEF Pending, Gophers!TypeOK
<1>11. Gophers!TaskInv'
    <2>1. Placed(tasks', gopher', submit', ended')
        <3>1. \A u \in Range(tasks') : u \in Keys /\ Pending(submit', ended', u)
            BY <1>1, <1>2, <1>10, <1>n DEF Placed
        <3>2. \A v \in Keys : gopher'[v].at = "exec" =>
                  gopher'[v].task \in Keys /\ gopher'[v].task \notin Range(tasks') /\ Pending(submit', ended', gopher'[v].task)
            BY <1>1, <1>2, <1>10, <1>n DEF Placed
        <3>3. \A u, v \in Keys : gopher'[u].at = "exec" /\ gopher'[v].at = "exec" /\ gopher'[u].task = gopher'[v].task => u = v
            BY <1>10, <1>n DEF Placed
        <3> QED BY <3>1, <3>2, <3>3 DEF Placed
    <2>2. \A u \in Keys : submit'[u] \in {"none", "refused", "add"} => ended'[u] = "no"
        BY <1>1, <1>2, <1>4 DEF Gophers!TaskInv, Gophers!TypeOK
    <2>3. IsInjective(tasks')
        BY <1>1, GophersNow
    <2> QED BY <2>1, <2>2, <2>3, <1>6, <1>9, GophersNew
<1>12. Gophers!GroupCounts'
    <2>1. \A u \in Keys : ended'[u] = IF u = t THEN r ELSE ended[u]
        BY <1>4 DEF Gophers!TypeOK
    <2>2. CASE group.err = None /\ ~failed
        <3>1. group'.err = None /\ \A u \in Keys : ended'[u] # "failed"
            BY <2>1, <2>2, <1>3, <1>7 DEF Gophers!GroupCounts
        <3> QED BY <3>1, <1>7, GophersWords DEF Gophers!GroupCounts
    <2>3. CASE group.err = None /\ failed
        <3>1. group'.err = t /\ t # None /\ ended'[t] = "failed" /\ group'.done
            BY <2>1, <2>3, <1>2, <1>3, <1>7, ConstantsAssumption
        <3> QED BY <3>1, <1>7, GophersWords DEF Gophers!GroupCounts
    <2>4. CASE group.err # None
        <3>1. group'.err = group.err /\ group.err \in Keys /\ ended[group.err] = "failed" /\ group.done
            BY <2>4, <1>7, GophersNow DEF Gophers!GroupCounts
        <3>2. ended'[group.err] = "failed" /\ group'.done
            BY <2>1, <3>1, <1>2, <1>7
        <3> QED BY <2>4, <3>1, <3>2, <1>7, GophersWords DEF Gophers!GroupCounts
    <2> QED BY <2>2, <2>3, <2>4
<1> QED BY <1>9, <1>11, <1>12

\* Waiting, closing and the end of the context leave the tasks alone.
LEMMA GophersOther ==
    ASSUME Gophers!IInv, Gophers!Close \/ Gophers!CtxDone \/ \E w \in Keys : Gophers!Wait(w)
    PROVE  Gophers!IInv'
<1> USE DEF Gophers!IInv
<1>1. UNCHANGED <<tasks, submit, ended>>
    BY DEF Gophers!Close, Gophers!CtxDone, Gophers!Wait
<1>2. /\ taskCh' \in BOOLEAN /\ closing' \in {"no", "flag", "wait", "done", "timeout"}
      /\ group' \in [wg : Nat, err : Keys \cup {None}, done : BOOLEAN]
      /\ group'.wg = group.wg /\ group'.err = group.err /\ (group.done => group'.done)
    <2>1. CASE Gophers!Close
        BY <2>1 DEF Gophers!Close, Gophers!TypeOK
    <2>2. CASE Gophers!CtxDone
        <3>1. TRUE \in BOOLEAN
            OBVIOUS
        <3> QED BY <2>2, <3>1 DEF Gophers!CtxDone, Gophers!TypeOK
    <2>3. CASE \E w \in Keys : Gophers!Wait(w)
        <3>1. UNCHANGED <<closing, group>>
            BY <2>3 DEF Gophers!Wait
        <3>2. taskCh' = taskCh \/ taskCh' = FALSE
            BY <2>3, Zenon DEF Gophers!Wait
        <3>3. taskCh' \in BOOLEAN
            BY <3>2, Zenon DEF Gophers!TypeOK
        <3> QED BY <3>1, <3>3 DEF Gophers!TypeOK
    <2> QED BY <2>1, <2>2, <2>3
<1>3. /\ gopher' \in [Keys -> [at : {"none", "pop", "exec", "select", "exited"}, task : Keys \cup {None}]]
      /\ \A v \in Keys : gopher'[v].at = "exec" => gopher'[v] = gopher[v]
    <2>1. CASE Gophers!Close \/ Gophers!CtxDone
        BY <2>1 DEF Gophers!Close, Gophers!CtxDone, Gophers!TypeOK
    <2>2. CASE \E w \in Keys : Gophers!Wait(w)
        <3>1. PICK w \in Keys, a \in {"exited", "pop"} : gopher' = [gopher EXCEPT ![w].at = a]
            BY <2>2 DEF Gophers!Wait
        <3> QED BY <3>1 DEF Gophers!TypeOK
    <2> QED BY <2>1, <2>2
<1>4. Gophers!TypeOK'
    BY <1>1, <1>2, <1>3 DEF Gophers!TypeOK
<1>5. Gophers!Counted' = Gophers!Counted
    BY <1>1 DEF Gophers!Counted
<1>6. Gophers!TaskInv'
    <2>1. Placed(tasks, gopher, submit, ended) /\ IsInjective(tasks) /\ IsFiniteSet(Gophers!Counted)
        BY GophersNow
    <2>2. Placed(tasks', gopher', submit', ended')
        BY <2>1, <1>1, <1>3 DEF Placed
    <2>3. \A u \in Keys : submit'[u] \in {"none", "refused", "add"} => ended'[u] = "no"
        BY <1>1 DEF Gophers!TaskInv
    <2>4. IsInjective(tasks') /\ IsFiniteSet(Gophers!Counted')
        BY <2>1, <1>1, <1>5
    <2> QED BY <2>2, <2>3, <2>4, <1>4, GophersNew
<1>7. Gophers!GroupCounts'
    BY <1>1, <1>2, <1>5 DEF Gophers!GroupCounts
<1> QED BY <1>4, <1>6, <1>7

\* xgo.go:202-208: the group counts its tasks.
LEMMA GophersInvariant == MCSpec => []Gophers!IInv
<1>1. MCInit => Gophers!IInv
    BY GophersInit DEF MCInit
<1>2. Gophers!IInv /\ [MCNext]_mcVars => Gophers!IInv'
    <2> SUFFICES ASSUME Gophers!IInv, [MCNext]_mcVars PROVE Gophers!IInv'
        OBVIOUS
    <2>1. Gophers!Next \/ UNCHANGED gopherVars
        BY DEF MCNext, Only, mcVars
    <2>2. CASE UNCHANGED gopherVars
        BY <2>2 DEF gopherVars, Gophers!IInv, Gophers!TypeOK, Gophers!TaskInv, Gophers!GroupCounts,
                    Gophers!Counted, Gophers!Busy, Gophers!Waits
    <2> QED BY <2>1, <2>2, GophersGo, GophersSubmit, GophersPop, GophersExecute, GophersOther
            DEF Gophers!Next, Gophers!Work
<1> QED BY <1>1, <1>2, PTL DEF MCSpec

-----------------------------------------------------------------------------
(* Broker *)

\* f[i] holds the first i elements of a list, without those that are not in T.
Kept(f, list, T) ==
    /\ f[0] = <<>>
    /\ \A i \in 1..Len(list) : f[i] = IF list[i] \in T THEN Append(f[i - 1], list[i]) ELSE f[i - 1]

\* What Among computes.
LEMMA TopicKept ==
    ASSUME NEW S, NEW list \in Seq(S), NEW T
    PROVE  \E f \in [0..Len(list) -> Seq(S)] : Kept(f, list, T) /\ Topic!Among(list, T) = f[Len(list)]
<1> DEFINE len == Len(list)
           a(q, i) == IF list[i] \in T THEN Append(q, list[i]) ELSE q
           add == [x \in Seq(S) \X (1..len) |-> a(x[1], x[2])]
<1>1. len \in Nat /\ \A i \in 1..len : list[i] \in S
    OBVIOUS
<1>2. \A i \in 1..len : \A q \in Seq(S) : a(q, i) \in Seq(S)
    BY <1>1, AppendFacts
<1> HIDE DEF a, len
<1>3. add \in [Seq(S) \X (1..len) -> Seq(S)]
    BY <1>2
<1>4. <<>> \in Seq(S)
    OBVIOUS
<1> HIDE DEF add
<1>5. PICK f : Recursive(f, len, Seq(S), <<>>, add)
    BY <1>1, <1>3, <1>4, RecursionExists
<1>r. f \in [0..len -> Seq(S)] /\ f[0] = <<>> /\ \A i \in 1..len : f[i] = add[<<f[i - 1], i>>]
    BY <1>5 DEF Recursive
<1>6. \A i \in 1..len : f[i] = a(f[i - 1], i)
    <2> SUFFICES ASSUME NEW i \in 1..len PROVE f[i] = a(f[i - 1], i)
        OBVIOUS
    <2>1. i - 1 \in 0..len
        BY <1>1
    <2>2. <<f[i - 1], i>> \in Seq(S) \X (1..len)
        BY <2>1, <1>r
    <2>3. add[<<f[i - 1], i>>] = a(f[i - 1], i)
        BY <2>2 DEF add
    <2> QED BY <2>3, <1>r
<1>7. f = [i \in 0..len |-> IF i = 0 THEN <<>> ELSE a(f[i - 1], i)]
    BY <1>1, <1>r, <1>6
<1> DEFINE kept == CHOOSE g : g = [i \in 0..len |-> IF i = 0 THEN <<>> ELSE a(g[i - 1], i)]
<1>8. kept = [i \in 0..len |-> IF i = 0 THEN <<>> ELSE a(kept[i - 1], i)]
    BY <1>7, Zenon
<1>9. Topic!Among(list, T) = kept[len]
    BY Zenon DEF Topic!Among, a, len
<1> HIDE DEF kept
<1>10. kept[0] = <<>> /\ \A i \in 1..len : kept[i] = a(kept[i - 1], i)
    BY <1>1, <1>8
<1>11. \A i \in 0..len : kept[i] = f[i]
    <2>1. Alike(kept, f, len)
        BY <1>r, <1>6, <1>10 DEF Alike
    <2> QED BY <2>1, <1>1, RecursionUnique
<1>12. kept[len] = f[len]
    BY <1>1, <1>11
<1>13. Kept(f, list, T)
    BY <1>r, <1>6 DEF a, len, Kept
<1> QED BY <1>r, <1>9, <1>12, <1>13 DEF len

\* q is the part of a list up to i that is in T.
Part(q, list, T, i) ==
    /\ IsInjective(q)
    /\ Range(q) \subseteq T
    /\ \A e \in Range(q) : \E j \in 1..i : e = list[j]
    /\ \A j \in 1..i : list[j] \in T => list[j] \in Range(q)

\* One element more.
LEMMA PartNext ==
    ASSUME NEW S, NEW list \in Seq(S), IsInjective(list), NEW T, NEW i \in 1..Len(list),
           NEW q \in Seq(S), Part(q, list, T, i - 1),
           NEW r, r = IF list[i] \in T THEN Append(q, list[i]) ELSE q
    PROVE  Part(r, list, T, i)
<1>1. /\ i \in Nat /\ DOMAIN list = 1..Len(list) /\ Len(list) \in Nat /\ list[i] \in S
      /\ \A j \in 1..i : j \in 1..(i - 1) \/ j = i
      /\ \A j \in 1..(i - 1) : j \in 1..i /\ j \in DOMAIN list /\ j # i
      /\ i \in 1..i
    OBVIOUS
<1>2. CASE list[i] \notin T
    <2>1. r = q
        BY <1>2
    <2> QED BY <1>1, <1>2, <2>1 DEF Part
<1>3. CASE list[i] \in T
    <2>1. r = Append(q, list[i])
        BY <1>3
    <2>2. list[i] \notin Range(q)
        BY <1>1 DEF Part, IsInjective
    <2>e. PICK e \in S : e = list[i]
        BY <1>1
    <2>m. r = Append(q, e) /\ e \notin Range(q)
        BY <2>1, <2>2, <2>e
    <2>n. Range(r) = Range(q) \cup {e} /\ (IsInjective(q) /\ e \notin Range(q) => IsInjective(r))
        BY <2>m, AppendInjective2
    <2>3. Range(r) = Range(q) \cup {list[i]} /\ (IsInjective(q) => IsInjective(r))
        BY <2>n, <2>m, <2>e
    <2> QED BY <1>1, <1>3, <2>3 DEF Part
<1> QED BY <1>2, <1>3

\* The subscriptions of a list that are in T.
LEMMA TopicAmong ==
    ASSUME NEW S, NEW list \in Seq(S), IsInjective(list), NEW T
    PROVE  /\ Topic!Among(list, T) \in Seq(S) /\ IsInjective(Topic!Among(list, T))
           /\ Range(Topic!Among(list, T)) = Range(list) \cap T
<1> DEFINE len == Len(list)
<1>1. PICK f \in [0..Len(list) -> Seq(S)] : Kept(f, list, T) /\ Topic!Among(list, T) = f[Len(list)]
    BY TopicKept
<1>2. f \in [0..len -> Seq(S)] /\ f[0] = <<>> /\ \A i \in 1..len : f[i] = IF list[i] \in T THEN Append(f[i - 1], list[i]) ELSE f[i - 1]
    BY <1>1 DEF Kept
<1>3. len \in Nat /\ DOMAIN list = 1..len
    OBVIOUS
<1> DEFINE Bad == {m \in Nat : m <= len /\ ~Part(f[m], list, T, m)}
<1>4. ASSUME Bad # {} PROVE FALSE
    <2>1. Bad \subseteq Nat
        OBVIOUS
    <2> HIDE DEF Bad
    <2>2. PICK k \in Bad : \A m \in Bad : k <= m
        BY <1>4, <2>1, Least
    <2>3. k \in Nat /\ k <= len /\ ~Part(f[k], list, T, k)
        BY <2>2 DEF Bad
    <2>4. k # 0
        <3>1. Range(f[0]) = {} /\ IsInjective(f[0])
            BY <1>2 DEF Range, IsInjective
        <3>2. Part(f[0], list, T, 0)
            BY <3>1 DEF Part
        <3> QED BY <2>3, <3>2
    <2>5. k - 1 \in Nat /\ k - 1 <= len /\ k \in 1..len /\ ~(k <= k - 1) /\ k - 1 \in 0..len
        BY <2>3, <2>4, <1>3
    <2>6. Part(f[k - 1], list, T, k - 1)
        BY <2>2, <2>5 DEF Bad
    <2>7. f[k] = IF list[k] \in T THEN Append(f[k - 1], list[k]) ELSE f[k - 1]
        BY <2>5, <1>2
    <2>8. f[k - 1] \in Seq(S)
        BY <2>5, <1>2
    <2>9. Part(f[k], list, T, k)
        BY <2>5, <2>6, <2>7, <2>8, PartNext
    <2> QED BY <2>3, <2>9
<1>5. Part(f[len], list, T, len) /\ f[len] \in Seq(S)
    BY <1>2, <1>3, <1>4
<1>6. Range(f[len]) = Range(list) \cap T
    BY <1>3, <1>5 DEF Part, Range
<1> QED BY <1>1, <1>5, <1>6 DEF Part

\* The words of the module, in those of this one.
LEMMA TopicWords == \A f : Topic!Range(f) = Range(f) /\ (Topic!IsInjective(f) <=> IsInjective(f))
BY DEF Range, Topic!Range, IsInjective, Topic!IsInjective

\* The subscriptions, and what a Publish may be like.
Peers == Entries \ {AnEntry}
PublishRecord == [at : {"none", "send", "sent", "failed", "refused"}, left : Seq(Peers), all : SUBSET Peers]
SubscriptionRecord == [ctxDone : BOOLEAN, loop : {"none", "run", "exited"}]

\* The targets of Publish r are different, and at most one is in the group k.
Aimed(r, k) ==
    /\ IsInjective(r.left) /\ Range(r.left) \subseteq r.all
    /\ r.at = "none" => r.all = {}
    /\ r.at = "send" => r.left # <<>>
    /\ r.at = "sent" => r.left = <<>>
    /\ \A s, u \in k : s \in r.all /\ u \in r.all => s = u

\* Message m of Publish r has reached the targets that are not left; h and c are
\* what was handled and what is in the channels.
Reached(r, m, h, c) == \A s \in Peers : m \in Range(h[s] \o c[s]) <=> s \in r.all /\ s \notin Range(r.left)

\* What the invariant says.
LEMMA TopicNow ==
    ASSUME Topic!IInv
    PROVE  /\ competing \subseteq Peers /\ subs \in Seq(Peers) /\ rr \in Nat
           /\ pub \in [Keys -> PublishRecord]
           /\ ch \in [Peers -> Seq(Keys)] /\ handled \in [Peers -> Seq(Keys)]
           /\ subscription \in [Peers -> SubscriptionRecord]
           /\ \A s \in Peers : Len(ch[s]) <= Buffer
           /\ IsInjective(subs) /\ \A s \in Range(subs) : subscription[s].loop # "none"
           /\ \A m \in Keys : Aimed(pub[m], competing) /\ Reached(pub[m], m, handled, ch)
           /\ \A s \in Peers : IsInjective(handled[s] \o ch[s])
<1>1. Topic!TypeOK /\ Topic!SubsInv /\ Topic!TargetInv /\ Topic!OnceInv
    BY DEF Topic!IInv
<1>2. \A m \in Keys : Aimed(pub[m], competing)
    BY <1>1, TopicWords DEF Topic!TargetInv, Aimed
<1>3. \A m \in Keys : Reached(pub[m], m, handled, ch)
    BY <1>1, TopicWords DEF Topic!TargetInv, Topic!Holds, Reached, Peers
<1>4. \A s \in Peers : IsInjective(handled[s] \o ch[s])
    BY <1>1, TopicWords DEF Topic!OnceInv, Peers
<1>5. IsInjective(subs) /\ \A s \in Range(subs) : subscription[s].loop # "none"
    BY <1>1, TopicWords DEF Topic!SubsInv
<1> QED BY <1>1, <1>2, <1>3, <1>4, <1>5 DEF Topic!TypeOK, Peers, PublishRecord, SubscriptionRecord

\* What is to show of the next state.
LEMMA TopicNew ==
    ASSUME competing' \subseteq Peers, subs' \in Seq(Peers), rr' \in Nat, broker' \in {"open", "closed", "done"},
           pub' \in [Keys -> PublishRecord], ch' \in [Peers -> Seq(Keys)], handled' \in [Peers -> Seq(Keys)],
           subscription' \in [Peers -> SubscriptionRecord],
           \A s \in Peers : Len(ch'[s]) <= Buffer,
           IsInjective(subs'), \A s \in Range(subs') : subscription'[s].loop # "none",
           \A m \in Keys : Aimed(pub'[m], competing') /\ Reached(pub'[m], m, handled', ch'),
           \A s \in Peers : IsInjective(handled'[s] \o ch'[s])
    PROVE  Topic!IInv'
<1>1. Topic!TypeOK'
    BY DEF Topic!TypeOK, Peers, PublishRecord, SubscriptionRecord
<1>2. Topic!SubsInv'
    <2>1. Topic!Range(subs') = Range(subs') /\ Topic!IsInjective(subs')
        BY TopicWords
    <2> QED BY <2>1 DEF Topic!SubsInv
<1>3. Topic!TargetInv'
    <2>1. \A m \in Keys :
              /\ Topic!IsInjective(pub'[m].left) /\ Topic!Range(pub'[m].left) \subseteq pub'[m].all
              /\ pub'[m].at = "none" => pub'[m].all = {}
              /\ pub'[m].at = "send" => pub'[m].left # <<>>
              /\ pub'[m].at = "sent" => pub'[m].left = <<>>
              /\ \A s, r \in competing' \cap pub'[m].all : s = r
        BY TopicWords DEF Aimed
    <2>2. \A m \in Keys : \A s \in Entries \ {AnEntry} :
              m \in Topic!Range(handled'[s] \o ch'[s]) <=> s \in pub'[m].all \ Topic!Range(pub'[m].left)
        BY TopicWords DEF Reached, Peers
    <2> QED BY <2>1, <2>2 DEF Topic!TargetInv, Topic!Holds
<1>4. Topic!OnceInv'
    <2>1. \A s \in Entries \ {AnEntry} : Topic!IsInjective(handled'[s] \o ch'[s])
        BY TopicWords DEF Peers
    <2> QED BY <2>1 DEF Topic!OnceInv
<1> QED BY <1>1, <1>2, <1>3, <1>4 DEF Topic!IInv

\* Nothing is published at first.
LEMMA TopicInit == Topic!Init => Topic!IInv
<1> SUFFICES ASSUME Topic!Init PROVE Topic!IInv
    OBVIOUS
<1>1. /\ competing \subseteq Peers /\ subs = <<>> /\ rr = 0 /\ broker = "open"
      /\ pub = [m \in Keys |-> [at |-> "none", left |-> <<>>, all |-> {}]]
      /\ ch = [s \in Peers |-> <<>>] /\ handled = [s \in Peers |-> <<>>]
      /\ subscription = [s \in Peers |-> [ctxDone |-> FALSE, loop |-> "none"]]
    BY DEF Topic!Init, Peers
<1>2. /\ \A S : <<>> \in Seq(S)
      /\ Range(<<>>) = {} /\ IsInjective(<<>>) /\ <<>> \o <<>> = <<>>
      /\ Len(<<>>) = 0
    BY DEF Range, IsInjective
<1>3. /\ \A m \in Keys : pub[m].left = <<>> /\ pub[m].all = {} /\ pub[m].at = "none"
      /\ \A s \in Peers : handled[s] = <<>> /\ ch[s] = <<>> /\ handled[s] \o ch[s] = <<>>
    BY <1>1, <1>2
<1>4. Topic!TypeOK
    <2>1. FALSE \in BOOLEAN /\ Buffer \in Nat
        BY BoundsAssumption
    <2>2. pub \in [Keys -> PublishRecord] /\ subscription \in [Peers -> SubscriptionRecord]
        BY <1>1, <1>2, <2>1 DEF PublishRecord, SubscriptionRecord
    <2>3. \A s \in Peers : Len(ch[s]) <= Buffer
        BY <1>2, <1>3, <2>1
    <2>4. ch \in [Peers -> Seq(Keys)] /\ handled \in [Peers -> Seq(Keys)]
        BY <1>1, <1>2
    <2>5. subs \in Seq(Peers) /\ rr \in Nat /\ broker \in {"open", "closed", "done"}
        BY <1>1, <1>2
    <2> QED BY <1>1, <2>2, <2>3, <2>4, <2>5 DEF Topic!TypeOK, Peers, PublishRecord, SubscriptionRecord
<1>5. Topic!SubsInv
    BY <1>1, <1>2, TopicWords DEF Topic!SubsInv
<1>6. Topic!TargetInv
    <2>1. \A m \in Keys :
              /\ Topic!IsInjective(pub[m].left) /\ Topic!Range(pub[m].left) = {}
              /\ \A s \in Peers : Topic!Range(handled[s] \o ch[s]) = {}
        BY <1>2, <1>3, TopicWords
    <2> QED BY <2>1, <1>3 DEF Topic!TargetInv, Topic!Holds, Peers
<1>7. Topic!OnceInv
    BY <1>2, <1>3, TopicWords DEF Topic!OnceInv, Peers
<1> QED BY <1>4, <1>5, <1>6, <1>7 DEF Topic!IInv

\* Subscribing, leaving and closing change the list only.
LEMMA TopicSubscriptions ==
    ASSUME Topic!IInv,
           Topic!Close \/ \E s \in Peers : Topic!Subscribe(s) \/ Topic!CtxDone(s) \/ Topic!Unsubscribe(s)
    PROVE  Topic!IInv'
<1>1. UNCHANGED <<competing, rr, pub, ch, handled>>
    BY DEF Topic!Close, Topic!Subscribe, Topic!CtxDone, Topic!Unsubscribe
<1>2. subs \in Seq(Peers) /\ subscription \in [Peers -> SubscriptionRecord] /\ IsInjective(subs)
    BY TopicNow
<1>3. \A s \in Range(subs) : s \in Peers /\ subscription[s].loop # "none"
    <2>1. \A i \in DOMAIN subs : subs[i] \in Peers
        BY <1>2
    <2> QED BY <2>1, TopicNow DEF Range
<1> DEFINE Ok == /\ subs' \in Seq(Peers) /\ IsInjective(subs') /\ broker' \in {"open", "closed", "done"}
                 /\ subscription' \in [Peers -> SubscriptionRecord]
                 /\ \A s \in Range(subs') : subscription'[s].loop # "none"
<1>4. Ok
    <2>0. broker \in {"open", "closed", "done"}
        BY DEF Topic!IInv, Topic!TypeOK
    <2>1. CASE Topic!Close
        <3>1. subs' = <<>> \/ subs' = subs
            BY <2>1 DEF Topic!Close
        <3>2. subscription' = subscription /\ broker' \in {"closed", "done"}
            BY <2>1 DEF Topic!Close
        <3>3. <<>> \in Seq(Peers) /\ IsInjective(<<>>) /\ Range(<<>>) = {}
            BY DEF IsInjective, Range
        <3> QED BY <3>1, <3>2, <3>3, <1>2, <1>3
    <2>2. ASSUME NEW s \in Peers, Topic!Subscribe(s)
          PROVE  Ok
        <3>1. /\ subscription[s].loop = "none" /\ subs' = Append(subs, s) /\ broker' = broker
              /\ subscription' = [subscription EXCEPT ![s].loop = "run"]
            BY <2>2 DEF Topic!Subscribe
        <3>2. s \notin Range(subs)
            BY <3>1, <1>3
        <3>3. subs' \in Seq(Peers)
            BY <3>1, <1>2, AppendFacts
        <3>4. Range(subs') = Range(subs) \cup {s} /\ IsInjective(subs')
            <4>1. PICK q \in Seq(Peers) : q = subs /\ IsInjective(q) /\ s \notin Range(q)
                BY <3>2, <1>2
            <4>2. PICK t : t = Append(q, s)
                OBVIOUS
            <4>3. Range(t) = Range(q) \cup {s} /\ (IsInjective(q) /\ s \notin Range(q) => IsInjective(t))
                BY <4>2, AppendInjective2
            <4>4. t = subs'
                BY <3>1, <4>1, <4>2
            <4> QED BY <4>1, <4>3, <4>4
        <3>5. /\ subscription' \in [Peers -> SubscriptionRecord] /\ subscription'[s].loop = "run"
              /\ \A u \in Peers : u # s => subscription'[u] = subscription[u]
            BY <3>1, <1>2 DEF SubscriptionRecord
        <3> QED BY <3>1, <3>3, <3>4, <3>5, <1>3, <2>0
    <2>3. ASSUME NEW s \in Peers, Topic!CtxDone(s)
          PROVE  Ok
        <3>1. subs' = subs /\ broker' = broker /\ subscription' = [subscription EXCEPT ![s].ctxDone = TRUE]
            BY <2>3 DEF Topic!CtxDone
        <3>t. TRUE \in BOOLEAN
            OBVIOUS
        <3>2. /\ subscription' \in [Peers -> SubscriptionRecord]
              /\ \A u \in Peers : subscription'[u].loop = subscription[u].loop
            BY <3>1, <3>t, <1>2 DEF SubscriptionRecord
        <3> QED BY <3>1, <3>2, <1>2, <1>3, <2>0
    <2>4. ASSUME NEW s \in Peers, Topic!Unsubscribe(s)
          PROVE  Ok
        <3>1. s \in Range(subs) /\ subs' = Topic!Without(subs, s) /\ UNCHANGED <<broker, subscription>>
            BY <2>4, TopicWords DEF Topic!Unsubscribe
        <3>2. subs' = SubSeq(subs, 1, Place(subs, s) - 1) \o SubSeq(subs, Place(subs, s) + 1, Len(subs))
            BY <3>1, Zenon DEF Topic!Without, Place
        <3>3. subs' \in Seq(Peers) /\ Range(subs') = Range(subs) \ {s} /\ IsInjective(subs')
            BY <3>1, <3>2, <1>2, WithoutElement
        <3> QED BY <3>1, <3>3, <1>2, <1>3, <2>0
    <2> QED BY <2>1, <2>2, <2>3, <2>4
<1>5. \A m \in Keys : Aimed(pub'[m], competing') /\ Reached(pub'[m], m, handled', ch')
    BY <1>1, TopicNow
<1>6. \A s \in Peers : IsInjective(handled'[s] \o ch'[s]) /\ Len(ch'[s]) <= Buffer
    BY <1>1, TopicNow
<1>7. /\ competing' \subseteq Peers /\ rr' \in Nat /\ pub' \in [Keys -> PublishRecord]
      /\ ch' \in [Peers -> Seq(Keys)] /\ handled' \in [Peers -> Seq(Keys)]
    BY <1>1, TopicNow
<1> QED BY <1>4, <1>5, <1>6, <1>7, TopicNew

\* A sequence without repetitions, without its first element.
LEMMA TailElement ==
    ASSUME NEW S, NEW s \in Seq(S), s # <<>>, IsInjective(s), NEW t, t = Tail(s)
    PROVE  t \in Seq(S) /\ IsInjective(t) /\ Range(t) = Range(s) \ {Head(s)} /\ Head(s) \in Range(s)
<1>1. /\ t \in Seq(S) /\ Len(s) \in Nat \ {0} /\ Len(t) \in Nat /\ Len(s) = Len(t) + 1
      /\ DOMAIN s = 1..Len(s) /\ DOMAIN t = 1..Len(t)
      /\ \A i \in 1..Len(t) : t[i] = s[i + 1]
      /\ Head(s) = s[1]
    BY TailFacts
<1>2. Len(s) - 1 = Len(t) /\ 1 \in 1..Len(s)
    BY <1>1
<1>3. \A j \in 1..(Len(s) - 1) : t[j] = IF j < 1 THEN s[j] ELSE s[j + 1]
    BY <1>1, <1>2
<1>4. Skips(t, s, Len(s), 1)
    BY <1>1, <1>2, <1>3 DEF Skips
<1>5. Range(t) = Range(s) \ {s[1]} /\ IsInjective(t)
    BY <1>1, <1>2, <1>4, SkipsElement
<1>6. s[1] \in Range(s)
    BY <1>1, <1>2 DEF Range
<1> QED BY <1>1, <1>5, <1>6

\* Each subscription holds the same messages, in the same order.
Same(h, c, hNew, cNew) == \A s \in Peers : hNew[s] \o cNew[s] = h[s] \o c[s]

\* A delivery moves a message from the channel to what was handled.
LEMMA TopicDeliver ==
    ASSUME Topic!IInv, NEW s \in Peers, Topic!Deliver(s)
    PROVE  Topic!IInv'
<1>1. UNCHANGED <<competing, subs, rr, broker, pub>>
    BY DEF Topic!Deliver
<1>2. /\ ch \in [Peers -> Seq(Keys)] /\ handled \in [Peers -> Seq(Keys)]
      /\ subscription \in [Peers -> SubscriptionRecord]
      /\ \A u \in Peers : Len(ch[u]) <= Buffer
    BY TopicNow
<1> DEFINE Take == /\ ch[s] # <<>> /\ subscription' = subscription /\ ch' = [ch EXCEPT ![s] = Tail(ch[s])]
                   /\ handled' = [handled EXCEPT ![s] = Append(handled[s], Head(ch[s]))]
           Exit == subscription' = [subscription EXCEPT ![s].loop = "exited"] /\ ch' = ch /\ handled' = handled
           Ok == /\ ch' \in [Peers -> Seq(Keys)] /\ handled' \in [Peers -> Seq(Keys)]
                 /\ subscription' \in [Peers -> SubscriptionRecord]
                 /\ \A u \in Peers : subscription[u].loop # "none" => subscription'[u].loop # "none"
                 /\ \A u \in Peers : Len(ch'[u]) <= Buffer
                 /\ Same(handled, ch, handled', ch')
<1>d. Take \/ Exit
    BY DEF Topic!Deliver
<1>3. ASSUME Take PROVE Ok
    <2> DEFINE c == ch[s]
               h == handled[s]
    <2>1. c \in Seq(Keys) /\ h \in Seq(Keys) /\ c # <<>> /\ Len(c) <= Buffer /\ Buffer \in Nat
        BY <1>2, <1>3, BoundsAssumption
    <2> HIDE DEF c, h
    <2>2. Tail(c) \in Seq(Keys) /\ Len(c) = Len(Tail(c)) + 1 /\ Len(Tail(c)) \in Nat /\ Head(c) \in Keys
        BY <2>1, TailFacts
    <2>3. Append(h, Head(c)) \in Seq(Keys)
        BY <2>1, <2>2, AppendFacts
    <2>4. Append(h, Head(c)) \o Tail(c) = h \o c
        BY <2>1, ConcatShift
    <2>5. Len(Tail(c)) <= Buffer
        BY <2>1, <2>2
    <2>6. /\ ch'[s] = Tail(c) /\ handled'[s] = Append(h, Head(c))
          /\ \A u \in Peers : u # s => ch'[u] = ch[u] /\ handled'[u] = handled[u]
          /\ ch' \in [Peers -> Seq(Keys)] /\ handled' \in [Peers -> Seq(Keys)]
        BY <1>2, <1>3, <2>2, <2>3 DEF c, h
    <2>7. handled'[s] \o ch'[s] = handled[s] \o ch[s]
        BY <2>4, <2>6 DEF c, h
    <2>8. \A u \in Peers : Len(ch'[u]) <= Buffer
        BY <1>2, <2>5, <2>6
    <2>9. Same(handled, ch, handled', ch')
        BY <2>6, <2>7 DEF Same
    <2>10. subscription' = subscription
        BY <1>3
    <2>11. ch' \in [Peers -> Seq(Keys)] /\ handled' \in [Peers -> Seq(Keys)]
        BY <2>6
    <2> QED BY <2>8, <2>9, <2>10, <2>11, <1>2
<1>4. ASSUME Exit PROVE Ok
    <2>1. /\ subscription' \in [Peers -> SubscriptionRecord]
          /\ \A u \in Peers : subscription[u].loop # "none" => subscription'[u].loop # "none"
        BY <1>2, <1>4 DEF SubscriptionRecord
    <2>2. Same(handled, ch, handled', ch')
        BY <1>4 DEF Same
    <2> QED BY <2>1, <2>2, <1>2, <1>4
<1> HIDE DEF Take, Exit
<1>5. Ok
    BY <1>3, <1>4, <1>d
<1>6. \A m \in Keys : Aimed(pub'[m], competing') /\ Reached(pub'[m], m, handled', ch')
    <2>1. \A m \in Keys : Aimed(pub[m], competing) /\ Reached(pub[m], m, handled, ch)
        BY TopicNow
    <2>2. \A m \in Keys : Reached(pub[m], m, handled', ch')
        BY <2>1, <1>5 DEF Reached, Same
    <2> QED BY <2>1, <2>2, <1>1
<1>7. \A u \in Peers : IsInjective(handled'[u] \o ch'[u])
    BY <1>5, TopicNow DEF Same
<1>8. \A u \in Range(subs') : subscription'[u].loop # "none"
    <2>1. \A i \in DOMAIN subs : subs[i] \in Peers
        BY TopicNow
    <2>2. \A u \in Range(subs) : u \in Peers /\ subscription[u].loop # "none"
        BY <2>1, TopicNow DEF Range
    <2> QED BY <2>2, <1>1, <1>5
<1>9. /\ competing' \subseteq Peers /\ subs' \in Seq(Peers) /\ rr' \in Nat /\ IsInjective(subs')
      /\ broker' \in {"open", "closed", "done"} /\ pub' \in [Keys -> PublishRecord]
    <2>1. broker \in {"open", "closed", "done"}
        BY DEF Topic!IInv, Topic!TypeOK
    <2> QED BY <2>1, <1>1, TopicNow
<1> QED BY <1>5, <1>6, <1>7, <1>8, <1>9, TopicNew

\* A send gives the message to the first target that is left.
LEMMA TopicSend ==
    ASSUME Topic!IInv, NEW m \in Keys, Topic!Send(m)
    PROVE  Topic!IInv'
<1> DEFINE r == pub[m]
           s == Head(r.left)
<1>1. /\ r.at = "send" /\ Len(ch[s]) < Buffer /\ ch' = [ch EXCEPT ![s] = Append(@, m)]
      /\ pub' = [pub EXCEPT ![m].left = Tail(@),
                            ![m].at = IF Len(pub[m].left) = 1 THEN "sent" ELSE "send"]
      /\ UNCHANGED <<competing, subs, rr, broker, subscription, handled>>
    BY DEF Topic!Send
<1>2. /\ ch \in [Peers -> Seq(Keys)] /\ handled \in [Peers -> Seq(Keys)] /\ pub \in [Keys -> PublishRecord]
      /\ \A u \in Peers : Len(ch[u]) <= Buffer
    BY TopicNow
<1>3. Aimed(r, competing) /\ Reached(r, m, handled, ch) /\ r \in PublishRecord
    BY TopicNow
<1> HIDE DEF r
<1>4. r.left \in Seq(Peers) /\ r.left # <<>> /\ IsInjective(r.left)
    BY <1>1, <1>3 DEF Aimed, PublishRecord
<1>5. /\ Tail(r.left) \in Seq(Peers) /\ IsInjective(Tail(r.left))
      /\ Range(Tail(r.left)) = Range(r.left) \ {s} /\ s \in Range(r.left)
    BY <1>4, TailElement
<1>6. Len(r.left) = Len(Tail(r.left)) + 1 /\ Len(Tail(r.left)) \in Nat /\ s \in Peers
    BY <1>4, TailFacts
<1>7. PICK p \in {"sent", "send"} : p = IF Len(r.left) = 1 THEN "sent" ELSE "send"
    OBVIOUS
<1>8. p = "sent" <=> Tail(r.left) = <<>>
    <2>1. PICK t \in Seq(Peers) : t = Tail(r.left)
        BY <1>5
    <2>2. t = <<>> <=> Len(t) = 0
        OBVIOUS
    <2>3. Len(r.left) = 1 <=> Len(t) = 0
        BY <2>1, <1>6
    <2> QED BY <2>1, <2>2, <2>3, <1>7
<1> DEFINE n == pub'[m]
<1>9. /\ n \in PublishRecord /\ n.left = Tail(r.left) /\ n.at = p /\ n.all = r.all
      /\ \A k \in Keys : k # m => pub'[k] = pub[k]
      /\ pub' \in [Keys -> PublishRecord]
    <2>1. pub' = [pub EXCEPT ![m].left = Tail(r.left), ![m].at = p]
        BY <1>1, <1>7 DEF r
    <2>2. p \in {"none", "send", "sent", "failed", "refused"}
        OBVIOUS
    <2>3. /\ pub' \in [Keys -> PublishRecord]
          /\ pub'[m].left = Tail(r.left) /\ pub'[m].at = p /\ pub'[m].all = pub[m].all
          /\ \A k \in Keys : k # m => pub'[k] = pub[k]
        <3>1. PICK l \in Seq(Peers) : l = Tail(r.left)
            BY <1>5
        <3>2. pub' = [pub EXCEPT ![m].left = l, ![m].at = p]
            BY <2>1, <3>1
        <3>3. pub \in [Keys -> PublishRecord]
            BY <1>2
        <3>4. /\ pub' \in [Keys -> PublishRecord] /\ pub'[m].left = l /\ pub'[m].at = p /\ pub'[m].all = pub[m].all
              /\ \A k \in Keys : k # m => pub'[k] = pub[k]
            BY <2>2, <3>2, <3>3 DEF PublishRecord
        <3> QED BY <3>1, <3>4
    <2> QED BY <2>3 DEF r
<1> HIDE DEF n, s
<1>10. Aimed(n, competing)
    BY <1>3, <1>5, <1>8, <1>9 DEF Aimed
<1>11. /\ ch' \in [Peers -> Seq(Keys)] /\ ch'[s] = Append(ch[s], m)
       /\ \A u \in Peers : u # s => ch'[u] = ch[u]
    <2>1. Append(ch[s], m) \in Seq(Keys)
        BY <1>2, <1>6, AppendFacts
    <2> QED BY <2>1, <1>1, <1>2, <1>6
<1>12. \A u \in Peers : Len(ch'[u]) <= Buffer
    <2>1. PICK c \in Seq(Keys) : c = ch[s]
        BY <1>2, <1>6
    <2>2. Len(Append(c, m)) = Len(c) + 1 /\ Len(c) \in Nat
        BY AppendFacts
    <2>3. Len(c) < Buffer /\ Buffer \in Nat
        BY <2>1, <1>1, BoundsAssumption
    <2>4. Len(Append(c, m)) <= Buffer
        BY <2>2, <2>3
    <2> QED BY <2>1, <2>4, <1>2, <1>11
<1> DEFINE old == handled[s] \o ch[s]
           new == handled'[s] \o ch'[s]
<1>13. new = Append(old, m) /\ old \in Seq(Keys)
    <2>1. handled[s] \in Seq(Keys) /\ ch[s] \in Seq(Keys)
        BY <1>2, <1>6
    <2>h. PICK h \in Seq(Keys), c \in Seq(Keys) : h = handled[s] /\ c = ch[s]
        BY <2>1
    <2>c. h \o Append(c, m) = Append(h \o c, m)
        BY ConcatOne
    <2>2. handled[s] \o Append(ch[s], m) = Append(old, m)
        BY <2>h, <2>c
    <2>3. old \in Seq(Keys)
        BY <2>1, ConcatFacts
    <2>4. handled'[s] = handled[s]
        BY <1>1
    <2> QED BY <2>2, <2>3, <2>4, <1>11
<1>14. m \notin Range(old) /\ IsInjective(old)
    BY <1>3, <1>5, <1>6, TopicNow DEF Reached
<1> HIDE DEF old, new
<1>15. Range(new) = Range(old) \cup {m} /\ IsInjective(new)
    BY <1>13, <1>14, AppendInjective2
<1>16. \A u \in Peers : u # s => handled'[u] \o ch'[u] = handled[u] \o ch[u]
    BY <1>1, <1>11
<1>17. Reached(n, m, handled', ch')
    <2> SUFFICES ASSUME NEW u \in Peers
                 PROVE  m \in Range(handled'[u] \o ch'[u]) <=> u \in n.all /\ u \notin Range(n.left)
        BY DEF Reached
    <2>1. CASE u = s
        <3>1. m \in Range(new) /\ s \in r.all
            BY <1>3, <1>5, <1>15 DEF Aimed
        <3> QED BY <2>1, <3>1, <1>5, <1>9 DEF new
    <2>2. CASE u # s
        <3>1. m \in Range(handled[u] \o ch[u]) <=> u \in r.all /\ u \notin Range(r.left)
            BY <1>3 DEF Reached
        <3> QED BY <2>2, <3>1, <1>5, <1>9, <1>16
    <2> QED BY <2>1, <2>2
<1>18. \A k \in Keys : k # m => Aimed(pub'[k], competing) /\ Reached(pub'[k], k, handled', ch')
    <2> SUFFICES ASSUME NEW k \in Keys, k # m PROVE Aimed(pub'[k], competing) /\ Reached(pub'[k], k, handled', ch')
        OBVIOUS
    <2>1. pub'[k] = pub[k] /\ Aimed(pub[k], competing) /\ Reached(pub[k], k, handled, ch)
        BY <1>9, TopicNow
    <2>2. k \in Range(new) <=> k \in Range(old)
        BY <1>15
    <2>3. ASSUME NEW u \in Peers
          PROVE  k \in Range(handled'[u] \o ch'[u]) <=> k \in Range(handled[u] \o ch[u])
        BY <2>2, <1>16 DEF new, old
    <2>4. Reached(pub[k], k, handled', ch')
        BY <2>1, <2>3 DEF Reached
    <2> QED BY <2>1, <2>4
<1>19. \A u \in Peers : IsInjective(handled'[u] \o ch'[u])
    BY <1>15, <1>16, TopicNow DEF new
<1>20. /\ competing' \subseteq Peers /\ subs' \in Seq(Peers) /\ rr' \in Nat /\ IsInjective(subs')
       /\ broker' \in {"open", "closed", "done"} /\ handled' \in [Peers -> Seq(Keys)]
       /\ subscription' \in [Peers -> SubscriptionRecord]
       /\ \A u \in Range(subs') : subscription'[u].loop # "none"
    <2>1. broker \in {"open", "closed", "done"}
        BY DEF Topic!IInv, Topic!TypeOK
    <2> QED BY <2>1, <1>1, TopicNow
<1>21. \A k \in Keys : Aimed(pub'[k], competing') /\ Reached(pub'[k], k, handled', ch')
    BY <1>1, <1>10, <1>17, <1>18 DEF n
<1> QED BY <1>9, <1>11, <1>12, <1>19, <1>20, <1>21, TopicNew

\* A Publish that gives up keeps what it reached.
LEMMA TopicGiveUp ==
    ASSUME Topic!IInv, NEW m \in Keys, Topic!GiveUp(m)
    PROVE  Topic!IInv'
<1>1. /\ pub' = [pub EXCEPT ![m].at = "failed"]
      /\ UNCHANGED <<competing, subs, rr, broker, ch, subscription, handled>>
    BY DEF Topic!GiveUp
<1>2. pub \in [Keys -> PublishRecord]
    BY TopicNow
<1>3. /\ pub' \in [Keys -> PublishRecord]
      /\ \A k \in Keys : /\ pub'[k].left = pub[k].left /\ pub'[k].all = pub[k].all
                         /\ pub'[k].at = pub[k].at \/ pub'[k].at = "failed"
    BY <1>1, <1>2 DEF PublishRecord
<1>4. \A k \in Keys : Aimed(pub'[k], competing') /\ Reached(pub'[k], k, handled', ch')
    <2> SUFFICES ASSUME NEW k \in Keys PROVE Aimed(pub'[k], competing') /\ Reached(pub'[k], k, handled', ch')
        OBVIOUS
    <2>1. Aimed(pub[k], competing) /\ Reached(pub[k], k, handled, ch)
        BY TopicNow
    <2>2. Aimed(pub'[k], competing)
        BY <2>1, <1>3 DEF Aimed
    <2>3. Reached(pub'[k], k, handled, ch)
        BY <2>1, <1>3 DEF Reached
    <2> QED BY <2>2, <2>3, <1>1
<1>5. /\ competing' \subseteq Peers /\ subs' \in Seq(Peers) /\ rr' \in Nat /\ IsInjective(subs')
      /\ broker' \in {"open", "closed", "done"} /\ handled' \in [Peers -> Seq(Keys)]
      /\ ch' \in [Peers -> Seq(Keys)] /\ subscription' \in [Peers -> SubscriptionRecord]
      /\ \A u \in Range(subs') : subscription'[u].loop # "none"
    <2>1. broker \in {"open", "closed", "done"}
        BY DEF Topic!IInv, Topic!TypeOK
    <2> QED BY <2>1, <1>1, TopicNow
<1>6. \A s \in Peers : IsInjective(handled'[s] \o ch'[s]) /\ Len(ch'[s]) <= Buffer
    BY <1>1, TopicNow
<1> QED BY <1>3, <1>4, <1>5, <1>6, TopicNew

\* The targets of a Publish: all that do not compete, and one that does.
LEMMA TopicTargets ==
    ASSUME competing \subseteq Peers, subs \in Seq(Peers), IsInjective(subs), rr \in Nat,
           NEW rivals, rivals = Topic!Among(subs, competing)
    PROVE  /\ Topic!Targets(rivals) \in Seq(Peers) /\ IsInjective(Topic!Targets(rivals))
           /\ \A s, u \in competing : s \in Range(Topic!Targets(rivals)) /\ u \in Range(Topic!Targets(rivals)) => s = u
<1> DEFINE all == Topic!Among(subs, Peers \ competing)
<1>1. all \in Seq(Peers) /\ IsInjective(all) /\ Range(all) = Range(subs) \cap (Peers \ competing)
    BY TopicAmong
<1>2. rivals \in Seq(Peers) /\ Range(rivals) = Range(subs) \cap competing
    BY TopicAmong
<1>3. Topic!Targets(rivals) = all \o (IF rivals = <<>> THEN <<>> ELSE <<rivals[(rr % Len(rivals)) + 1]>>)
    BY DEF Topic!Targets, Peers
<1> HIDE DEF all
<1>4. CASE rivals = <<>>
    <2>1. all \o <<>> = all
        BY <1>1, ConcatEmptySeq
    <2> QED BY <2>1, <1>1, <1>3, <1>4
<1>5. CASE rivals # <<>>
    <2>1. Len(rivals) \in Nat \ {0} /\ DOMAIN rivals = 1..Len(rivals)
        BY <1>2, <1>5
    <2>2. rr % Len(rivals) \in 0..(Len(rivals) - 1)
        BY <2>1
    <2>3. (rr % Len(rivals)) + 1 \in DOMAIN rivals
        BY <2>1, <2>2
    <2>4. PICK x \in Peers : x = rivals[(rr % Len(rivals)) + 1] /\ x \in competing
        <3>1. rivals[(rr % Len(rivals)) + 1] \in Range(rivals)
            BY <2>3 DEF Range
        <3> QED BY <3>1, <1>2
    <2>5. all \o <<x>> = Append(all, x)
        BY <1>1
    <2>6. Topic!Targets(rivals) = Append(all, x)
        BY <1>3, <1>5, <2>4, <2>5
    <2>7. x \notin Range(all)
        BY <1>1, <2>4
    <2>8. Append(all, x) \in Seq(Peers)
        BY <1>1, AppendFacts
    <2>9. Range(Append(all, x)) = Range(all) \cup {x} /\ IsInjective(Append(all, x))
        <3>1. PICK a \in Seq(Peers) : a = all /\ IsInjective(a) /\ x \notin Range(a)
            BY <1>1, <2>7
        <3>2. PICK t : t = Append(a, x)
            OBVIOUS
        <3>3. Range(t) = Range(a) \cup {x} /\ (IsInjective(a) /\ x \notin Range(a) => IsInjective(t))
            BY <3>2, AppendInjective2
        <3> QED BY <3>1, <3>2, <3>3
    <2> QED BY <1>1, <2>6, <2>8, <2>9
<1> QED BY <1>4, <1>5

\* A Publish chooses its targets, and nobody holds the message yet.
LEMMA TopicPublish ==
    ASSUME Topic!IInv, NEW m \in Keys, Topic!Publish(m)
    PROVE  Topic!IInv'
<1> DEFINE rivals == Topic!Among(subs, competing)
           targets == Topic!Targets(rivals)
<1>1. pub[m].at = "none" /\ UNCHANGED <<competing, subs, broker, ch, subscription, handled>>
    BY DEF Topic!Publish
<1>2. /\ pub \in [Keys -> PublishRecord] /\ competing \subseteq Peers /\ subs \in Seq(Peers)
      /\ IsInjective(subs) /\ rr \in Nat /\ Aimed(pub[m], competing) /\ Reached(pub[m], m, handled, ch)
    BY TopicNow
<1>3. /\ targets \in Seq(Peers) /\ IsInjective(targets)
      /\ \A s, u \in competing : s \in Range(targets) /\ u \in Range(targets) => s = u
    BY <1>2, TopicTargets
<1>4. Range(targets) \subseteq Peers
    <2>1. \A i \in DOMAIN targets : targets[i] \in Peers
        BY <1>3
    <2> QED BY <2>1 DEF Range
<1> HIDE DEF rivals
<1> DEFINE r == [at |-> IF targets = <<>> THEN "sent" ELSE "send", left |-> targets, all |-> Range(targets)]
<1>5. \/ pub' = [pub EXCEPT ![m].at = "refused"] /\ rr' = rr
      \/ /\ pub' = [pub EXCEPT ![m] = r]
         /\ rr' = IF rivals = <<>> THEN rr ELSE (rr + 1) % 1073741824
    BY TopicWords DEF Topic!Publish, Topic!RoundRobin, rivals
<1>6. rr' \in Nat
    <2>1. (rr + 1) % 1073741824 \in Nat
        BY <1>2
    <2> QED BY <2>1, <1>2, <1>5
<1>7. \A s \in Peers : m \notin Range(handled[s] \o ch[s])
    BY <1>1, <1>2 DEF Aimed, Reached
<1> HIDE DEF targets
<1> DEFINE Ok == /\ pub' \in [Keys -> PublishRecord]
                 /\ Aimed(pub'[m], competing) /\ Reached(pub'[m], m, handled, ch)
                 /\ \A k \in Keys : k # m => pub'[k] = pub[k]
<1>8. ASSUME pub' = [pub EXCEPT ![m].at = "refused"] PROVE Ok
    <2>1. /\ pub' \in [Keys -> PublishRecord] /\ pub'[m].left = pub[m].left /\ pub'[m].all = pub[m].all
          /\ pub'[m].at = "refused" /\ \A k \in Keys : k # m => pub'[k] = pub[k]
        BY <1>2, <1>8 DEF PublishRecord
    <2>2. Aimed(pub'[m], competing)
        BY <2>1, <1>2 DEF Aimed
    <2>3. Reached(pub'[m], m, handled, ch)
        BY <2>1, <1>2 DEF Reached
    <2> QED BY <2>1, <2>2, <2>3
<1>9. ASSUME pub' = [pub EXCEPT ![m] = r] PROVE Ok
    <2>1. r \in PublishRecord
        BY <1>3, <1>4 DEF PublishRecord
    <2>2. Aimed(r, competing)
        BY <1>3 DEF Aimed
    <2>3. Reached(r, m, handled, ch)
        BY <1>7 DEF Reached
    <2> HIDE DEF r
    <2>4. pub' \in [Keys -> PublishRecord] /\ pub'[m] = r /\ \A k \in Keys : k # m => pub'[k] = pub[k]
        BY <2>1, <1>2, <1>9
    <2> QED BY <2>2, <2>3, <2>4
<1>10. Ok
    BY <1>5, <1>8, <1>9
<1>11. \A k \in Keys : Aimed(pub'[k], competing') /\ Reached(pub'[k], k, handled', ch')
    <2> SUFFICES ASSUME NEW k \in Keys PROVE Aimed(pub'[k], competing) /\ Reached(pub'[k], k, handled, ch)
        BY <1>1
    <2>1. CASE k = m
        BY <2>1, <1>10
    <2>2. CASE k # m
        BY <2>2, <1>10, TopicNow
    <2> QED BY <2>1, <2>2
<1>12. /\ competing' \subseteq Peers /\ subs' \in Seq(Peers) /\ IsInjective(subs')
       /\ broker' \in {"open", "closed", "done"} /\ handled' \in [Peers -> Seq(Keys)]
       /\ ch' \in [Peers -> Seq(Keys)] /\ subscription' \in [Peers -> SubscriptionRecord]
       /\ \A u \in Range(subs') : subscription'[u].loop # "none"
    <2>1. broker \in {"open", "closed", "done"}
        BY DEF Topic!IInv, Topic!TypeOK
    <2> QED BY <2>1, <1>1, TopicNow
<1>13. \A s \in Peers : IsInjective(handled'[s] \o ch'[s]) /\ Len(ch'[s]) <= Buffer
    BY <1>1, TopicNow
<1> QED BY <1>6, <1>10, <1>11, <1>12, <1>13, TopicNew

\* inproc.go:9-12: each target of a message is served once.
LEMMA TopicInvariant == MCSpec => []Topic!IInv
<1>1. MCInit => Topic!IInv
    BY TopicInit DEF MCInit
<1>2. Topic!IInv /\ [MCNext]_mcVars => Topic!IInv'
    <2> SUFFICES ASSUME Topic!IInv, [MCNext]_mcVars PROVE Topic!IInv'
        OBVIOUS
    <2>1. Topic!Next \/ UNCHANGED topicVars
        BY DEF MCNext, Only, mcVars
    <2>2. CASE UNCHANGED topicVars
        BY <2>2 DEF topicVars, Topic!IInv, Topic!TypeOK, Topic!SubsInv, Topic!TargetInv, Topic!OnceInv, Topic!Holds
    <2>3. CASE Topic!Next
        BY <2>3, TopicSubscriptions, TopicDeliver, TopicSend, TopicGiveUp, TopicPublish DEF Topic!Next, Peers
    <2> QED BY <2>1, <2>2, <2>3
<1> QED BY <1>1, <1>2, PTL DEF MCSpec

\* inproc.go:9-12: a message reaches at most one of a group and nobody twice, and
\* a Publish that returned no error reached everybody it had chosen.
LEMMA TopicFan == Topic!IInv => Topic!FanOutOrCompete
<1> SUFFICES ASSUME Topic!IInv PROVE Topic!FanOutOrCompete
    OBVIOUS
<1>1. \A m \in Keys : Aimed(pub[m], competing) /\ Reached(pub[m], m, handled, ch)
    BY TopicNow
<1>2. \A m \in Keys : \A s \in Peers : Topic!Holds(s, m) <=> s \in pub[m].all /\ s \notin Range(pub[m].left)
    BY <1>1, TopicWords DEF Reached, Topic!Holds
<1>3. competing \subseteq Peers /\ \A m \in Keys : pub[m].all \subseteq Peers
    BY TopicNow DEF PublishRecord
<1>4. \A m \in Keys : \A s, r \in competing : Topic!Holds(s, m) /\ Topic!Holds(r, m) => s = r
    BY <1>1, <1>2, <1>3 DEF Aimed
<1>5. \A s \in Peers : Topic!IsInjective(handled[s] \o ch[s])
    BY TopicNow, TopicWords
<1>6. \A m \in Keys : pub[m].at = "sent" => \A s \in pub[m].all : Topic!Holds(s, m)
    <2>1. Range(<<>>) = {}
        BY DEF Range
    <2> QED BY <2>1, <1>1, <1>2, <1>3 DEF Aimed
<1> QED BY <1>4, <1>5, <1>6 DEF Topic!FanOutOrCompete, Peers

-----------------------------------------------------------------------------
(* Batch *)

\* The messages and the timers are finitely many.
LEMMA BatchesFinite ==
    /\ IsFiniteSet(Threads \cup {None}) /\ Cardinality(Threads \cup {None}) \in Nat
    /\ Batches!Timers = 1..Cardinality(Threads \cup {None})
    /\ \A f : Batches!Range(f) = Range(f) /\ (Batches!IsInjective(f) <=> IsInjective(f))
<1>1. IsFiniteSet(Threads \cup {None})
    BY ConstantsAssumption, FS_AddElement
<1>2. \A S : Batches!Cardinality(S) = Cardinality(S)
    BY DEF Cardinality, Batches!Cardinality
<1>3. Batches!Timers = 1..Cardinality(Threads \cup {None})
    BY <1>2 DEF Batches!Timers
<1>4. \A f : Batches!Range(f) = Range(f) /\ (Batches!IsInjective(f) <=> IsInjective(f))
    BY DEF Range, Batches!Range, IsInjective, Batches!IsInjective
<1> QED BY <1>1, <1>3, <1>4, FS_CardinalityType

\* The alarms that were ever set are the first k.
BatchAlarms(a, k) == a \in [Batches!Timers -> {"none", "armed", "begun", "over"}]
                     /\ \A i \in Batches!Timers : a[i] # "none" <=> i <= k

\* What there is to show about a step that begins with all (flushed and waiting)
\* and ends with new.
LEMMA BatchesNew ==
    ASSUME batchBuf' \in Seq(Threads \cup {None}), batchFlushed' \in Seq(Threads \cup {None}),
           batchTimer' \in Batches!Timers \cup {0},
           batchBuf' # <<>> <=> batchTimer' # 0,
           batchTimer' # 0 => alarm'[batchTimer'] \in {"armed", "begun"},
           Len(batchBuf') < Size, IsInjective(batchFlushed' \o batchBuf'),
           NEW k \in 0..Len(batchFlushed' \o batchBuf'), BatchAlarms(alarm', k)
    PROVE  Batches!IInv'
<1>1. Batches!TypeOK'
    BY DEF BatchAlarms, Batches!TypeOK
<1>2. Batches!TimerInv'
    BY DEF BatchAlarms, Batches!TimerInv
<1>3. Batches!WaitingHasTimer'
    BY BatchesFinite DEF Batches!WaitingHasTimer
<1> QED BY <1>1, <1>2, <1>3 DEF Batches!IInv

\* Nothing waits at first.
LEMMA BatchesInit == Batches!Init => Batches!IInv
<1> SUFFICES ASSUME Batches!Init PROVE Batches!IInv
    OBVIOUS
<1>1. <<>> \in Seq(Threads \cup {None})
    BY EmptySeq, Zenon
<1>2. batchFlushed \o batchBuf = <<>>
    BY DEF Batches!Init
<1>3. Len(<<>>) = 0 /\ IsInjective(<<>>)
    BY DEF IsInjective
<1>4. Batches!TypeOK
    BY <1>1 DEF Batches!Init, Batches!TypeOK
<1>5. Batches!TimerInv
    <2>1. 0 \in 0..Len(batchFlushed \o batchBuf)
        BY <1>2, <1>3
    <2>2. \A i \in Batches!Timers : alarm[i] # "none" <=> i <= 0
        BY BatchesFinite DEF Batches!Init
    <2> QED BY <2>1, <2>2 DEF Batches!TimerInv, Batches!Init
<1>6. Batches!WaitingHasTimer
    BY <1>2, <1>3, BatchesFinite, BoundsAssumption DEF Batches!Init, Batches!WaitingHasTimer
<1> QED BY <1>4, <1>5, <1>6 DEF Batches!IInv

\* What the invariant says.
LEMMA BatchesNow ==
    ASSUME Batches!IInv
    PROVE  /\ batchBuf \in Seq(Threads \cup {None}) /\ batchFlushed \in Seq(Threads \cup {None})
           /\ batchFlushed \o batchBuf \in Seq(Threads \cup {None})
           /\ Len(batchFlushed \o batchBuf) \in Nat
           /\ batchTimer \in Batches!Timers \cup {0}
           /\ batchBuf # <<>> <=> batchTimer # 0
           /\ batchTimer # 0 => alarm[batchTimer] \in {"armed", "begun"}
           /\ Len(batchBuf) < Size /\ IsInjective(batchFlushed \o batchBuf)
           /\ \E k \in 0..Len(batchFlushed \o batchBuf) : BatchAlarms(alarm, k)
<1>1. batchBuf \in Seq(Threads \cup {None}) /\ batchFlushed \in Seq(Threads \cup {None})
    BY DEF Batches!IInv, Batches!TypeOK
<1>2. batchFlushed \o batchBuf \in Seq(Threads \cup {None})
    BY <1>1, ConcatProperties
<1>3. Len(batchFlushed \o batchBuf) \in Nat
    BY <1>2, LenProperties
<1>4. \E k \in 0..Len(batchFlushed \o batchBuf) : BatchAlarms(alarm, k)
    BY DEF Batches!IInv, Batches!TimerInv, Batches!TypeOK, BatchAlarms
<1> QED BY <1>1, <1>2, <1>3, <1>4, BatchesFinite
        DEF Batches!IInv, Batches!TypeOK, Batches!TimerInv, Batches!WaitingHasTimer

\* A drain leaves nothing that would need a timer.
LEMMA BatchesDrain ==
    ASSUME NEW batch \in Seq(Threads \cup {None}), NEW alarms, Batches!Drain(batch, alarms),
           batchFlushed \in Seq(Threads \cup {None}), batchTimer \in Batches!Timers \cup {0},
           IsInjective(batchFlushed \o batch),
           NEW k \in 0..Len(batchFlushed \o batch), BatchAlarms(alarms, k)
    PROVE  Batches!IInv'
<1>1. /\ batchFlushed' = batchFlushed \o batch /\ batchBuf' = <<>> /\ batchTimer' = 0
      /\ alarm' = IF batchTimer # 0 /\ alarms[batchTimer] = "armed"
                  THEN [alarms EXCEPT ![batchTimer] = "over"] ELSE alarms
    BY DEF Batches!Drain
<1>2. batchFlushed' \in Seq(Threads \cup {None}) /\ <<>> \in Seq(Threads \cup {None})
    <2>1. batchFlushed \o batch \in Seq(Threads \cup {None})
        BY ConcatProperties
    <2> QED BY <2>1, <1>1, EmptySeq, Zenon
<1>3. batchFlushed' \o batchBuf' = batchFlushed \o batch
    BY <1>1, <1>2, ConcatEmptySeq
<1>4. BatchAlarms(alarm', k)
    BY <1>1 DEF BatchAlarms
<1>5. Len(batchBuf') < Size
    BY <1>1, BoundsAssumption
<1> QED BY <1>1, <1>2, <1>3, <1>4, <1>5, BatchesNew

\* A message waits behind a timer, or completes a batch.
LEMMA BatchesHandle ==
    ASSUME Batches!IInv, NEW m \in Threads \cup {None}, Batches!Handle(m)
    PROVE  Batches!IInv'
<1> DEFINE M == Threads \cup {None}
           all == batchFlushed \o batchBuf
           more == Append(batchBuf, m)
<1>1. /\ batchBuf \in Seq(M) /\ batchFlushed \in Seq(M) /\ all \in Seq(M) /\ Len(all) \in Nat
      /\ batchTimer \in Batches!Timers \cup {0}
      /\ batchBuf # <<>> <=> batchTimer # 0
      /\ batchTimer # 0 => alarm[batchTimer] \in {"armed", "begun"}
      /\ IsInjective(all)
    BY BatchesNow
<1>2. PICK k \in 0..Len(all) : BatchAlarms(alarm, k)
    BY BatchesNow
<1>3. m \notin Range(all)
    BY BatchesFinite DEF Batches!Handle
<1>4. batchFlushed \o more = Append(all, m)
    BY <1>1, ConcatOne
<1>5. more \in Seq(M) /\ more # <<>>
    BY <1>1
<1> HIDE DEF M, all, more
<1>6. /\ Len(Append(all, m)) = Len(all) + 1
      /\ IsInjective(Append(all, m))
    <2>1. m \in M
        BY DEF M
    <2>2. Len(Append(all, m)) = Len(all) + 1
        BY <2>1, <1>1, AppendFacts
    <2>3. IsInjective(Append(all, m))
        BY <2>1, <1>1, <1>3, AppendInjective2
    <2> QED BY <2>2, <2>3
<1>7. k \in 0..Len(Append(all, m)) /\ k + 1 \in 0..Len(Append(all, m))
    BY <1>1, <1>2, <1>6
<1>8. IsInjective(batchFlushed \o more) /\ k \in 0..Len(batchFlushed \o more) /\ k + 1 \in 0..Len(batchFlushed \o more)
    BY <1>4, <1>6, <1>7, Zenon
<1>9. CASE Batches!Drain(more, alarm)
    BY <1>9, <1>1, <1>2, <1>5, <1>8, BatchesDrain DEF M
<1>10. CASE Len(more) < Size /\ batchBuf' = more /\ batchTimer # 0 /\ UNCHANGED <<batchTimer, alarm, batchFlushed>>
    <2>1. batchFlushed' \o batchBuf' = batchFlushed \o more
        BY <1>10
    <2> QED BY <2>1, <1>10, <1>1, <1>2, <1>5, <1>8, BatchesNew DEF M
<1>11. CASE /\ Len(more) < Size /\ batchBuf' = more /\ batchTimer = 0 /\ UNCHANGED batchFlushed
            /\ batchTimer' = CHOOSE i \in Batches!Timers : alarm[i] = "none" /\ \A j \in Batches!Timers : j < i => alarm[j] # "none"
            /\ alarm' = [alarm EXCEPT ![batchTimer'] = "armed"]
    <2>1. batchFlushed' \o batchBuf' = batchFlushed \o more
        BY <1>11
    <2>2. Len(all) < Cardinality(M)
        <3>1. m \in M \ Range(all) /\ IsFiniteSet(M)
            BY <1>3, BatchesFinite DEF M
        <3> QED BY <3>1, <1>1, InjectiveFits
    <2>3. k + 1 \in Batches!Timers
        BY <2>2, <1>1, <1>2, BatchesFinite DEF M
    <2>4. alarm[k + 1] = "none" /\ \A j \in Batches!Timers : j < k + 1 => alarm[j] # "none"
        <3>1. ~(k + 1 <= k)
            BY <1>1, <1>2
        <3>2. \A j \in Batches!Timers : j < k + 1 => j <= k
            BY <1>1, <1>2, BatchesFinite
        <3> QED BY <3>1, <3>2, <2>3, <1>2, Zenon DEF BatchAlarms
    <2> DEFINE c == CHOOSE i \in Batches!Timers : alarm[i] = "none" /\ \A j \in Batches!Timers : j < i => alarm[j] # "none"
    <2>5. c \in Batches!Timers /\ alarm[c] = "none" /\ \A j \in Batches!Timers : j < c => alarm[j] # "none"
        BY <2>3, <2>4, Zenon
    <2>6. batchTimer' = c
        BY <1>11
    <2> HIDE DEF c
    <2>7. c = k + 1
        <3>1. c \in Nat /\ k + 1 \in Nat
            BY <2>3, <2>5, BatchesFinite
        <3>2. ~(c < k + 1) /\ ~(k + 1 < c)
            BY <2>3, <2>4, <2>5
        <3> QED BY <3>1, <3>2
    <2>8. alarm' = [alarm EXCEPT ![k + 1] = "armed"] /\ batchTimer' = k + 1
        BY <2>6, <2>7, <1>11
    <2>9. BatchAlarms(alarm', k + 1) /\ alarm'[k + 1] = "armed"
        <3>1. \A i \in Batches!Timers : i <= k + 1 <=> i <= k \/ i = k + 1
            BY <1>2, <1>1, BatchesFinite
        <3> QED BY <3>1, <2>3, <2>8, <1>2 DEF BatchAlarms
    <2>10. k + 1 # 0
        BY <1>1, <1>2
    <2> QED BY <2>1, <2>3, <2>8, <2>9, <2>10, <1>1, <1>5, <1>8, <1>11, BatchesNew DEF M
<1> QED BY <1>9, <1>10, <1>11 DEF Batches!Handle, more

\* A timer that goes off, and its callback, however late.
LEMMA BatchesAlarm ==
    ASSUME Batches!IInv, NEW i \in Batches!Timers, Batches!GoesOff(i) \/ Batches!Callback(i)
    PROVE  Batches!IInv'
<1> DEFINE M == Threads \cup {None}
           all == batchFlushed \o batchBuf
<1>1. /\ batchBuf \in Seq(M) /\ batchFlushed \in Seq(M)
      /\ batchTimer \in Batches!Timers \cup {0}
      /\ batchBuf # <<>> <=> batchTimer # 0
      /\ batchTimer # 0 => alarm[batchTimer] \in {"armed", "begun"}
      /\ Len(batchBuf) < Size /\ IsInjective(all)
    BY BatchesNow
<1>2. PICK k \in 0..Len(all) : BatchAlarms(alarm, k)
    BY BatchesNow
<1>3. CASE Batches!GoesOff(i)
    <2>1. alarm[i] = "armed" /\ alarm' = [alarm EXCEPT ![i] = "begun"] /\ UNCHANGED <<batchBuf, batchTimer, batchFlushed>>
        BY <1>3 DEF Batches!GoesOff
    <2>2. BatchAlarms(alarm', k) /\ (batchTimer' # 0 => alarm'[batchTimer'] \in {"armed", "begun"})
        BY <2>1, <1>1, <1>2 DEF BatchAlarms
    <2>3. batchFlushed' \o batchBuf' = all
        BY <2>1
    <2> QED BY <2>1, <2>2, <2>3, <1>1, <1>2, BatchesNew
<1>4. CASE Batches!Callback(i)
    <2> DEFINE a == [alarm EXCEPT ![i] = "over"]
    <2>1. BatchAlarms(a, k) /\ alarm[i] = "begun"
        BY <1>2, <1>4 DEF BatchAlarms, Batches!Callback
    <2>2. CASE Batches!Drain(batchBuf, a)
        <3> HIDE DEF a
        <3> QED BY <2>1, <2>2, <1>1, <1>2, BatchesDrain
    <2>3. CASE batchBuf = <<>> /\ alarm' = a /\ UNCHANGED <<batchBuf, batchTimer, batchFlushed>>
        <3>1. batchFlushed' \o batchBuf' = all /\ batchTimer' = 0
            BY <2>3, <1>1
        <3> QED BY <3>1, <2>1, <2>3, <1>1, <1>2, BatchesNew
    <2> QED BY <1>4, <2>2, <2>3 DEF Batches!Callback
<1> QED BY <1>3, <1>4

\* batch.go:15: what waits has a timer.
LEMMA BatchesInvariant == MCSpec => []Batches!IInv
<1>1. MCInit => Batches!IInv
    BY BatchesInit DEF MCInit
<1>2. Batches!IInv /\ [MCNext]_mcVars => Batches!IInv'
    <2> SUFFICES ASSUME Batches!IInv, [MCNext]_mcVars PROVE Batches!IInv'
        OBVIOUS
    <2>1. Batches!Next \/ UNCHANGED batchVars
        BY DEF MCNext, Only, mcVars
    <2>2. CASE UNCHANGED batchVars
        BY <2>2 DEF batchVars, Batches!IInv, Batches!TypeOK, Batches!TimerInv, Batches!WaitingHasTimer
    <2> QED BY <2>1, <2>2, BatchesHandle, BatchesAlarm DEF Batches!Next
<1> QED BY <1>1, <1>2, PTL DEF MCSpec

-----------------------------------------------------------------------------
(* Group *)

\* The members are finitely many, and some roles more do not change them.
LEMMA ClubMembers ==
    ASSUME Club!TypeOK
    PROVE  /\ IsFiniteSet(Club!Members) /\ Cardinality(Club!Members) \in Nat
           /\ \A S : Club!Cardinality(S) = Cardinality(S)
           /\ maxMembers \in Nat
<1>1. Club!Members \in SUBSET Threads
    BY DEF Club!Members
<1>2. IsFiniteSet(Club!Members)
    BY <1>1, ConstantsAssumption, FS_Subset
<1>3. \A S : Club!Cardinality(S) = Cardinality(S)
    BY DEF Cardinality, Club!Cardinality
<1> QED BY <1>2, <1>3, FS_CardinalityType, BoundsAssumption DEF Club!TypeOK

\* A new role of one user: the limit holds when there was room for a member, or
\* the user was one before.
LEMMA ClubFits ==
    ASSUME Club!TypeOK, Club!RolesAgree, NEW u \in Threads, NEW r \in Club!Outside..Club!RoleOwner,
           \A v \in Threads \ {u} : v \in Club!Members' => v \in Club!Members,
           UNCHANGED maxMembers, overbooked => overbooked', overbooked' \in BOOLEAN,
           \/ u \in Club!Members \/ u \notin Club!Members' \/ ~Club!IsFull \/ overbooked'
    PROVE  overbooked' \/ maxMembers' = 0 \/ Cardinality(Club!Members') <= maxMembers'
<1>1. Club!Members' \in SUBSET (Club!Members \cup {u})
    BY DEF Club!Members
<1>2. /\ IsFiniteSet(Club!Members \cup {u})
      /\ Cardinality(Club!Members \cup {u}) <= Cardinality(Club!Members) + 1
    <2>1. IsFiniteSet(Club!Members) /\ Cardinality(Club!Members) \in Nat
        BY ClubMembers
    <2>2. /\ IsFiniteSet(Club!Members \cup {u})
          /\ Cardinality(Club!Members \cup {u}) =
                IF u \in Club!Members THEN Cardinality(Club!Members) ELSE Cardinality(Club!Members) + 1
        BY <2>1, FS_AddElement, Zenon
    <2> QED BY <2>1, <2>2
<1>3. /\ IsFiniteSet(Club!Members') /\ Cardinality(Club!Members') <= Cardinality(Club!Members \cup {u})
    BY <1>1, <1>2, FS_Subset
<1>4. Cardinality(Club!Members') \in Nat /\ Cardinality(Club!Members \cup {u}) \in Nat
    BY <1>2, <1>3, FS_CardinalityType
<1>5. CASE u \in Club!Members \/ u \notin Club!Members'
    <2>1. Club!Members' \in SUBSET Club!Members
        BY <1>1, <1>5
    <2>2. Cardinality(Club!Members') <= Cardinality(Club!Members)
        BY <2>1, ClubMembers, FS_Subset
    <2> QED BY <2>2, <1>4, ClubMembers DEF Club!RolesAgree
<1>6. CASE ~Club!IsFull
    BY <1>2, <1>3, <1>4, <1>6, ClubMembers DEF Club!RolesAgree, Club!IsFull
<1> QED BY <1>5, <1>6

\* The founder is the only member.
LEMMA ClubInit == Club!Init => Club!IInv
<1> SUFFICES ASSUME Club!Init PROVE Club!IInv
    OBVIOUS
<1> USE DEF Club!Outside, Club!RoleOwner, Club!RoleMember, Club!RoleAdmin, Club!RolePending
<1>1. Club!TypeOK
    <2>1. overbooked \in BOOLEAN
        BY Zenon DEF Club!Init
    <2>2. role \in [Threads -> Club!Outside..Club!RoleOwner]
        BY DEF Club!Init
    <2> QED BY <2>1, <2>2 DEF Club!Init, Club!TypeOK
<1>2. Club!Members = {ownerID}
    BY DEF Club!Init, Club!Members
<1>3. Cardinality(Club!Members) = 1
    BY <1>2, FS_Singleton
<1>4. Club!RolesAgree
    BY <1>1, <1>3, ClubMembers DEF Club!Init, Club!RolesAgree
<1> QED BY <1>1, <1>4 DEF Club!IInv

\* Every operation keeps one owner, bans whom it excludes and respects the limit.
LEMMA ClubStep ==
    ASSUME Club!IInv, Club!Next
    PROVE  Club!IInv'
<1> USE DEF Club!IInv, Club!Outside, Club!RoleOwner, Club!RoleMember, Club!RoleAdmin, Club!RolePending
<1>0. (\A S : Club!Cardinality(S) = Cardinality(S)) /\ maxMembers \in Nat
    BY ClubMembers
<1>1. ASSUME NEW u \in Threads, NEW r \in Club!Outside..Club!RoleOwner,
             role' = [role EXCEPT ![u] = r],
             ownerID' \in Threads, banned' \subseteq Threads, UNCHANGED maxMembers,
             overbooked => overbooked', overbooked' \in BOOLEAN,
             \/ u \in Club!Members \/ r \in {-1, 1} \/ ~Club!IsFull \/ overbooked',
             \A v \in Threads : role'[v] = 3 => v = ownerID',
             \A v \in banned' : role'[v] = -1
      PROVE  Club!IInv'
    <2>1. Club!TypeOK'
        BY <1>1 DEF Club!TypeOK
    <2>2. \A v \in Threads \ {u} : v \in Club!Members' => v \in Club!Members
        BY <1>1 DEF Club!Members, Club!TypeOK
    <2>3. r \in {-1, 1} => u \notin Club!Members'
        BY <1>1 DEF Club!Members, Club!TypeOK
    <2>4. overbooked' \/ maxMembers' = 0 \/ Cardinality(Club!Members') <= maxMembers'
        BY <2>2, <2>3, <1>1, ClubFits
    <2> QED BY <2>1, <2>4, <1>0, <1>1 DEF Club!RolesAgree
<1>2. ASSUME NEW u \in Threads, Club!Join(u) \/ Club!Request(u) \/ Club!Leave(u) PROVE Club!IInv'
    <2>1. PICK r \in {-1, 0, 1} : role' = [role EXCEPT ![u] = r] /\ (r = 0 => ~Club!IsFull) /\ (r # -1 => u \notin banned)
        BY <1>2 DEF Club!Join, Club!Request, Club!Leave, Club!SetEdge
    <2>2. UNCHANGED <<ownerID, banned, maxMembers, overbooked>>
        BY <1>2 DEF Club!Join, Club!Request, Club!Leave
    <2>3. \A v \in Threads : role'[v] = 3 => v = ownerID'
        BY <2>1, <2>2 DEF Club!TypeOK, Club!RolesAgree
    <2>4. \A v \in banned' : role'[v] = -1
        BY <2>1, <2>2 DEF Club!TypeOK, Club!RolesAgree
    <2>5. /\ ownerID' \in Threads /\ banned' \subseteq Threads
          /\ overbooked' \in BOOLEAN /\ (overbooked => overbooked')
        BY <2>2, Zenon DEF Club!TypeOK
    <2>6. r \in Club!Outside..Club!RoleOwner /\ (r \in {-1, 1} \/ ~Club!IsFull)
        BY <2>1
    <2> QED BY <2>1, <2>2, <2>3, <2>4, <2>5, <2>6, <1>1
<1>3. ASSUME NEW a \in Threads, NEW u \in Threads, Club!Approve(a, u) \/ Club!Reject(a, u) \/ Club!Kick(a, u)
      PROVE  Club!IInv'
    <2>1. PICK r \in {-1, 0} : /\ role' = [role EXCEPT ![u] = r] /\ (r = 0 => ~Club!IsFull)
                               /\ role[u] # -1
        BY <1>3 DEF Club!Approve, Club!Reject, Club!Kick, Club!SetEdge
    <2>2. UNCHANGED <<ownerID, banned, maxMembers, overbooked>>
        BY <1>3 DEF Club!Approve, Club!Reject, Club!Kick
    <2>3. \A v \in Threads : role'[v] = 3 => v = ownerID'
        BY <2>1, <2>2 DEF Club!TypeOK, Club!RolesAgree
    <2>4. \A v \in banned' : role'[v] = -1
        BY <2>1, <2>2 DEF Club!TypeOK, Club!RolesAgree
    <2>5. /\ ownerID' \in Threads /\ banned' \subseteq Threads
          /\ overbooked' \in BOOLEAN /\ (overbooked => overbooked')
        BY <2>2, Zenon DEF Club!TypeOK
    <2>6. r \in Club!Outside..Club!RoleOwner /\ (r \in {-1, 1} \/ ~Club!IsFull)
        BY <2>1
    <2> QED BY <2>1, <2>2, <2>3, <2>4, <2>5, <2>6, <1>1
<1>4. ASSUME NEW a \in Threads, NEW u \in Threads, NEW r \in {2, 0}, Club!SetRole(a, u, r)
      PROVE  Club!IInv'
    <2>1. /\ role' = [role EXCEPT ![u] = r] /\ UNCHANGED <<ownerID, banned, maxMembers>>
          /\ overbooked' = (overbooked \/ (role[u] = 1 /\ Club!IsFull))
          /\ role[u] # -1
        BY <1>4 DEF Club!SetRole, Club!SetEdge
    <2>2. overbooked' \in BOOLEAN /\ (overbooked => overbooked')
        BY <2>1, Zenon DEF Club!TypeOK
    <2>3. role[u] \in {0, 1, 2, 3}
        BY <2>1 DEF Club!TypeOK
    <2>4. u \in Club!Members \/ ~Club!IsFull \/ overbooked'
        BY <2>1, <2>3 DEF Club!Members
    <2>5. \A v \in Threads : role'[v] = 3 => v = ownerID'
        BY <2>1 DEF Club!TypeOK, Club!RolesAgree
    <2>6. \A v \in banned' : role'[v] = -1
        BY <2>1 DEF Club!TypeOK, Club!RolesAgree
    <2>7. ownerID' \in Threads /\ banned' \subseteq Threads /\ r \in Club!Outside..Club!RoleOwner
        BY <2>1 DEF Club!TypeOK
    <2> QED BY <2>1, <2>2, <2>4, <2>5, <2>6, <2>7, <1>1
<1>5. ASSUME NEW a \in Threads, NEW u \in Threads, Club!TransferOwner(a, u)
      PROVE  Club!IInv'
    <2>1. /\ role' = IF a = u THEN [role EXCEPT ![a] = 2] ELSE [role EXCEPT ![a] = 2, ![u] = 3]
          /\ UNCHANGED <<banned, maxMembers>> /\ ownerID' = u
          /\ overbooked' = (overbooked \/ (role[u] = 1 /\ Club!IsFull))
          /\ role[u] # -1 /\ role[a] = 3 /\ a = ownerID
        BY <1>5 DEF Club!TransferOwner, Club!TypeOK, Club!RolesAgree
    <2>2. overbooked' \in BOOLEAN /\ (overbooked => overbooked')
        BY <2>1, Zenon DEF Club!TypeOK
    <2>3. role[u] \in {0, 1, 2, 3}
        BY <2>1 DEF Club!TypeOK
    <2>4. u \in Club!Members \/ ~Club!IsFull \/ overbooked'
        BY <2>1, <2>3 DEF Club!Members
    <2>5. Club!TypeOK'
        BY <2>1, <2>2 DEF Club!TypeOK
    <2>6. /\ \A v \in Threads : role'[v] = 3 => v = ownerID'
          /\ \A v \in banned' : role'[v] = -1
        BY <2>1 DEF Club!TypeOK, Club!RolesAgree
    <2>7. \A v \in Threads \ {u} : v \in Club!Members' => v \in Club!Members
        BY <2>1 DEF Club!Members, Club!TypeOK
    <2>8. overbooked' \/ maxMembers' = 0 \/ Cardinality(Club!Members') <= maxMembers'
        BY <2>1, <2>2, <2>4, <2>7, ClubFits
    <2> QED BY <2>1, <2>5, <2>6, <2>8, <1>0 DEF Club!RolesAgree
<1>6. ASSUME NEW a \in Threads, NEW u \in Threads, Club!Ban(a, u)
      PROVE  Club!IInv'
    <2>1. /\ role' = [role EXCEPT ![u] = -1] /\ banned' = banned \cup {u}
          /\ UNCHANGED <<ownerID, maxMembers, overbooked>>
        BY <1>6 DEF Club!Ban, Club!SetEdge
    <2>2. \A v \in Threads : role'[v] = 3 => v = ownerID'
        BY <2>1 DEF Club!TypeOK, Club!RolesAgree
    <2>3. \A v \in banned' : role'[v] = -1
        BY <2>1 DEF Club!TypeOK, Club!RolesAgree
    <2>4. /\ ownerID' \in Threads /\ banned' \subseteq Threads
          /\ overbooked' \in BOOLEAN /\ (overbooked => overbooked')
        BY <2>1, Zenon DEF Club!TypeOK
    <2>5. -1 \in Club!Outside..Club!RoleOwner
        OBVIOUS
    <2> QED BY <2>1, <2>2, <2>3, <2>4, <2>5, <1>1
<1>7. ASSUME NEW a \in Threads, NEW u \in Threads, Club!Unban(a, u)
      PROVE  Club!IInv'
    BY <1>7 DEF Club!Unban, Club!TypeOK, Club!RolesAgree, Club!Members
<1>8. ASSUME NEW a \in Threads, NEW n \in Limits, Club!SetMaxMembers(a, n)
      PROVE  Club!IInv'
    <2>1. /\ UNCHANGED <<role, ownerID, banned>> /\ maxMembers' = n
          /\ overbooked' = (overbooked \/ (n > 0 /\ Club!Cardinality(Club!Members) > n))
          /\ Club!Members' = Club!Members
        BY <1>8 DEF Club!SetMaxMembers, Club!Members
    <2>2. overbooked' \in BOOLEAN
        BY <2>1, Zenon DEF Club!TypeOK
    <2>3. n \in Nat /\ Cardinality(Club!Members) \in Nat
        BY BoundsAssumption, ClubMembers
    <2>4. overbooked' \/ maxMembers' = 0 \/ Cardinality(Club!Members') <= maxMembers'
        <3>1. CASE overbooked'
            BY <3>1
        <3>2. CASE ~overbooked'
            <4>1. ~(n > 0 /\ Cardinality(Club!Members) > n)
                BY <3>2, <2>1, <1>0
            <4> QED BY <4>1, <2>1, <2>3
        <3> QED BY <3>1, <3>2
    <2>5. Club!TypeOK'
        BY <2>1, <2>2 DEF Club!TypeOK
    <2> QED BY <2>1, <2>4, <2>5, <1>0 DEF Club!RolesAgree
<1> QED BY <1>2, <1>3, <1>4, <1>5, <1>6, <1>7, <1>8 DEF Club!Next

\* group.go:14-16: roles, record, banlist and limit agree.
LEMMA ClubInvariant == MCSpec => []Club!IInv
<1>1. MCInit => Club!IInv
    BY ClubInit DEF MCInit
<1>2. Club!IInv /\ [MCNext]_mcVars => Club!IInv'
    <2> SUFFICES ASSUME Club!IInv, [MCNext]_mcVars PROVE Club!IInv'
        OBVIOUS
    <2>1. Club!Next \/ UNCHANGED clubVars
        BY DEF MCNext, Only, mcVars
    <2>2. CASE UNCHANGED clubVars
        BY <2>2 DEF clubVars, Club!IInv, Club!TypeOK, Club!RolesAgree, Club!Members
    <2> QED BY <2>1, <2>2, ClubStep
<1> QED BY <1>1, <1>2, PTL DEF MCSpec

-----------------------------------------------------------------------------
(* What all of them promise *)

\* delayqueue.go:100 and 123, timerqueue.go:208 and 218: what was cancelled or
\* replaced never fires, and nothing fires twice.
THEOREM RevokedNeverFiresThm == MCSpec => []RevokedNeverFires
<1>1. Delayed!IInv /\ Timed!IInv => RevokedNeverFires
    BY DEF Delayed!IInv, Timed!IInv, RevokedNeverFires
<1> QED BY <1>1, DelayedInvariant, TimedInvariant, PTL

\* scheduler.go:161-169, batcher.go:46: no send on a closed queue, and nothing
\* that was accepted is left when a stop returns.
THEOREM StopIsCleanThm == MCSpec => []StopIsClean
<1>1. Pool!IInv /\ Collector!IInv => StopIsClean
    BY PoolDrained DEF Pool!IInv, Collector!IInv, StopIsClean
<1> QED BY <1>1, PoolInvariant, CollectorInvariant, PTL

\* hedge.go:18, dag.go:27 and 75-77, xgo.go:202-208: an answer, the outcome of a
\* graph and the error of a group are those of the calls, nodes and tasks.
THEOREM ResultsAreRightThm == MCSpec => []ResultsAreRight
<1>1. Hedged!IInv /\ Graph!IInv /\ Gophers!IInv => ResultsAreRight
    BY DEF Hedged!IInv, Graph!IInv, Gophers!IInv, ResultsAreRight
<1> QED BY <1>1, HedgedInvariant, GraphInvariant, GophersInvariant, PTL

\* broadcaster.go:26-31, inproc.go:9-12, batch.go:15: the newest value is not
\* lost, a message reaches everybody chosen, and a waiting message has a timer.
THEOREM MessagesArriveThm == MCSpec => []MessagesArrive
<1>1. Stream!IInv /\ Topic!IInv /\ Batches!IInv => MessagesArrive
    BY StreamLatest, TopicFan DEF Batches!IInv, MessagesArrive
<1> QED BY <1>1, StreamInvariant, TopicInvariant, BatchesInvariant, PTL

\* semaphore.go:83-89, party.go:264-272, wallet.go:1-8, group.go:14-16: what is
\* counted, reserved or booked adds up and never exceeds its limit.
THEOREM AccountsAddUpThm == MCSpec => []AccountsAddUp
<1>1. Sem!IInv /\ Team!IInv /\ Purse!IInv /\ Club!IInv => AccountsAddUp
    BY DEF Sem!IInv, Team!IInv, Purse!IInv, Club!IInv, AccountsAddUp
<1> QED BY <1>1, SemInvariant, TeamInvariant, PurseInvariant, ClubInvariant, PTL
=============================================================================
