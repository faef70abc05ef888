----------------------------- MODULE KeyedMutex -----------------------------
(***************************************************************************)
(* pkg/foundation/keyedmutex: one mutex per key, created on demand and     *)
(* removed when nobody holds or waits for it.  The danger is the removal:  *)
(* a thread that still refers to a removed entry and a thread that made a  *)
(* new one for the same key would both enter.                              *)
(*                                                                         *)
(* An entry is a pointer: it can be allocated again once neither the map   *)
(* nor a thread refers to it.  Steps under km.mu are atomic.               *)
(***************************************************************************)
EXTENDS Naturals, FiniteSets

CONSTANTS
    Threads,
    Keys,
    Entries,  \* the addresses entries are allocated at
    None

ASSUME ConstantsAssumption ==
    /\ IsFiniteSet(Threads)
    /\ None \notin Threads \cup Keys \cup Entries

VARIABLES
    entries,  \* km.entries
    ref,      \* ref[e]: entry.ref
    owner,    \* owner[e]: the thread that holds entry.mu
    pc,       \* pc[t]: where thread t is
    key,      \* key[t]: the key of its call
    ent,      \* ent[t]: the entry its call or its unlock function refers to
    trying    \* the threads that called TryLock

vars == <<entries, ref, owner, pc, key, ent, trying>>

PC == {"idle", "lock", "held", "release"}

TypeOK ==
    /\ entries \in [Keys -> Entries \cup {None}]
    /\ ref \in [Entries -> Nat]
    /\ owner \in [Entries -> Threads \cup {None}]
    /\ pc \in [Threads -> PC]
    /\ key \in [Threads -> Keys \cup {None}]
    /\ ent \in [Threads -> Entries \cup {None}]
    /\ trying \subseteq Threads

Init ==
    /\ entries = [k \in Keys |-> None]
    /\ ref = [e \in Entries |-> 0]
    /\ owner = [e \in Entries |-> None]
    /\ pc = [t \in Threads |-> "idle"]
    /\ key = [t \in Threads |-> None]
    /\ ent = [t \in Threads |-> None]
    /\ trying = {}

\* Addresses nothing refers to.
Free ==
    {e \in Entries : (\A k \in Keys : entries[k] # e) /\ (\A t \in Threads : ent[t] # e)}

\* Mutant of AcquireEntry: an entry is made although the map has one.
AcquireAnew(t, k, try) ==
    /\ pc[t] = "idle"
    /\ \E e \in Free :
          /\ entries' = [entries EXCEPT ![k] = e]
          /\ ref' = [ref EXCEPT ![e] = 1]
          /\ owner' = [owner EXCEPT ![e] = None]
          /\ ent' = [ent EXCEPT ![t] = e]
    /\ key' = [key EXCEPT ![t] = k]
    /\ trying' = IF try THEN trying \cup {t} ELSE trying \ {t}
    /\ pc' = [pc EXCEPT ![t] = "lock"]

\* acquireEntry, called by Lock (and Do) and by TryLock: take the key's entry,
\* or make one with ref 0 and an unlocked mutex, and count the reference.
AcquireEntry(t, k, try) ==
    /\ pc[t] = "idle"
    /\ \E e \in Entries :
          /\ IF entries[k] = None THEN e \in Free ELSE e = entries[k]
          /\ entries' = [entries EXCEPT ![k] = e]
          /\ ref' = [ref EXCEPT ![e] = IF entries[k] = None THEN 1 ELSE @ + 1]
          /\ owner' = [owner EXCEPT ![e] = IF entries[k] = None THEN None ELSE @]
          /\ ent' = [ent EXCEPT ![t] = e]
    /\ key' = [key EXCEPT ![t] = k]
    /\ trying' = IF try THEN trying \cup {t} ELSE trying \ {t}
    /\ pc' = [pc EXCEPT ![t] = "lock"]

\* e.mu.Lock(), or a TryLock that finds the mutex free.
LockEntry(t) ==
    /\ pc[t] = "lock"
    /\ owner[ent[t]] = None
    /\ owner' = [owner EXCEPT ![ent[t]] = t]
    /\ pc' = [pc EXCEPT ![t] = "held"]
    /\ UNCHANGED <<entries, ref, key, ent, trying>>

\* Mutant of TryLockFails: the reference is not given back.
TryLockLeaks(t) ==
    /\ pc[t] = "lock"
    /\ t \in trying
    /\ owner[ent[t]] # None
    /\ pc' = [pc EXCEPT ![t] = "idle"]
    /\ ent' = [ent EXCEPT ![t] = None]
    /\ key' = [key EXCEPT ![t] = None]
    /\ UNCHANGED <<entries, ref, owner, trying>>

\* e.mu.TryLock() fails: only the reference is given back.
TryLockFails(t) ==
    /\ pc[t] = "lock"
    /\ t \in trying
    /\ owner[ent[t]] # None
    /\ pc' = [pc EXCEPT ![t] = "release"]
    /\ UNCHANGED <<entries, ref, owner, key, ent, trying>>

\* The unlock function (once): e.mu.Unlock(), ...
Unlock(t) ==
    /\ pc[t] = "held"
    /\ owner' = [owner EXCEPT ![ent[t]] = None]
    /\ pc' = [pc EXCEPT ![t] = "release"]
    /\ UNCHANGED <<entries, ref, key, ent, trying>>

\* ... then releaseEntry: give the reference back, and remove the entry from
\* the map with its last one.
ReleaseEntry(t) ==
    /\ pc[t] = "release"
    /\ ref' = [ref EXCEPT ![ent[t]] = @ - 1]
    /\ entries' = IF ref[ent[t]] = 1 /\ entries[key[t]] = ent[t]
                  THEN [entries EXCEPT ![key[t]] = None]
                  ELSE entries
    /\ pc' = [pc EXCEPT ![t] = "idle"]
    /\ ent' = [ent EXCEPT ![t] = None]
    /\ key' = [key EXCEPT ![t] = None]
    /\ UNCHANGED <<owner, trying>>

Step(t) == LockEntry(t) \/ TryLockFails(t) \/ Unlock(t) \/ ReleaseEntry(t)

Next ==
    \E t \in Threads :
        \/ \E k \in Keys, try \in BOOLEAN : AcquireEntry(t, k, try)
        \/ Step(t)

\* Threads go on and leave their critical sections; a sync.Mutex hands itself
\* to a starving waiter, hence strong fairness of taking it.
Fairness == \A t \in Threads : WF_vars(Step(t)) /\ SF_vars(LockEntry(t))

Spec == Init /\ [][Next]_vars

FairSpec == Spec /\ Fairness

-----------------------------------------------------------------------------
(* Properties *)

\* keyedmutex.go:1-2: holders of the same key exclude each other, however
\* entries were removed, made anew and reallocated meanwhile.
MutualExclusion ==
    \A s, t \in Threads :
        pc[s] = "held" /\ pc[t] = "held" /\ key[s] = key[t] => s = t

\* keyedmutex.go:12: an entry is in the map exactly while some thread holds or
\* waits for its key, so the map does not grow with the keys ever used.
NoLeak ==
    \A k \in Keys : entries[k] # None <=> \E t \in Threads : key[t] = k

\* keyedmutex.go:63: no Lock waits forever.
Granted(t) == pc[t] # "lock" \/ t \in trying
LockIsGranted == \A t \in Threads : []<>Granted(t)

-----------------------------------------------------------------------------
(* The inductive invariant. *)

Users(e) == {t \in Threads : ent[t] = e}

\* Whoever has an entry has the one in the map under its key.
SameEntry ==
    \A t \in Threads :
        /\ pc[t] = "idle" <=> ent[t] = None
        /\ pc[t] = "idle" <=> key[t] = None
        /\ pc[t] # "idle" => entries[key[t]] = ent[t]

\* No entry serves two keys; the entry of a key in the map has a user.
OneKey ==
    /\ \A k, l \in Keys : entries[k] = entries[l] /\ entries[k] # None => k = l
    /\ \A k \in Keys : entries[k] # None => \E t \in Threads : ent[t] = entries[k]

\* ref counts exactly the threads that refer to the entry.
RefCounts == \A e \in Entries : Users(e) # {} => ref[e] = Cardinality(Users(e))

\* The mutex of an entry in use is held exactly by the thread inside.
OwnerInside ==
    \A t \in Threads :
        /\ pc[t] = "held" => owner[ent[t]] = t
        /\ \A e \in Entries : owner[e] = t /\ Users(e) # {} =>
              pc[t] = "held" /\ ent[t] = e

IInv == TypeOK /\ SameEntry /\ OneKey /\ RefCounts /\ OwnerInside
=============================================================================
