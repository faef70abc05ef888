----------------------------- MODULE MCRedisLock -----------------------------
(***************************************************************************)
(* Instances of RedisLock for TLC: two processes that campaign once, or    *)
(* one that campaigns and one that uses the lock directly, each twice and  *)
(* on a coarser clock; chosen at the start of a behaviour.                 *)
(***************************************************************************)
EXTENDS RedisLock

CONSTANT locker  \* the candidate that may use TryLock and Unlock

VARIABLE mixed   \* whether it does

Mixed == INSTANCE RedisLock WITH
    Lockers <- {locker}, MaxSessions <- MaxSessions + 1, TTL <- 3, ReplyDelay <- 0

MCInit == Init /\ mixed \in BOOLEAN

Step(A, B) == (IF mixed THEN A ELSE B) /\ UNCHANGED mixed

MCNext == Step(Mixed!Next, Next)

MCVars == <<vars, mixed>>

MCSpec ==
    /\ MCInit
    /\ [][MCNext]_MCVars
    /\ WF_MCVars(Step(Mixed!Tick, Tick))
    /\ \A c \in Candidates :
          /\ WF_MCVars(Step(Mixed!ProcStep(c), ProcStep(c)))
          /\ WF_MCVars(Step(Mixed!RedisStep(c), RedisStep(c)))
=============================================================================
