------------------------------ MODULE RedisLock ------------------------------
(***************************************************************************)
(* The Redis lock and leader elector of pkg/infra/redis/dlock.go for one   *)
(* key: SET NX with a TTL to acquire, a compare-and-expire script every    *)
(* TTL/3 to renew, a compare-and-delete script to release.                 *)
(*                                                                         *)
(* Time passes in ticks.  Processes are timely: a renewal is sent when its *)
(* ticker fires and given up when its timeout fires, before time goes on.  *)
(* The network is not: a request may be executed any time after it was     *)
(* sent, even after its sender gave up, crashed or restarted the election; *)
(* its answer may be lost.  The one bound is ReplyDelay, on the answer to  *)
(* a SET NX that got the key, for which dlock.go sets no timeout.          *)
(***************************************************************************)
EXTENDS Naturals

CONSTANTS
    Candidates,   \* processes that compete for the key
    Lockers,      \* those that use TryLock/Lock and Unlock; the rest call Run
    TTL,          \* DLock.ttl in ticks
    ReplyDelay,   \* bound: ticks between a won SET NX and its answer
    MaxSessions,  \* bound: how often a process acquires the key
    None          \* the key does not exist

ASSUME ConstantsAssumption ==
    /\ Lockers \subseteq Candidates
    /\ TTL \in Nat /\ TTL >= 3
    /\ ReplyDelay \in Nat
    /\ MaxSessions \in Nat \ {0}
    /\ None \notin Candidates \X (1..MaxSessions)

Interval == TTL \div 3

Tokens == Candidates \X (1..MaxSessions)

VARIABLES
    key,       \* the token stored in Redis, or None
    left,      \* ticks until the key expires
    pc,        \* pc[c]: where process c is
    session,   \* session[c]: how many tokens it has drawn
    rpc,       \* rpc[c]: its outstanding request and what it will answer
    age,       \* age[c]: ticks since that request was sent (SET NX: executed)
    timer,     \* timer[c]: ticks until its renewal ticker fires
    live,      \* the processes whose leaderCtx is not cancelled
    renewing,  \* the processes whose renewal goroutine runs
    ctxDone,   \* the processes whose outer ctx is cancelled
    late       \* requests in flight that nobody waits for

vars == <<key, left, pc, session, rpc, age, timer, live, renewing, ctxDone,
          late>>

redisVars == <<key, left>>
roleVars  == <<live, renewing>>

PC == {"idle", "campaign", "lead", "locked", "resign", "crashed", "exited"}

TypeOK ==
    /\ key \in Tokens \cup {None}
    /\ left \in 0..TTL
    /\ pc \in [Candidates -> PC]
    /\ session \in [Candidates -> 1..MaxSessions]
    /\ rpc \in [Candidates -> {"none", "sent", "yes", "no"}]
    /\ age \in [Candidates -> 0..TTL]
    /\ timer \in [Candidates -> 0..Interval]
    /\ live \subseteq renewing
    /\ renewing \subseteq Candidates \ Lockers
    /\ ctxDone \subseteq Candidates
    /\ late \subseteq {"setnx", "renew", "del"} \X Tokens

Init ==
    /\ key = None
    /\ left = 0
    /\ pc = [c \in Candidates |-> "idle"]
    /\ session = [c \in Candidates |-> 1]
    /\ rpc = [c \in Candidates |-> "none"]
    /\ age = [c \in Candidates |-> 0]
    /\ timer = [c \in Candidates |-> 0]
    /\ live = {}
    /\ renewing = {}
    /\ ctxDone = {}
    /\ late = {}

Token(c) == <<c, session[c]>>

Goto(c, s) == pc' = [pc EXCEPT ![c] = s]
Rpc(c, s)  == rpc' = [rpc EXCEPT ![c] = s]

\* The request of c, if still on its way, outlives c's interest in it.
Abandon(c, op) ==
    late' = IF rpc[c] = "sent" THEN late \cup {<<op, Token(c)>>} ELSE late

-----------------------------------------------------------------------------
(* What Redis does with a request of token t *)

\* Mutant of SetNX: the key is set without a TTL.
SetNXForever(t) ==
    IF key = None THEN key' = t /\ UNCHANGED left ELSE UNCHANGED redisVars

SetNX(t) ==
    IF key = None THEN key' = t /\ left' = TTL ELSE UNCHANGED redisVars

RenewScript(t) ==
    IF key = t THEN left' = TTL /\ UNCHANGED key ELSE UNCHANGED redisVars

\* Mutant of UnlockScript: a plain DEL.
UnlockBlind(t) == key' = None /\ left' = 0

UnlockScript(t) ==
    IF key = t THEN key' = None /\ left' = 0 ELSE UNCHANGED redisVars

-----------------------------------------------------------------------------
(* Acquiring: TryLock, Lock and the campaign loop of electOnce *)

\* Send SET NX; after a "no", poll again with the same token.
Campaign(c) ==
    /\ pc[c] \in {"idle", "campaign"}
    /\ rpc[c] = "none"
    /\ c \notin ctxDone
    /\ Goto(c, "campaign")
    /\ Rpc(c, "sent")
    /\ UNCHANGED <<redisVars, session, age, timer, roleVars, ctxDone, late>>

ExecSetNX(c) ==
    /\ pc[c] = "campaign"
    /\ rpc[c] = "sent"
    /\ SetNX(Token(c))
    /\ Rpc(c, IF key = None THEN "yes" ELSE "no")
    /\ age' = [age EXCEPT ![c] = 0]
    /\ UNCHANGED <<pc, session, timer, roleVars, ctxDone, late>>

\* The key was won: a locker returns, a candidate starts to renew and calls
\* onElected with a fresh leaderCtx.
Won(c) ==
    /\ pc[c] = "campaign"
    /\ rpc[c] = "yes"
    /\ Rpc(c, "none")
    /\ IF c \in Lockers
       THEN Goto(c, "locked") /\ UNCHANGED <<timer, roleVars>>
       ELSE /\ Goto(c, "lead")
            /\ timer' = [timer EXCEPT ![c] = Interval]
            /\ renewing' = renewing \cup {c}
            /\ live' = IF c \in ctxDone THEN live ELSE live \cup {c}
    /\ UNCHANGED <<redisVars, session, age, ctxDone, late>>

NotWon(c) ==
    /\ pc[c] = "campaign"
    /\ rpc[c] = "no"
    /\ Rpc(c, "none")
    /\ UNCHANGED <<redisVars, pc, session, age, timer, roleVars, ctxDone, late>>

\* The answer is lost or ctx is cancelled: the call returns an error; the
\* request may still be executed, and a key already won stays until it expires.
CampaignError(c) ==
    /\ pc[c] = "campaign"
    /\ Abandon(c, "setnx")
    /\ Rpc(c, "none")
    /\ Goto(c, "exited")
    /\ UNCHANGED <<redisVars, session, age, timer, roleVars, ctxDone>>

-----------------------------------------------------------------------------
(* Leading: startRenew and the watcher goroutine of electOnce *)

RenewTick(c) ==
    /\ c \in renewing
    /\ timer[c] = 0
    /\ rpc[c] = "none"
    /\ Rpc(c, "sent")
    /\ timer' = [timer EXCEPT ![c] = Interval]
    /\ age' = [age EXCEPT ![c] = 0]
    /\ UNCHANGED <<redisVars, pc, session, roleVars, ctxDone, late>>

ExecRenew(c) ==
    /\ pc[c] = "lead"
    /\ rpc[c] = "sent"
    /\ RenewScript(Token(c))
    /\ Rpc(c, IF key = Token(c) THEN "yes" ELSE "no")
    /\ UNCHANGED <<pc, session, age, timer, roleVars, ctxDone, late>>

Renewed(c) ==
    /\ pc[c] = "lead"
    /\ rpc[c] = "yes"
    /\ Rpc(c, "none")
    /\ UNCHANGED <<redisVars, pc, session, age, timer, roleVars, ctxDone, late>>

\* The renewal answered 0, failed or timed out: lostCh is closed and leaderCtx
\* cancelled.
RenewLost(c) ==
    /\ pc[c] = "lead"
    /\ rpc[c] # "none"
    /\ Abandon(c, "renew")
    /\ Rpc(c, "none")
    /\ live' = live \ {c}
    /\ renewing' = renewing \ {c}
    /\ UNCHANGED <<redisVars, pc, session, age, timer, ctxDone>>

\* The outer ctx is cancelled, and with it leaderCtx.
OuterCancel(c) ==
    /\ c \notin ctxDone \cup Lockers
    /\ pc[c] \notin {"crashed", "exited"}
    /\ ctxDone' = ctxDone \cup {c}
    /\ live' = live \ {c}
    /\ UNCHANGED <<redisVars, pc, session, rpc, age, timer, renewing, late>>

-----------------------------------------------------------------------------
(* Releasing: the end of electOnce and redisLock.Unlock *)

\* onElected returned (or the lock holder calls Unlock): stop renewing and send
\* the compare-and-delete.
GiveUp(c) ==
    /\ pc[c] \in {"lead", "locked"}
    /\ Abandon(c, "renew")
    /\ live' = live \ {c}
    /\ renewing' = renewing \ {c}
    /\ Rpc(c, "sent")
    /\ Goto(c, "resign")
    /\ UNCHANGED <<redisVars, session, age, timer, ctxDone>>

ExecUnlock(c) ==
    /\ pc[c] = "resign"
    /\ rpc[c] = "sent"
    /\ UnlockScript(Token(c))
    /\ Rpc(c, "yes")
    /\ UNCHANGED <<pc, session, age, timer, roleVars, ctxDone, late>>

\* The answer or its 3 s timeout; then a new election with a new token, unless
\* ctx is cancelled.
Resigned(c) ==
    /\ pc[c] = "resign"
    /\ Abandon(c, "del")
    /\ Rpc(c, "none")
    /\ IF c \in ctxDone \/ session[c] = MaxSessions
       THEN Goto(c, "exited") /\ UNCHANGED session
       ELSE Goto(c, "idle") /\ session' = [session EXCEPT ![c] = @ + 1]
    /\ UNCHANGED <<redisVars, age, timer, roleVars, ctxDone>>

\* Run returns once its ctx is cancelled.
Leave(c) ==
    /\ pc[c] = "idle"
    /\ c \in ctxDone
    /\ Goto(c, "exited")
    /\ UNCHANGED <<redisVars, session, rpc, age, timer, roleVars, ctxDone, late>>

-----------------------------------------------------------------------------
(* The environment *)

Crash(c) ==
    /\ pc[c] \notin {"crashed", "exited"}
    /\ Abandon(c, CASE pc[c] = "lead" -> "renew"
                    [] pc[c] = "resign" -> "del"
                    [] OTHER -> "setnx")
    /\ Goto(c, "crashed")
    /\ Rpc(c, "none")
    /\ live' = live \ {c}
    /\ renewing' = renewing \ {c}
    /\ UNCHANGED <<redisVars, session, age, timer, ctxDone>>

\* A request nobody waits for reaches Redis (if it ever does).
LateArrives ==
    \E m \in late :
        /\ late' = late \ {m}
        /\ CASE m[1] = "setnx" -> SetNX(m[2])
             [] m[1] = "renew" -> RenewScript(m[2])
             [] m[1] = "del"   -> UnlockScript(m[2])
        /\ UNCHANGED <<pc, session, rpc, age, timer, roleVars, ctxDone>>

\* A process has something to do before time goes on.
Urgent(c) ==
    \/ c \in renewing /\ timer[c] = 0 /\ rpc[c] = "none"
    \/ pc[c] = "lead" /\ rpc[c] # "none" /\ age[c] = Interval
    \/ pc[c] = "campaign" /\ rpc[c] = "yes" /\ age[c] = ReplyDelay

Aging(c) ==
    \/ pc[c] = "lead" /\ rpc[c] # "none"
    \/ pc[c] = "campaign" /\ rpc[c] = "yes"

Tick ==
    /\ \A c \in Candidates : ~Urgent(c)
    /\ left > 0 \/ renewing # {} \/ \E c \in Candidates : Aging(c)
    /\ left' = IF left > 0 THEN left - 1 ELSE 0
    /\ key' = IF left = 1 THEN None ELSE key
    /\ timer' = [c \in Candidates |->
                   IF c \in renewing /\ timer[c] > 0 THEN timer[c] - 1 ELSE timer[c]]
    /\ age' = [c \in Candidates |-> IF Aging(c) THEN age[c] + 1 ELSE age[c]]
    /\ UNCHANGED <<pc, session, rpc, roleVars, ctxDone, late>>

-----------------------------------------------------------------------------

ProcStep(c) ==
    \/ Campaign(c) \/ Won(c) \/ NotWon(c)
    \/ RenewTick(c) \/ Renewed(c)
    \/ Resigned(c) \/ Leave(c)

RedisStep(c) == ExecSetNX(c) \/ ExecRenew(c) \/ ExecUnlock(c)

Next ==
    \/ \E c \in Candidates :
          \/ ProcStep(c) \/ RedisStep(c)
          \/ CampaignError(c) \/ RenewLost(c) \/ OuterCancel(c) \/ GiveUp(c)
          \/ Crash(c)
    \/ LateArrives
    \/ Tick

\* Time passes, processes go on and Redis answers.  Nothing makes a leader or
\* a lock holder give up, and nothing stops answers from being lost.
Fairness ==
    /\ WF_vars(Tick)
    /\ \A c \in Candidates : WF_vars(ProcStep(c)) /\ WF_vars(RedisStep(c))

Spec == Init /\ [][Next]_vars

FairSpec == Spec /\ Fairness

-----------------------------------------------------------------------------
(* Properties *)

\* dlock.go:35 (pkg/store/dlock) "at most one elected leader at any time": two
\* processes never hold a leaderCtx that is not cancelled.
AtMostOneLeader == \A a, b \in live : a = b

\* Redis dlock.go:18-19 and 181-183: a leaderCtx is cancelled before the key is
\* lost: neither expiry nor a late or foreign release takes it from a leader, and
\* the goroutine that would notice a loss is still there.
LeaderHoldsKey == \A c \in live : c \in renewing /\ key = Token(c)

\* Redis dlock.go:60-61: the key of a process that is gone expires, whatever of
\* its requests is still under way, so that others can take over.
DeadKeyExpires ==
    \A c \in Candidates :
        (pc[c] \in {"crashed", "exited"} /\ key # None /\ key = Token(c))
            ~> (key # Token(c))

-----------------------------------------------------------------------------
(* The inductive invariant behind the lease. *)

\* Where a process may be while its leaderCtx is live or its renewals go on.
RoleInv ==
    \A c \in Candidates :
        /\ c \in renewing => pc[c] = "lead"
        /\ pc[c] = "campaign" /\ rpc[c] = "yes" => age[c] <= ReplyDelay
        /\ pc[c] = "lead" => c \notin Lockers
        /\ pc[c] = "lead" /\ rpc[c] # "none" => c \in renewing /\ age[c] <= Interval

\* A request to delete a token is only under way once its process has given
\* that token up for good.
LateInv ==
    \A m \in late : m[1] = "del" =>
        \/ m[2][2] < session[m[2][1]]
        \/ pc[m[2][1]] \in {"crashed", "exited"}

\* What is left of the lease of a process that has won the key and not lost it:
\* the delay of the winning answer and one interval per outstanding renewal
\* have been used up at most.
LeaseInv ==
    /\ \A c \in Candidates :
          pc[c] = "campaign" /\ rpc[c] = "yes" => key = Token(c) /\ left + age[c] >= TTL
    /\ \A c \in live :
          /\ c \in renewing /\ key = Token(c)
          /\ rpc[c] # "no"
          /\ rpc[c] # "none" => age[c] + timer[c] = Interval
          /\ IF rpc[c] = "sent"
             THEN left + ReplyDelay + Interval + age[c] >= TTL
             ELSE left + ReplyDelay + Interval >= TTL + timer[c]

IInv == TypeOK /\ RoleInv /\ LateInv /\ LeaseInv
=============================================================================
