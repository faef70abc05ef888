--------------------------- MODULE RedisLockProofs ---------------------------
(***************************************************************************)
(* The lease argument of RedisLock, for any number of processes, any TTL   *)
(* and any number of sessions: as long as the answer to a won SET NX comes *)
(* back before a third of the TTL is used up, a process whose leaderCtx is *)
(* live has the key.                                                       *)
(*                                                                         *)
(* The invariant is a budget of time.  A leader spends at most ReplyDelay  *)
(* before it knows that it leads, one Interval until its ticker fires and  *)
(* one more until an unanswered renewal times out; LeaseInv says how much  *)
(* of that is spent, and the processes are urgent before it is exceeded.   *)
(* Nothing else touches the key: the scripts compare tokens, and LateInv   *)
(* says that no release of a token in use is under way.                    *)
(***************************************************************************)
EXTENDS RedisLock, TLAPS

-----------------------------------------------------------------------------
(* The constants and the tokens *)

\* Three intervals fit into the lease.
LEMMA IntervalFacts ==
    /\ Interval \in Nat /\ Interval >= 1 /\ 3 * Interval <= TTL
    /\ TTL \in Nat /\ ReplyDelay \in Nat /\ MaxSessions \in Nat /\ MaxSessions >= 1
BY ConstantsAssumption DEF Interval

\* A process draws tokens of its own, and none is the absent key.
LEMMA TokenFacts ==
    ASSUME TypeOK
    PROVE  /\ \A c \in Candidates : Token(c) \in Tokens /\ Token(c) # None
           /\ \A c, d \in Candidates : Token(c) = Token(d) => c = d
BY ConstantsAssumption DEF TypeOK, Token, Tokens

-----------------------------------------------------------------------------
(* The steps of one process.  Timely, the bound on the answer to a won SET  *)
(* NX, is the hypothesis of the whole argument.                             *)

\* The answer that tells a process it has won comes back early enough to leave
\* room for a renewal interval and for the timeout of that renewal.
Timely == ReplyDelay + 2 * Interval < TTL

\* A candidate that polls has no lease yet.
LEMMA CampaignKeeps ==
    ASSUME NEW c \in Candidates, Timely, IInv, Campaign(c)
    PROVE  IInv'
<1> USE IntervalFacts, TokenFacts DEF Timely
<1>1. TypeOK'
  BY DEF IInv, RoleInv, TypeOK, PC, Campaign, Goto, Rpc, redisVars, roleVars
<1>2. RoleInv'
  BY DEF IInv, RoleInv, TypeOK, Campaign, Goto, Rpc, redisVars, roleVars
<1>3. LateInv'
  BY DEF IInv, LateInv, TypeOK, Tokens, Token, Campaign, Goto, Rpc, redisVars, roleVars
<1>4. LeaseInv'
  BY DEF IInv, LeaseInv, RoleInv, TypeOK, Token, Campaign, Goto, Rpc, redisVars, roleVars
<1> QED BY <1>1, <1>2, <1>3, <1>4 DEF IInv

\* Redis gives the key to one candidate, with the whole TTL.
LEMMA ExecSetNXKeeps ==
    ASSUME NEW c \in Candidates, Timely, IInv, ExecSetNX(c)
    PROVE  IInv'
<1> USE IntervalFacts, TokenFacts DEF Timely
<1>1. TypeOK'
  BY DEF IInv, RoleInv, TypeOK, PC, ExecSetNX, SetNX, Rpc, redisVars, roleVars
<1>2. RoleInv'
  BY DEF IInv, RoleInv, TypeOK, ExecSetNX, SetNX, Rpc, redisVars, roleVars
<1>3. LateInv'
  BY DEF IInv, LateInv, TypeOK, Tokens, Token, ExecSetNX, SetNX, Rpc, redisVars, roleVars
<1>4. LeaseInv'
  BY DEF IInv, LeaseInv, RoleInv, TypeOK, Token, ExecSetNX, SetNX, Rpc, redisVars, roleVars
<1> QED BY <1>1, <1>2, <1>3, <1>4 DEF IInv

\* The answer was on its way for ReplyDelay at most: the budget of a new leader.
LEMMA WonKeeps ==
    ASSUME NEW c \in Candidates, Timely, IInv, Won(c)
    PROVE  IInv'
<1> USE IntervalFacts, TokenFacts DEF Timely
<1>1. TypeOK'
  BY DEF IInv, RoleInv, TypeOK, PC, Won, Goto, Rpc, redisVars, roleVars
<1>2. RoleInv'
  BY DEF IInv, RoleInv, TypeOK, Won, Goto, Rpc, redisVars, roleVars
<1>3. LateInv'
  BY DEF IInv, LateInv, TypeOK, Tokens, Token, Won, Goto, Rpc, redisVars, roleVars
<1>4. LeaseInv'
  BY DEF IInv, LeaseInv, RoleInv, TypeOK, Token, Won, Goto, Rpc, redisVars, roleVars
<1> QED BY <1>1, <1>2, <1>3, <1>4 DEF IInv

\* A lost round leaves everything as it is.
LEMMA NotWonKeeps ==
    ASSUME NEW c \in Candidates, Timely, IInv, NotWon(c)
    PROVE  IInv'
<1> USE IntervalFacts, TokenFacts DEF Timely
<1>1. TypeOK'
  BY DEF IInv, RoleInv, TypeOK, PC, NotWon, Rpc, redisVars, roleVars
<1>2. RoleInv'
  BY DEF IInv, RoleInv, TypeOK, NotWon, Rpc, redisVars, roleVars
<1>3. LateInv'
  BY DEF IInv, LateInv, TypeOK, Tokens, Token, NotWon, Rpc, redisVars, roleVars
<1>4. LeaseInv'
  BY DEF IInv, LeaseInv, RoleInv, TypeOK, Token, NotWon, Rpc, redisVars, roleVars
<1> QED BY <1>1, <1>2, <1>3, <1>4 DEF IInv

\* A call that failed may leave a SET NX behind, never a release.
LEMMA CampaignErrorKeeps ==
    ASSUME NEW c \in Candidates, Timely, IInv, CampaignError(c)
    PROVE  IInv'
<1> USE IntervalFacts, TokenFacts DEF Timely
<1>1. TypeOK'
  BY DEF IInv, RoleInv, TypeOK, PC, CampaignError, Abandon, Goto, Rpc, redisVars, roleVars
<1>2. RoleInv'
  BY DEF IInv, RoleInv, TypeOK, CampaignError, Abandon, Goto, Rpc, redisVars, roleVars
<1>3. LateInv'
  BY DEF IInv, LateInv, TypeOK, Tokens, Token, CampaignError, Abandon, Goto, Rpc, redisVars, roleVars
<1>4. LeaseInv'
  BY DEF IInv, LeaseInv, RoleInv, TypeOK, Token, CampaignError, Abandon, Goto, Rpc, redisVars, roleVars
<1> QED BY <1>1, <1>2, <1>3, <1>4 DEF IInv

\* The ticker fired: what is left covers one timeout.
LEMMA RenewTickKeeps ==
    ASSUME NEW c \in Candidates, Timely, IInv, RenewTick(c)
    PROVE  IInv'
<1> USE IntervalFacts, TokenFacts DEF Timely
<1>1. TypeOK'
  BY DEF IInv, RoleInv, TypeOK, PC, RenewTick, Rpc, redisVars, roleVars
<1>2. RoleInv'
  BY DEF IInv, RoleInv, TypeOK, RenewTick, Rpc, redisVars, roleVars
<1>3. LateInv'
  BY DEF IInv, LateInv, TypeOK, Tokens, Token, RenewTick, Rpc, redisVars, roleVars
<1>4. LeaseInv'
  BY DEF IInv, LeaseInv, RoleInv, TypeOK, Token, RenewTick, Rpc, redisVars, roleVars
<1> QED BY <1>1, <1>2, <1>3, <1>4 DEF IInv

\* The renewal of a live leader finds its own token, and the budget starts anew.
LEMMA ExecRenewKeeps ==
    ASSUME NEW c \in Candidates, Timely, IInv, ExecRenew(c)
    PROVE  IInv'
<1> USE IntervalFacts, TokenFacts DEF Timely
<1>1. TypeOK'
  BY DEF IInv, RoleInv, TypeOK, PC, ExecRenew, RenewScript, Rpc, redisVars, roleVars
<1>2. RoleInv'
  BY DEF IInv, RoleInv, TypeOK, ExecRenew, RenewScript, Rpc, redisVars, roleVars
<1>3. LateInv'
  BY DEF IInv, LateInv, TypeOK, Tokens, Token, ExecRenew, RenewScript, Rpc, redisVars, roleVars
<1>4. LeaseInv'
  BY DEF IInv, LeaseInv, RoleInv, TypeOK, Token, ExecRenew, RenewScript, Rpc, redisVars, roleVars
<1> QED BY <1>1, <1>2, <1>3, <1>4 DEF IInv

\* The answer to a renewal changes nothing that was already granted.
LEMMA RenewedKeeps ==
    ASSUME NEW c \in Candidates, Timely, IInv, Renewed(c)
    PROVE  IInv'
<1> USE IntervalFacts, TokenFacts DEF Timely
<1>1. TypeOK'
  BY DEF IInv, RoleInv, TypeOK, PC, Renewed, Rpc, redisVars, roleVars
<1>2. RoleInv'
  BY DEF IInv, RoleInv, TypeOK, Renewed, Rpc, redisVars, roleVars
<1>3. LateInv'
  BY DEF IInv, LateInv, TypeOK, Tokens, Token, Renewed, Rpc, redisVars, roleVars
<1>4. LeaseInv'
  BY DEF IInv, LeaseInv, RoleInv, TypeOK, Token, Renewed, Rpc, redisVars, roleVars
<1> QED BY <1>1, <1>2, <1>3, <1>4 DEF IInv

\* A renewal that failed ends the leadership before the lease.
LEMMA RenewLostKeeps ==
    ASSUME NEW c \in Candidates, Timely, IInv, RenewLost(c)
    PROVE  IInv'
<1> USE IntervalFacts, TokenFacts DEF Timely
<1>1. TypeOK'
  BY DEF IInv, RoleInv, TypeOK, PC, RenewLost, Abandon, Rpc, redisVars, roleVars
<1>2. RoleInv'
  BY DEF IInv, RoleInv, TypeOK, RenewLost, Abandon, Rpc, redisVars, roleVars
<1>3. LateInv'
  BY DEF IInv, LateInv, TypeOK, Tokens, Token, RenewLost, Abandon, Rpc, redisVars, roleVars
<1>4. LeaseInv'
  BY DEF IInv, LeaseInv, RoleInv, TypeOK, Token, RenewLost, Abandon, Rpc, redisVars, roleVars
<1> QED BY <1>1, <1>2, <1>3, <1>4 DEF IInv

\* A cancelled ctx ends the leadership.
LEMMA OuterCancelKeeps ==
    ASSUME NEW c \in Candidates, Timely, IInv, OuterCancel(c)
    PROVE  IInv'
<1> USE IntervalFacts, TokenFacts DEF Timely
<1>1. TypeOK'
  BY DEF IInv, RoleInv, TypeOK, PC, OuterCancel, redisVars, roleVars
<1>2. RoleInv'
  BY DEF IInv, RoleInv, TypeOK, OuterCancel, redisVars, roleVars
<1>3. LateInv'
  BY DEF IInv, LateInv, TypeOK, Tokens, Token, OuterCancel, redisVars, roleVars
<1>4. LeaseInv'
  BY DEF IInv, LeaseInv, RoleInv, TypeOK, Token, OuterCancel, redisVars, roleVars
<1> QED BY <1>1, <1>2, <1>3, <1>4 DEF IInv

\* The leaderCtx is cancelled before the release is sent.
LEMMA GiveUpKeeps ==
    ASSUME NEW c \in Candidates, Timely, IInv, GiveUp(c)
    PROVE  IInv'
<1> USE IntervalFacts, TokenFacts DEF Timely
<1>1. TypeOK'
  BY DEF IInv, RoleInv, TypeOK, PC, GiveUp, Abandon, Goto, Rpc, redisVars, roleVars
<1>2. RoleInv'
  BY DEF IInv, RoleInv, TypeOK, GiveUp, Abandon, Goto, Rpc, redisVars, roleVars
<1>3. LateInv'
  BY DEF IInv, LateInv, TypeOK, Tokens, Token, GiveUp, Abandon, Goto, Rpc, redisVars, roleVars
<1>4. LeaseInv'
  BY DEF IInv, LeaseInv, RoleInv, TypeOK, Token, GiveUp, Abandon, Goto, Rpc, redisVars, roleVars
<1> QED BY <1>1, <1>2, <1>3, <1>4 DEF IInv

\* Redis compares tokens: only the process itself releases its key.
LEMMA ExecUnlockKeeps ==
    ASSUME NEW c \in Candidates, Timely, IInv, ExecUnlock(c)
    PROVE  IInv'
<1> USE IntervalFacts, TokenFacts DEF Timely
<1>1. TypeOK'
  BY DEF IInv, RoleInv, TypeOK, PC, ExecUnlock, UnlockScript, Rpc, redisVars, roleVars
<1>2. RoleInv'
  BY DEF IInv, RoleInv, TypeOK, ExecUnlock, UnlockScript, Rpc, redisVars, roleVars
<1>3. LateInv'
  BY DEF IInv, LateInv, TypeOK, Tokens, Token, ExecUnlock, UnlockScript, Rpc, redisVars, roleVars
<1>4. LeaseInv'
  BY DEF IInv, LeaseInv, RoleInv, TypeOK, Token, ExecUnlock, UnlockScript, Rpc, redisVars, roleVars
<1> QED BY <1>1, <1>2, <1>3, <1>4 DEF IInv

\* A release still under way is for a token that is not drawn again.
LEMMA ResignedKeeps ==
    ASSUME NEW c \in Candidates, Timely, IInv, Resigned(c)
    PROVE  IInv'
<1> USE IntervalFacts, TokenFacts DEF Timely
<1>1. TypeOK'
  BY DEF IInv, RoleInv, TypeOK, PC, Resigned, Abandon, Goto, Rpc, redisVars, roleVars
<1>2. RoleInv'
  BY DEF IInv, RoleInv, TypeOK, Resigned, Abandon, Goto, Rpc, redisVars, roleVars
<1>3. LateInv'
  BY DEF IInv, LateInv, TypeOK, Tokens, Token, Resigned, Abandon, Goto, Rpc, redisVars, roleVars
<1>4. LeaseInv'
  BY DEF IInv, LeaseInv, RoleInv, TypeOK, Token, Resigned, Abandon, Goto, Rpc, redisVars, roleVars
<1> QED BY <1>1, <1>2, <1>3, <1>4 DEF IInv

\* A process that never won leaves nothing behind.
LEMMA LeaveKeeps ==
    ASSUME NEW c \in Candidates, Timely, IInv, Leave(c)
    PROVE  IInv'
<1> USE IntervalFacts, TokenFacts DEF Timely
<1>1. TypeOK'
  BY DEF IInv, RoleInv, TypeOK, PC, Leave, Goto, redisVars, roleVars
<1>2. RoleInv'
  BY DEF IInv, RoleInv, TypeOK, Leave, Goto, redisVars, roleVars
<1>3. LateInv'
  BY DEF IInv, LateInv, TypeOK, Tokens, Token, Leave, Goto, redisVars, roleVars
<1>4. LeaseInv'
  BY DEF IInv, LeaseInv, RoleInv, TypeOK, Token, Leave, Goto, redisVars, roleVars
<1> QED BY <1>1, <1>2, <1>3, <1>4 DEF IInv

\* A crash ends the leadership; what was under way stays under way.
LEMMA CrashKeeps ==
    ASSUME NEW c \in Candidates, Timely, IInv, Crash(c)
    PROVE  IInv'
<1> USE IntervalFacts, TokenFacts DEF Timely
<1>1. TypeOK'
  BY DEF IInv, RoleInv, TypeOK, PC, Crash, Abandon, Goto, Rpc, redisVars, roleVars
<1>2. RoleInv'
  BY DEF IInv, RoleInv, TypeOK, Crash, Abandon, Goto, Rpc, redisVars, roleVars
<1>3. LateInv'
  BY DEF IInv, LateInv, TypeOK, Tokens, Token, Crash, Abandon, Goto, Rpc, redisVars, roleVars
<1>4. LeaseInv'
  BY DEF IInv, LeaseInv, RoleInv, TypeOK, Token, Crash, Abandon, Goto, Rpc, redisVars, roleVars
<1> QED BY <1>1, <1>2, <1>3, <1>4 DEF IInv

-----------------------------------------------------------------------------
(* The environment *)

\* A request that nobody waits for reaches Redis.
LEMMA LateArrivesKeeps ==
    ASSUME Timely, IInv, LateArrives
    PROVE  IInv'
<1> USE IntervalFacts, TokenFacts DEF Timely
<1>0. PICK m \in late :
          /\ late' = late \ {m}
          /\ CASE m[1] = "setnx" -> SetNX(m[2])
               [] m[1] = "renew" -> RenewScript(m[2])
               [] m[1] = "del"   -> UnlockScript(m[2])
          /\ UNCHANGED <<pc, session, rpc, age, timer, roleVars, ctxDone>>
  BY DEF LateArrives
<1>a. m[1] \in {"setnx", "renew", "del"} /\ m[2] \in Tokens
  BY DEF IInv, TypeOK
<1>b. /\ (m[1] = "setnx" => SetNX(m[2]))
      /\ (m[1] = "renew" => RenewScript(m[2]))
      /\ (m[1] = "del" => UnlockScript(m[2]))
  BY <1>0
<1>1. TypeOK'
  BY <1>0, <1>a, <1>b DEF IInv, TypeOK, SetNX, RenewScript, UnlockScript, redisVars, roleVars
<1>2. RoleInv'
  BY <1>0 DEF IInv, RoleInv, roleVars
<1>3. LateInv'
  BY <1>0 DEF IInv, LateInv
\* A key that a live leader or a winner has is not deleted, and its lease only
\* gets longer.
<1>4. ASSUME NEW c \in Candidates, key = Token(c),
             pc[c] \notin {"crashed", "exited"}
      PROVE  key' = key /\ left' >= left
  <2>1. m[1] = "del" => m[2] # Token(c)
    BY <1>4, <1>a DEF IInv, LateInv, Token, Tokens, TypeOK
  <2>2. CASE m[1] = "setnx"
    BY <2>2, <1>b, <1>4 DEF SetNX, redisVars, IInv, TypeOK
  <2>3. CASE m[1] = "renew"
    BY <2>3, <1>b, <1>4 DEF RenewScript, redisVars, IInv, TypeOK
  <2>4. CASE m[1] = "del"
    BY <2>1, <2>4, <1>b, <1>4 DEF UnlockScript, redisVars, IInv, TypeOK
  <2> QED BY <1>a, <2>2, <2>3, <2>4
<1>5. LeaseInv'
  <2>1. ASSUME NEW c \in Candidates
        PROVE  Token(c)' = Token(c)
    BY <1>0 DEF Token
  <2>2. ASSUME NEW c \in Candidates, pc'[c] = "campaign", rpc'[c] = "yes"
        PROVE  key' = Token(c)' /\ left' + age'[c] >= TTL
    BY <1>0, <1>4, <2>1, <2>2, <1>1 DEF IInv, LeaseInv, TypeOK
  <2>3. ASSUME NEW c \in live'
        PROVE  /\ c \in renewing' /\ key' = Token(c)'
               /\ rpc'[c] # "no"
               /\ rpc'[c] # "none" => age'[c] + timer'[c] = Interval
               /\ IF rpc'[c] = "sent"
                  THEN left' + ReplyDelay + Interval + age'[c] >= TTL
                  ELSE left' + ReplyDelay + Interval >= TTL + timer'[c]
    <3>1. c \in live /\ c \in Candidates /\ pc[c] = "lead"
      BY <1>0, <2>3 DEF IInv, TypeOK, RoleInv, roleVars
    <3>2. key' = key /\ left' >= left
      BY <3>1, <1>4 DEF IInv, LeaseInv
    <3> QED BY <3>1, <3>2, <1>0, <2>1, <1>1 DEF IInv, LeaseInv, TypeOK, roleVars
  <2> QED BY <2>2, <2>3 DEF LeaseInv
<1> QED BY <1>1, <1>2, <1>3, <1>5 DEF IInv

\* Time passes: nobody is urgent, so that every budget has a tick left.
LEMMA TickKeeps ==
    ASSUME Timely, IInv, Tick
    PROVE  IInv'
<1> USE IntervalFacts, TokenFacts DEF Timely
<1>1. TypeOK'
  <2>1. left' \in 0..TTL /\ key' \in Tokens \cup {None}
    BY DEF IInv, TypeOK, Tick
  <2>2. timer' \in [Candidates -> 0..Interval]
    BY DEF IInv, TypeOK, Tick
  <2>3. age' \in [Candidates -> 0..TTL]
    BY DEF IInv, TypeOK, RoleInv, Tick, Aging, Urgent
  <2> QED BY <2>1, <2>2, <2>3 DEF IInv, TypeOK, Tick, roleVars
<1>2. RoleInv'
  BY DEF IInv, TypeOK, RoleInv, Tick, Aging, Urgent, roleVars
<1>3. LateInv'
  BY DEF IInv, LateInv, Tick
<1>4. ASSUME NEW c \in Candidates, pc[c] = "campaign", rpc[c] = "yes"
      PROVE  key' = Token(c)' /\ left' + age'[c] >= TTL
  <2>1. key = Token(c) /\ left + age[c] >= TTL /\ age[c] < ReplyDelay
    BY <1>4 DEF IInv, LeaseInv, RoleInv, TypeOK, Tick, Urgent
  <2>2. left > 1 /\ age'[c] = age[c] + 1
    BY <2>1, <1>4 DEF IInv, TypeOK, Tick, Aging
  <2> QED BY <2>1, <2>2 DEF IInv, TypeOK, Tick, Token
<1>5. ASSUME NEW c \in live
      PROVE  /\ key' = Token(c)'
             /\ rpc[c] # "none" => age'[c] + timer'[c] = Interval
             /\ IF rpc[c] = "sent"
                THEN left' + ReplyDelay + Interval + age'[c] >= TTL
                ELSE left' + ReplyDelay + Interval >= TTL + timer'[c]
  <2>0. c \in Candidates /\ c \in renewing /\ pc[c] = "lead" /\ key = Token(c)
    BY DEF IInv, TypeOK, RoleInv, LeaseInv
  <2>1. CASE rpc[c] = "none"
    <3>1. timer[c] > 0 /\ timer'[c] = timer[c] - 1
      BY <2>0, <2>1 DEF IInv, TypeOK, Tick, Urgent
    <3>2. left + ReplyDelay + Interval >= TTL + timer[c]
      BY <2>0, <2>1 DEF IInv, LeaseInv
    <3>3. left > 1
      BY <3>1, <3>2, <2>0 DEF IInv, TypeOK
    <3> QED BY <2>0, <2>1, <3>1, <3>2, <3>3 DEF IInv, TypeOK, Tick, Token
  <2>2. CASE rpc[c] # "none"
    <3>1. age[c] < Interval /\ age'[c] = age[c] + 1
      BY <2>0, <2>2 DEF IInv, TypeOK, RoleInv, Tick, Urgent, Aging
    <3>2. age[c] + timer[c] = Interval
      BY <2>0, <2>2 DEF IInv, LeaseInv
    <3>3. timer[c] > 0 /\ timer'[c] = timer[c] - 1
      BY <2>0, <3>1, <3>2 DEF IInv, TypeOK, Tick
    <3>4. IF rpc[c] = "sent"
          THEN left + ReplyDelay + Interval + age[c] >= TTL
          ELSE left + ReplyDelay + Interval >= TTL + timer[c]
      BY <2>0 DEF IInv, LeaseInv
    <3>5. left > 1
      BY <2>0, <3>1, <3>2, <3>3, <3>4 DEF IInv, TypeOK
    <3> QED BY <2>0, <2>2, <3>1, <3>2, <3>3, <3>4, <3>5 DEF IInv, TypeOK, Tick, Token
  <2> QED BY <2>1, <2>2
<1>6. LeaseInv'
  BY <1>4, <1>5 DEF IInv, LeaseInv, Tick, roleVars
<1> QED BY <1>1, <1>2, <1>3, <1>6 DEF IInv

-----------------------------------------------------------------------------
(* The theorems *)

\* The lease invariant holds from the start and through every step of every
\* process, of Redis, of the network and of time.
THEOREM InductiveInvariant ==
    ASSUME Timely
    PROVE  Spec => []IInv
<1>1. Init => IInv
  BY IntervalFacts DEF Init, IInv, TypeOK, PC, RoleInv, LateInv, LeaseInv
<1>2. IInv /\ [Next]_vars => IInv'
  <2> SUFFICES ASSUME IInv, [Next]_vars
               PROVE  IInv'
    OBVIOUS
  <2>1. ASSUME NEW c \in Candidates,
               \/ ProcStep(c) \/ RedisStep(c)
               \/ CampaignError(c) \/ RenewLost(c) \/ OuterCancel(c) \/ GiveUp(c)
               \/ Crash(c)
        PROVE  IInv'
    BY <2>1, CampaignKeeps, ExecSetNXKeeps, WonKeeps, NotWonKeeps, CampaignErrorKeeps,
       RenewTickKeeps, ExecRenewKeeps, RenewedKeeps, RenewLostKeeps, OuterCancelKeeps,
       GiveUpKeeps, ExecUnlockKeeps, ResignedKeeps, LeaveKeeps, CrashKeeps
       DEF ProcStep, RedisStep
  <2>2. CASE UNCHANGED vars
    BY <2>2 DEF vars, IInv, TypeOK, RoleInv, LateInv, LeaseInv, Token
  <2> QED BY <2>1, <2>2, LateArrivesKeeps, TickKeeps DEF Next
<1> QED BY <1>1, <1>2, PTL DEF Spec

\* dlock.go:18-19 and 181-183 of pkg/infra/redis: neither expiry nor a late or
\* foreign release takes the key from a process whose leaderCtx is live.
THEOREM LeaderHoldsKeyThm ==
    ASSUME Timely
    PROVE  Spec => []LeaderHoldsKey
<1>1. IInv => LeaderHoldsKey
  BY DEF IInv, LeaseInv, LeaderHoldsKey
<1> QED BY <1>1, InductiveInvariant, PTL

\* dlock.go:35 of pkg/store/dlock: at most one elected leader at any time.
THEOREM AtMostOneLeaderThm ==
    ASSUME Timely
    PROVE  Spec => []AtMostOneLeader
<1>1. IInv => AtMostOneLeader
  BY TokenFacts DEF IInv, TypeOK, LeaseInv, AtMostOneLeader
<1> QED BY <1>1, InductiveInvariant, PTL
=============================================================================
