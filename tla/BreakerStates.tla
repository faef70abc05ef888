---------------------------- MODULE BreakerStates ----------------------------
(***************************************************************************)
(* What a circuit breaker promises its users: the three states, and the    *)
(* only moves between them.  An open breaker closes only through a probing *)
(* phase, unless it can be reset by hand.                                  *)
(***************************************************************************)
CONSTANT ManualReset  \* whether the breaker offers Reset

VARIABLE state

Init == state = "closed"

Trip == state = "closed" /\ state' = "open"
Cool == state = "open" /\ state' = "half-open"
Recover == state = "half-open" /\ state' = "closed"
Relapse == state = "half-open" /\ state' = "open"
Reset == ManualReset /\ state' = "closed"

Next == Trip \/ Cool \/ Recover \/ Relapse \/ Reset

Spec == Init /\ [][Next]_state
=============================================================================
