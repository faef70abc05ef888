------------------------------- MODULE Party --------------------------------
(***************************************************************************)
(* pkg/domain/party: a group with a leader and a limited number of seats.  *)
(* A private party reserves a seat per join request; when the leader       *)
(* leaves, the member that joined first takes over, and the party stops    *)
(* with its last member.  All operations run under one mutex; there is no  *)
(* operation that withdraws a request.                                     *)
(***************************************************************************)
EXTENDS Naturals, FiniteSets, Sequences, Functions

CONSTANTS
    Players,
    MaxSize  \* maxSize; 0 means no limit

VARIABLES
    leader,     \* p.leader
    members,    \* p.members
    joinOrder,  \* p.joinOrder
    requests,   \* p.requests
    reserved,   \* p.reserved
    stopped,    \* p.stopped
    openParty   \* p.open

vars == <<leader, members, joinOrder, requests, reserved, stopped, openParty>>

TypeOK ==
    /\ leader \in Players /\ members \subseteq Players
    /\ joinOrder \in Seq(Players) /\ requests \in Seq(Players)
    /\ reserved \in Nat /\ {stopped, openParty} \subseteq BOOLEAN

Init ==
    /\ leader \in Players
    /\ members = {leader} /\ joinOrder = <<leader>>
    /\ requests = <<>> /\ reserved = 0
    /\ stopped = FALSE
    /\ openParty \in BOOLEAN

\* canAddLocked
CanAdd == MaxSize = 0 \/ Cardinality(members) + reserved < MaxSize

Join(u) == members' = members \cup {u} /\ joinOrder' = Append(joinOrder, u)

RequestJoin(u) ==
    /\ ~stopped /\ u \notin members /\ CanAdd
    /\ \/ openParty /\ Join(u) /\ UNCHANGED <<requests, reserved>>
       \/ /\ ~openParty /\ u \notin Range(requests)
          /\ requests' = Append(requests, u) /\ reserved' = reserved + 1
          /\ UNCHANGED <<members, joinOrder>>
    /\ UNCHANGED <<leader, stopped, openParty>>

\* append(s[:i], s[i+1:]...), where i is the first place of e.
Without(s, e) ==
    LET i == CHOOSE j \in DOMAIN s : s[j] = e /\ \A k \in 1..(j - 1) : s[k] # e
    IN  SubSeq(s, 1, i - 1) \o SubSeq(s, i + 1, Len(s))

\* Accept only asks that the caller is p.leader, who may have left.
Accept(by, u) ==
    /\ by = leader /\ u \in Range(requests)
    /\ requests' = Without(requests, u) /\ reserved' = reserved - 1
    /\ Join(u)
    /\ UNCHANGED <<leader, stopped, openParty>>

\* Remove, by the leader or by the member itself; a leaving leader hands over
\* to the first of the join order.
RemoveMember(by, u) ==
    LET rest == Without(joinOrder, u) IN
    /\ by = u \/ by = leader
    /\ u \in members
    /\ members' = members \ {u}
    /\ joinOrder' = rest
    /\ leader' = IF u = leader /\ rest # <<>> THEN Head(rest) ELSE leader
    /\ stopped' = (stopped \/ (u = leader /\ members = {u}))
    /\ UNCHANGED <<requests, reserved, openParty>>

Promote(by, u) ==
    /\ by = leader /\ u \in members
    /\ leader' = u
    /\ UNCHANGED <<members, joinOrder, requests, reserved, stopped, openParty>>

Next ==
    \E u \in Players :
        RequestJoin(u) \/ \E by \in Players : Accept(by, u) \/ RemoveMember(by, u) \/ Promote(by, u)

Spec == Init /\ [][Next]_vars

-----------------------------------------------------------------------------
(* Properties *)

\* party.go:105, 264-272: members and reserved seats fit, so that Accept, which
\* does not look, never overbooks; a seat is reserved for exactly the users that
\* wait; the join order is that of the members; a party that runs is led by a
\* member.
SeatsFit ==
    /\ MaxSize = 0 \/ Cardinality(members) + Len(requests) <= MaxSize
    /\ reserved = Len(requests) /\ Range(requests) \cap members = {}
    /\ Range(joinOrder) = members /\ Len(joinOrder) = Cardinality(members)
    /\ stopped \/ leader \in members

\* The inductive invariant behind it: nobody is listed twice, and only a private
\* party has requests.
IInv ==
    /\ TypeOK /\ SeatsFit
    /\ IsInjective(joinOrder) /\ IsInjective(requests)
    /\ openParty => requests = <<>>
=============================================================================
