-------------------------------- MODULE Group -------------------------------
(***************************************************************************)
(* pkg/domain/group over pkg/domain/relationship: one group with roles,    *)
(* requests, a banlist and a limit.  Every operation runs under the lock   *)
(* of the group.  A role is the state of the user's edge, and a request is *)
(* an edge too, ranked above a plain member.                               *)
(***************************************************************************)
EXTENDS Integers, FiniteSets

CONSTANTS
    People,
    Limits  \* the values of MaxMembers; 0 means no limit

VARIABLES
    role,        \* role[u]: the state of the edge to u, Outside without one
    ownerID,     \* info.OwnerID
    banned,      \* gs.banned
    maxMembers,  \* info.MaxMembers
    overbooked   \* history: the limit was lowered below the members, or an
                 \* applicant was given a role without Approve

vars == <<role, ownerID, banned, maxMembers, overbooked>>

Outside == -1
RoleMember == 0
RolePending == 1
RoleAdmin == 2
RoleOwner == 3

TypeOK ==
    /\ role \in [People -> Outside..RoleOwner]
    /\ ownerID \in People /\ banned \subseteq People /\ maxMembers \in Limits /\ overbooked \in BOOLEAN

Init ==
    /\ ownerID \in People
    /\ role = [u \in People |-> IF u = ownerID THEN RoleOwner ELSE Outside]
    /\ banned = {} /\ maxMembers \in Limits /\ overbooked = FALSE

Members == {u \in People : role[u] \in {RoleMember, RoleAdmin, RoleOwner}}
IsFull == maxMembers > 0 /\ Cardinality(Members) >= maxMembers
SetEdge(u, r) == role' = [role EXCEPT ![u] = r]

Join(u) ==
    /\ u \notin banned /\ role[u] = Outside /\ ~IsFull
    /\ SetEdge(u, RoleMember)
    /\ UNCHANGED <<ownerID, banned, maxMembers, overbooked>>
Request(u) ==
    /\ u \notin banned /\ role[u] = Outside /\ ~IsFull
    /\ SetEdge(u, RolePending)
    /\ UNCHANGED <<ownerID, banned, maxMembers, overbooked>>
Approve(a, u) ==
    /\ role[a] >= RoleAdmin /\ role[u] = RolePending /\ ~IsFull
    /\ SetEdge(u, RoleMember)
    /\ UNCHANGED <<ownerID, banned, maxMembers, overbooked>>
Reject(a, u) ==
    /\ role[a] >= RoleAdmin /\ role[u] = RolePending
    /\ SetEdge(u, Outside)
    /\ UNCHANGED <<ownerID, banned, maxMembers, overbooked>>
Leave(u) ==
    /\ role[u] \notin {Outside, RoleOwner}
    /\ SetEdge(u, Outside)
    /\ UNCHANGED <<ownerID, banned, maxMembers, overbooked>>
Kick(a, u) ==
    /\ role[a] >= RoleAdmin /\ role[u] # Outside /\ role[u] < role[a]
    /\ SetEdge(u, Outside)
    /\ UNCHANGED <<ownerID, banned, maxMembers, overbooked>>

\* setRole (Promote and Demote): whoever has an edge gets the role, the owner
\* and an applicant too.
SetRole(a, u, r) ==
    /\ role[a] >= RoleOwner /\ role[u] # Outside
    /\ SetEdge(u, r)
    /\ overbooked' = (overbooked \/ (role[u] = RolePending /\ IsFull))
    /\ UNCHANGED <<ownerID, banned, maxMembers>>

\* Mutant of TransferOwner: the old owner keeps the role.
TransferKeepsOwner(a, u) ==
    /\ role[a] >= RoleOwner /\ role[u] # Outside
    /\ SetEdge(u, RoleOwner)
    /\ ownerID' = u
    /\ overbooked' = (overbooked \/ (role[u] = RolePending /\ IsFull))
    /\ UNCHANGED <<banned, maxMembers>>

\* Both edges are removed and added anew, the old owner's first; a transfer to
\* oneself fails at the second one, whose error is ignored.
TransferOwner(a, u) ==
    /\ role[a] >= RoleOwner /\ role[u] # Outside
    /\ role' = IF a = u THEN [role EXCEPT ![a] = RoleAdmin]
               ELSE [role EXCEPT ![a] = RoleAdmin, ![u] = RoleOwner]
    /\ ownerID' = u
    /\ overbooked' = (overbooked \/ (role[u] = RolePending /\ IsFull))
    /\ UNCHANGED <<banned, maxMembers>>

Ban(a, u) ==
    /\ role[a] >= RoleAdmin /\ role[u] < role[a]
    /\ SetEdge(u, Outside) /\ banned' = banned \cup {u}
    /\ UNCHANGED <<ownerID, maxMembers, overbooked>>
Unban(a, u) ==
    /\ role[a] >= RoleAdmin /\ u \in banned
    /\ banned' = banned \ {u}
    /\ UNCHANGED <<role, ownerID, maxMembers, overbooked>>
SetMaxMembers(a, n) ==
    /\ role[a] >= RoleOwner
    /\ maxMembers' = n
    /\ overbooked' = (overbooked \/ (n > 0 /\ Cardinality(Members) > n))
    /\ UNCHANGED <<role, ownerID, banned>>

Next ==
    \E u \in People :
        \/ Join(u) \/ Request(u) \/ Leave(u)
        \/ \E n \in Limits : SetMaxMembers(u, n)
        \/ \E a \in People :
              \/ Approve(a, u) \/ Reject(a, u) \/ Kick(a, u)
              \/ TransferOwner(a, u) \/ Ban(a, u) \/ Unban(a, u)
              \/ \E r \in {RoleAdmin, RoleMember} : SetRole(a, u, r)

Spec == Init /\ [][Next]_vars

-----------------------------------------------------------------------------
(* Properties *)

\* group.go:14-16: there is at most one owner and the record names it; nobody on
\* the banlist has a role or a request; members fit unless the owner overrode
\* the limit.
RolesAgree ==
    /\ \A u \in People : role[u] = RoleOwner => u = ownerID
    /\ \A u \in banned : role[u] = Outside
    /\ overbooked \/ maxMembers = 0 \/ Cardinality(Members) <= maxMembers

\* It is inductive as it stands.
IInv == TypeOK /\ RolesAgree
=============================================================================
