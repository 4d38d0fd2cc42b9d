---------------------------- MODULE AuthorityMap ----------------------------
(***************************************************************************)
(* Delegation chains with escalation prevention (qxfx0-governance).        *)
(*                                                                         *)
(* A delegation from -> to grants permissions to the principal `to`.       *)
(* delegate refuses an edge that closes a cycle; has_permission climbs     *)
(* from a principal to all who delegated to it.  Both walks visit exactly  *)
(* the least set closed under the edges, which is how they are written.    *)
(***************************************************************************)
EXTENDS FiniteSets

CONSTANTS Principals, Permissions

VARIABLE delegations

Delegation == [from : Principals, to : Principals, permissions : SUBSET Permissions]

ClosedDownwards(S, D) == \A d \in D : d.from \in S => d.to \in S
ClosedUpwards(S, D) == \A d \in D : d.to \in S => d.from \in S

(* The nodes the walk of would_create_cycle visits. *)
Reach(p, D) ==
  {q \in Principals : \A S \in SUBSET Principals :
                        (p \in S /\ ClosedDownwards(S, D)) => q \in S}

(* The principals has_permission climbs to. *)
Delegators(p, D) ==
  {q \in Principals : \A S \in SUBSET Principals :
                        (p \in S /\ ClosedUpwards(S, D)) => q \in S}

WouldCreateShortCycle(from, to) == [from |-> to, to |-> from] \in
  {[from |-> d.from, to |-> d.to] : d \in delegations}

WouldCreateCycle(from, to) == from \in Reach(to, delegations)

(* Any delegation into a principal on the way up counts for its permissions. *)
HasPermission(p, x, D) == \E d \in D : d.to \in Delegators(p, D) /\ x \in d.permissions

Delegate(from, to, permissions) ==
  /\ from # to
  /\ ~WouldCreateCycle(from, to)
  /\ delegations' = delegations \cup {[from |-> from, to |-> to, permissions |-> permissions]}

AuthorityInit == delegations = {}

AuthorityNext == \E from, to \in Principals, permissions \in SUBSET Permissions :
                   Delegate(from, to, permissions)

AuthoritySpec == AuthorityInit /\ [][AuthorityNext]_delegations
----------------------------------------------------------------------------
(* Every delegation is a delegation between principals. *)
AuthorityTypeOK == delegations \subseteq Delegation

(* No principal is below itself, however long the chain and in whatever    *)
(* order its delegations were made.                                        *)
NoCycle == \A d \in delegations : d.from \notin Reach(d.to, delegations)

(***************************************************************************)
(* No delegation empowers the one who makes it: a delegator has the same   *)
(* permissions with it and without it, so a group cannot raise itself by   *)
(* delegating around.                                                      *)
(***************************************************************************)
NobodyEmpowersThemselves ==
  \A d \in delegations : \A x \in Permissions :
    HasPermission(d.from, x, delegations) <=> HasPermission(d.from, x, delegations \ {d})
=============================================================================
