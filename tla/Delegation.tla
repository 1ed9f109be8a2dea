----------------------------- MODULE Delegation -----------------------------
(***************************************************************************)
(* Delegation of authority: any principal may confer on any other          *)
(* principal whatever can_create_permission lets it confer                 *)
(* (UnlockedSession::grant_permission, crates/thorax-ops/src/principals.rs,*)
(* and the same check made by the validator in select_authorized_records). *)
(* Groups, deletions and the fixpoint that decides which grants count are  *)
(* the subject of module Effective; here a permission once conferred stays,*)
(* which is the worst case for the property.                               *)
(***************************************************************************)
EXTENDS Authz

CONSTANTS
    Holders,      \* the principals
    Starts,       \* the authority assignments a run may start from
    MaxGrants     \* per start, a bound on the length of a delegation chain

ASSUME StartsAssumption    == Starts \subseteq [Holders -> AuthoritySets]
ASSUME MaxGrantsAssumption == MaxGrants \in [Starts -> Nat]

VARIABLES
    start,    \* what the administrator handed out
    auth,     \* authority_for_user of every user
    grants    \* number of grants made so far

delegationVars == <<start, auth, grants>>

DelegationTypeOK ==
    /\ start \in Starts
    /\ auth \in [Holders -> AuthoritySets]
    /\ grants \in 0 .. MaxGrants[start]

DelegationInit ==
    /\ start \in Starts
    /\ auth = start
    /\ grants = 0

\* grant_permission: the issuer must be able to create the permission under
\* its current effective authority; the subject then holds it.
delegate_permission(issuer, subject, perm) ==
    /\ grants < MaxGrants[start]
    /\ can_create_permission(auth[issuer], perm)
    /\ auth' = [auth EXCEPT ![subject] = add_permission(@, perm)]
    /\ grants' = grants + 1
    /\ UNCHANGED start

\* Joining a group adds everything the group confers; the actor must be able
\* to create each of those permissions itself (ensure_can_confer_group) and be
\* an administrator.  The group's authority is that of some principal here.
confer_group(actor, group, member) ==
    /\ grants < MaxGrants[start]
    /\ auth[actor].administer
    /\ \A p \in as_grant_permissions(auth[group]) :
           can_create_permission(auth[actor], p)
    /\ auth' = [auth EXCEPT ![member] = merge_from(@, auth[group])]
    /\ grants' = grants + 1
    /\ UNCHANGED start

DelegationNext ==
    \/ \E i, s \in Holders, p \in Permissions : delegate_permission(i, s, p)
    \/ \E a, g, m \in Holders : confer_group(a, g, m)

DelegationSpec == DelegationInit /\ [][DelegationNext]_delegationVars

(* ----------------------------- properties ------------------------------ *)

\* Nobody becomes an administrator unless an administrator was there.
AdministerWithin ==
    (\E u \in Holders : auth[u].administer) => \E v \in Holders : start[v].administer

\* Delegation never amplifies: whatever secret anybody can come to read,
\* write or manage, through any chain of grants that can_create_permission
\* accepts, somebody could already read, write or manage at the start.  It
\* rests on subsumption being sound for every pair of tuple and label
\* matchers (selector_subsumes), including Absent, In and missing labels.
NoAmplification ==
    /\ AdministerWithin
    /\ \A s \in Secrets, u \in Holders :
         /\ can_read(auth[u], s)   => \E v \in Holders : can_read(start[v], s)
         /\ can_write(auth[u], s)  => \E v \in Holders : can_write(start[v], s)
         /\ can_manage(auth[u], s) => \E v \in Holders : can_manage(start[v], s)

\* Whoever can hand out access can exercise it (authz.rs: "anyone who can
\* administer access can always decrypt what they administer - which is what
\* lets every access-addition path auto-encrypt without a gap").
GranterCanExercise ==
    \A u \in Holders, p \in Permissions :
        can_create_permission(auth[u], p) =>
            \A s \in Secrets : selector_matches(p.selector, s) =>
                /\ p.class = "read" => can_read(auth[u], s)
                /\ p.class = "write" => can_write(auth[u], s)
                /\ p.class = "manage" => can_manage(auth[u], s)
=============================================================================
