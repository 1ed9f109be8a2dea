------------------------------- MODULE Authz -------------------------------
(***************************************************************************)
(* Authority over the keyspace (crates/thorax-core/src/authz.rs).          *)
(*                                                                         *)
(* A secret is addressed by a tuple of segments and a set of labels; a     *)
(* keyspace selector matches secrets by a tuple matcher and one label      *)
(* matcher per label key.  A principal's AuthoritySet holds selectors it   *)
(* may read and write, selectors it may manage (with the classes of        *)
(* permission it may hand out there), and the administer flag.             *)
(*                                                                         *)
(* This module is the pure algorithm.  Module Delegation puts it in the    *)
(* smallest system in which its guarantee can be stated.                   *)
(***************************************************************************)
EXTENDS Naturals, Sequences

CONSTANTS
    Segments,      \* tuple segments
    Tuples,        \* the tuples secrets and selectors are built from
    LabelKeys,     \* label keys
    LabelValues,   \* label values
    NoLabel        \* a label key the secret does not carry

ASSUME TuplesAssumption  == Tuples \subseteq Seq(Segments)
ASSUME NoLabelAssumption == NoLabel \notin LabelValues

(* ------------------------------ the data ------------------------------- *)

\* TupleMatcherV1; "any" carries the empty tuple, and an empty prefix is
\* structurally invalid.
TupleMatchers ==
    [kind : {"any"}, tuple : {<<>>}]
        \cup [kind : {"exact"}, tuple : Tuples]
        \cup [kind : {"prefix"}, tuple : Tuples \ {<<>>}]

\* LabelMatcherV1, and "none" for a key the selector does not constrain.
\* Equals(v) carries the singleton {v}; an empty In is structurally invalid.
LabelMatchers ==
    [kind : {"none", "any", "absent"}, values : {{}}]
        \cup [kind : {"equals"}, values : {{v} : v \in LabelValues}]
        \cup [kind : {"in"}, values : SUBSET LabelValues \ {{}}]

Selectors == [tuple : TupleMatchers, labels : [LabelKeys -> LabelMatchers]]
Secrets   == [tuple : Tuples, labels : [LabelKeys -> LabelValues \cup {NoLabel}]]

GrantClasses == {"read", "write", "manage"}
ManageGrants == [selector : Selectors, grantable : SUBSET GrantClasses \ {{}}]

\* GrantPermissionV1.  Every class carries the two fields, so that records of
\* different classes can be compared; only "manage" uses grantable.
Unrestricted ==
    [tuple |-> [kind |-> "any", tuple |-> <<>>],
     labels |-> [l \in LabelKeys |-> [kind |-> "none", values |-> {}]]]

Read(sel)   == [class |-> "read", selector |-> sel, grantable |-> {}]
Write(sel)  == [class |-> "write", selector |-> sel, grantable |-> {}]
Manage(sel, classes) ==
    [class |-> "manage", selector |-> sel, grantable |-> classes]
Administer  == [class |-> "administer", selector |-> Unrestricted, grantable |-> {}]

Permissions ==
    {Read(s) : s \in Selectors} \cup {Write(s) : s \in Selectors}
        \cup {Manage(s, c) : s \in Selectors, c \in SUBSET GrantClasses \ {{}}}
        \cup {Administer}

AuthoritySets ==
    [read : SUBSET Selectors, write : SUBSET Selectors,
     manage : SUBSET ManageGrants, administer : BOOLEAN]

NoAuthority == [read |-> {}, write |-> {}, manage |-> {}, administer |-> FALSE]

root ==
    [read |-> {Unrestricted}, write |-> {Unrestricted},
     manage |-> {[selector |-> Unrestricted, grantable |-> GrantClasses]},
     administer |-> TRUE]

(* --------------------- matching and subsumption ------------------------ *)

starts_with(t, p) ==
    /\ Len(p) <= Len(t)
    /\ \A i \in 1 .. Len(p) : t[i] = p[i]

tuple_matches(m, t) ==
    \/ m.kind = "any"
    \/ m.kind = "exact" /\ m.tuple = t
    \/ m.kind = "prefix" /\ starts_with(t, m.tuple)

tuple_subsumes(parent, child) ==
    \/ parent.kind = "any"
    \/ /\ parent.kind = "prefix"
       /\ child.kind \in {"prefix", "exact"}
       /\ starts_with(child.tuple, parent.tuple)
    \/ /\ parent.kind = "exact"
       /\ child.kind = "exact"
       /\ parent.tuple = child.tuple

\* An unconstrained key is not in the code's label list at all, so it always
\* matches.
label_matches(m, v) ==
    \/ m.kind = "none"
    \/ m.kind = "any" /\ v # NoLabel
    \/ m.kind \in {"equals", "in"} /\ v # NoLabel /\ v \in m.values
    \/ m.kind = "absent" /\ v = NoLabel

label_subsumes(parent, child) ==
    \/ parent.kind = "any" /\ child.kind \in {"any", "equals", "in"}
    \/ /\ parent.kind \in {"equals", "in"}
       /\ child.kind \in {"equals", "in"}
       /\ child.values \subseteq parent.values
    \/ parent.kind = "absent" /\ child.kind = "absent"

labels_subsume(parent, child) ==
    \A l \in LabelKeys :
        parent.labels[l].kind # "none" =>
            label_subsumes(parent.labels[l], child.labels[l])

selector_matches(grant, secret) ==
    /\ tuple_matches(grant.tuple, secret.tuple)
    /\ \A l \in LabelKeys : label_matches(grant.labels[l], secret.labels[l])

selector_subsumes(parent, child) ==
    /\ tuple_subsumes(parent.tuple, child.tuple)
    /\ labels_subsume(parent, child)

(* ------------------------- authority queries --------------------------- *)

Covers(sels, secret) == \E g \in sels : selector_matches(g, secret)
Over(sels, sel)      == \E g \in sels : selector_subsumes(g, sel)
Managed(a)           == {m.selector : m \in a.manage}

\* Mutant: managing does not imply reading.
can_read_strict(a, secret) == a.administer \/ Covers(a.read \cup a.write, secret)

can_read(a, secret)   == a.administer \/ Covers(a.read \cup a.write \cup Managed(a), secret)
can_write(a, secret)  == a.administer \/ Covers(a.write \cup Managed(a), secret)
can_manage(a, secret) == a.administer \/ Covers(Managed(a), secret)

holds_read_over(a, sel)  == a.administer \/ Over(a.read \cup a.write \cup Managed(a), sel)
holds_write_over(a, sel) == a.administer \/ Over(a.write \cup Managed(a), sel)

\* Somebody whose manage grant over all of sel lets them hand out class.
may_grant(a, class, sel) ==
    \E m \in a.manage : class \in m.grantable /\ selector_subsumes(m.selector, sel)

\* Mutant: a manager who may delegate management may appoint administrators.
can_create_permission_appoints(a, perm) ==
    \/ a.administer
    \/ perm.class \in {"read", "write"} /\ may_grant(a, perm.class, perm.selector)
    \/ /\ perm.class \in {"manage", "administer"}
       /\ \E m \in a.manage :
              /\ "manage" \in m.grantable
              /\ selector_subsumes(m.selector, perm.selector)
              /\ perm.grantable \subseteq m.grantable

can_create_permission(a, perm) ==
    \/ a.administer
    \/ /\ perm.class = "read"
       /\ holds_read_over(a, perm.selector)
       /\ may_grant(a, "read", perm.selector)
    \/ /\ perm.class = "write"
       /\ holds_write_over(a, perm.selector)
       /\ may_grant(a, "write", perm.selector)
    \/ /\ perm.class = "manage"
       /\ \E m \in a.manage :
              /\ "manage" \in m.grantable
              /\ selector_subsumes(m.selector, perm.selector)
              /\ perm.grantable \subseteq m.grantable

\* Mutant: a delegated manage grant loses the right to delegate further.
add_permission_capped(a, perm) ==
    CASE perm.class = "read"   -> [a EXCEPT !.read = @ \cup {perm.selector}]
      [] perm.class = "write"  -> [a EXCEPT !.write = @ \cup {perm.selector}]
      [] perm.class = "manage" ->
             [a EXCEPT !.manage =
                 @ \cup {[selector |-> perm.selector,
                          grantable |-> perm.grantable \ {"manage"}]}]
      [] OTHER -> [a EXCEPT !.administer = TRUE]

add_permission(a, perm) ==
    CASE perm.class = "read"   -> [a EXCEPT !.read = @ \cup {perm.selector}]
      [] perm.class = "write"  -> [a EXCEPT !.write = @ \cup {perm.selector}]
      [] perm.class = "manage" ->
             [a EXCEPT !.manage =
                 @ \cup {[selector |-> perm.selector, grantable |-> perm.grantable]}]
      [] OTHER -> [a EXCEPT !.administer = TRUE]

merge_from(a, other) ==
    [read |-> a.read \cup other.read, write |-> a.write \cup other.write,
     manage |-> a.manage \cup other.manage,
     administer |-> a.administer \/ other.administer]

as_grant_permissions(a) ==
    {Read(s) : s \in a.read} \cup {Write(s) : s \in a.write}
        \cup {Manage(m.selector, m.grantable) : m \in a.manage}
        \cup (IF a.administer THEN {Administer} ELSE {})
=============================================================================
