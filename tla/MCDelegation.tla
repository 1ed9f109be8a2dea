--------------------------- MODULE MCDelegation ---------------------------
(***************************************************************************)
(* Instance of Delegation for TLC: two tuples one of which extends the     *)
(* other, one label key with two values, a manager and a delegate.         *)
(***************************************************************************)
EXTENDS Delegation

CONSTANTS manager, delegate, env

MCSegments == {"a", "b"}
MCTuples   == {<<"a">>, <<"a", "b">>}

\* The manager holds one manage grant; the delegate holds nothing.
ManagerOnly(sel, classes) ==
    [NoAuthority EXCEPT !.manage = {[selector |-> sel, grantable |-> classes]}]

Singles ==
    {ManagerOnly(s, c) : s \in Selectors,
                         c \in {{"read", "manage"}, {"write", "manage"}}}

\* Chains of grants start from a manager alone.
MCStarts ==
    {[u \in {manager, delegate} |-> IF u = manager THEN a ELSE NoAuthority]
        : a \in Singles}

\* The root user as manager: everything can be granted, and groups conferred.
MCStartsWithRoot ==
    MCStarts \cup
        {[u \in {manager, delegate} |-> IF u = manager THEN root ELSE NoAuthority]}

\* Chains of two grants where the branching allows it: from managers of given
\* tuples with given label values, who may hand out write.
Narrow(sel) == sel.tuple.kind # "any" /\ sel.labels[env].kind = "in"

MCMaxGrants ==
    [s \in MCStartsWithRoot |->
        IF \E m \in s[manager].manage : "read" \notin m.grantable /\ Narrow(m.selector)
        THEN 2 ELSE 1]
=============================================================================
