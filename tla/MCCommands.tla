----------------------------- MODULE MCCommands -----------------------------
(***************************************************************************)
(* Two machines: the root's and that of B, an administrator by a grant of  *)
(* its own and as a member of a group.  C is a member of the group.  D's   *)
(* user record names B's signing key, which B alone has proved to hold.    *)
(***************************************************************************)
EXTENDS Commands

CONSTANTS A, B, C, D, g, h, gB, gg, gC, g1, bob, prod, m1, m2, keyA, keyB, keyC

MCUsers   == {A, B, C, D}
MCGroups  == {g, h}
MCGrants  == {gB, gg, gC, g1}
MCKeyOf   == A :> keyA @@ B :> keyB @@ C :> keyC @@ D :> keyB
MCRank    == A :> 1 @@ B :> 2 @@ C :> 3 @@ D :> 4
MCHolds   == m1 :> {A} @@ m2 :> {B}
MCSegments == {"db", "w.b", "w-b"}
MCTuples   == {<<"db">>, <<"w.b">>, <<"w-b">>}
MCEnvSegment == "db" :> "DB" @@ "w.b" :> "W_B" @@ "w-b" :> "W_B" @@ "f" :> "F"

Secret(t)  == [tuple |-> t, labels |-> [l \in LabelKeys |-> NoLabel]]
db         == Secret(<<"db">>)
web        == Secret(<<"w.b">>)
log        == Secret(<<"w-b">>)
Only(t)    == [tuple |-> [kind |-> "exact", tuple |-> t], labels |-> [l \in LabelKeys |-> NoLabel]]

User(u, n)       == {Record("user", <<u>>, TRUE, NoData, n, A),
                     Record("entry", <<u>>, TRUE, NoData, n, u)}
Grant(x, p, perm, n) ==
    Record("grant", <<x>>, TRUE, [NoData EXCEPT !.subject = p, !.permission = perm], n, A)
Value(v, f, slots) ==
    [NoData EXCEPT !.value = [primary |-> v, fields |-> f, slots |-> slots, seal |-> m1]]

Base ==
    User(B, 1) \cup User(C, 1) \cup
    {Record("user", <<D>>, TRUE, NoData, 1, A),
     Grant(gB, B, Administer, 2),
     Record("group", <<g>>, TRUE, NoData, 2, A),
     Record("member", <<g, B>>, TRUE, NoData, 3, A),
     Record("member", <<g, C>>, TRUE, NoData, 3, A),
     Record("handle", <<bob>>, TRUE, [NoData EXCEPT !.subject = C], 3, A),
     Record("handle", <<bob>>, TRUE, [NoData EXCEPT !.subject = B], 4, B),
     Record("secret", <<web>>, TRUE, Value("old", NoFields, {A, B}), 3, A),
     Record("secret", <<db>>, TRUE, Value("old", NoFields, {A, B}), 3, A),
     Record("secret", <<db>>, TRUE, Value("new", [NoFields EXCEPT !["f"] = "x"], {A, B}), 4, B)}

Nobody == [m \in Machines |-> None]

Run(m, u, op, on, arg) == [at |-> m, as |-> u, op |-> op, on |-> on, arg |-> arg]

Ask(class, x, exact) ==
    [class |-> class, selector |-> x, exact |-> exact, grantable |-> {"read"}]

\* Who is who: people are removed, restored and promoted on both sides.
Principals1 ==
    [vault  |-> Base \cup {Grant(gg, g, Administer, 3), Grant(gC, C, Read(Only(<<"db">>)), 3)},
     default |-> Nobody,
     issues |-> {Run(m1, A, "grant_delete", gB, None),
                 Run(m1, A, "user_delete", C, None),
                 Run(m1, A, "user_delete", bob, None),
                 Run(m1, A, "user_add", C, None),
                 Run(m1, None, "group_delete", g, None),
                 Run(m2, B, "group_remove", g, B),
                 Run(m2, B, "user_delete", C, None),
                 Run(m2, bob, "group_create", None, None),
                 Run(m2, bob, "user_use", B, None),
                 Run(m2, None, "group_add", g, C),
                 Run(m2, B, "handle_set", bob, C)}]

\* What is what: secrets are written, moved and deleted on both sides, while
\* access to them is granted and revoked.
Secrets1 ==
    [vault  |-> Base \cup {Grant(gg, g, Write(Only(<<"db">>)), 3)},
     default |-> Nobody,
     issues |-> {Run(m1, A, "set", db, "v"),
                 Run(m1, A, "field_set", db, <<"f", "y">>),
                 Run(m1, A, "grant_delete", gB, None),
                 Run(m2, B, "grant", C, Ask("read", db, TRUE)),
                 Run(m1, A, "name_set", prod, None),
                 Run(m2, B, "move", db, log),
                 Run(m2, B, "field_delete", db, "f"),
                 Run(m2, B, "delete", db, None),
                 Run(m2, B, "group_add", g, A)}]

\* Who reads what: B publishes a value and is removed, or gives up its
\* authority, while the root keeps reading.
Reads1 ==
    [vault  |-> Base,
     default |-> Nobody,
     issues |-> {Run(m1, A, "get", web, None),
                 Run(m1, None, "show", web, None),
                 Run(m2, B, "run", {[name |-> <<"PW">>, query |-> Only(<<"w.b">>)]}, None),
                 Run(m1, None, "status", None, None),
                 Run(m1, A, "user_delete", B, None),
                 Run(m2, B, "set", web, "v"),
                 Run(m2, B, "grant_delete", gB, None)}]

Reads2 ==
    [vault  |-> Base,
     default |-> m1 :> A @@ m2 :> None,
     issues |-> {Run(m1, B, "list", None, None),
                 Run(m1, None, "field_get", db, "f"),
                 Run(m1, A, "grant", C, Ask("manage", None, FALSE)),
                 Run(m2, B, "field_list", db, None),
                 Run(m2, B, "set", web, "v")}]

\* An application keeps a session open while the vault changes under it and
\* another process of its machine sees it.
Apps1 ==
    [vault  |-> Base,
     default |-> m1 :> A @@ m2 :> B,
     issues |-> {Run(m1, Application, "set", db, "v"),
                 Run(m1, Application, "get", db, None),
                 Run(m1, Application, "move", db, log),
                 Run(m1, None, "status", None, None),
                 Run(m2, B, "set", db, "v")}]

Apps2 ==
    [vault  |-> Base,
     default |-> m1 :> A @@ m2 :> B,
     issues |-> {Run(m1, Application, "field_list", db, None),
                 Run(m1, Application, "delete", db, None),
                 Run(m1, Application, "field_set", db, <<"f", "y">>),
                 Run(m1, Application, "field_delete", db, "f"),
                 Run(m1, None, "run", {[name |-> None, query |-> Unrestricted]}, None),
                 Run(m2, B, "set", db, "v")}]

MCScenarios == {Principals1, Secrets1, Reads1, Reads2, Apps1, Apps2}
=============================================================================
