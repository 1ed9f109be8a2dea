----------------------------- MODULE Effective -----------------------------
(***************************************************************************)
(* The effective state of a vault (crates/thorax-core/src/validate): from  *)
(* a set of signed records to users, groups, memberships, grants, handles, *)
(* secrets and the authority of every principal.                           *)
(*                                                                         *)
(* The steps are those of validate_v1.  Envelope keys are resolved to the  *)
(* identities holding them.  The authority fixpoint selects the records    *)
(* their signers were entitled to issue, which gives new authorities,      *)
(* which select other records.  Deletions of users, groups and grants are  *)
(* admitted one at a time, for good.  The counters of what was admitted    *)
(* are compared with the machine's ratchet, and the whole is resolved a    *)
(* second time without the keys that fell behind it.                       *)
(*                                                                         *)
(* Signatures and structure are valid, and the vault's root is the trusted *)
(* one; module VaultLog treats vaults that are damaged or rolled back.     *)
(***************************************************************************)
EXTENDS Authz, FiniteSets, FiniteSetsExt

CONSTANTS
    Users,        \* identities; a UserId commits to a signing and an HPKE key
    rootUser,     \* the holder of the trusted root key
    Groups,
    Grants,       \* grant ids, each derived from a random seed
    UserHandles,
    VaultHandles,
    KeyOf,        \* the signing key of an identity
    Rank,         \* the order of user ids, used only to scan deletions
    MaxRounds,    \* rounds the authority fixpoint may take (64 in the code)
    None          \* a field a record does not have

ASSUME EffectiveAssumption ==
    /\ rootUser \in Users /\ IsFiniteSet(Users)
    /\ Rank \in [Users -> Nat]
    /\ DOMAIN KeyOf = Users
    /\ MaxRounds \in Nat \ {0}

Principals  == Users \cup Groups
SigningKeys == {KeyOf[u] : u \in Users}

(* ------------------------------- records ------------------------------- *)

\* RecordKey: the kind of a record and what it is about.
RecordKeys ==
    {<<"user", <<u>>>> : u \in Users} \cup {<<"entry", <<u>>>> : u \in Users}
        \cup {<<"group", <<g>>>> : g \in Groups}
        \cup {<<"member", <<g, p>>>> : g \in Groups, p \in Principals}
        \cup {<<"grant", <<g>>>> : g \in Grants}
        \cup {<<"handle", <<h>>>> : h \in UserHandles}
        \cup {<<"vault", <<h>>>> : h \in VaultHandles}
        \cup {<<"secret", <<s>>>> : s \in Secrets}

NoData == [subject |-> None, permission |-> None, value |-> None]

\* A signed record: a live body or the deletion at the same key.  "by" is the
\* signing key of the envelope, which names no user.
Record(kind, id, live, data, counter, u) ==
    [key |-> <<kind, id>>, live |-> live, data |-> data, counter |-> counter,
     by |-> KeyOf[u]]

Kind(r)     == r.key[1]
Id(r)       == r.key[2]
About(r)    == r.key[2][1]
OfKind(R, kind) == {r \in R : Kind(r) = kind}

\* Two bodies are equal when they say the same; two seals of a value differ.
same_body(r, s) ==
    \/ r = s
    \/ r.live = s.live /\ r.data = s.data /\ ~ (Kind(r) = "secret" /\ r.live)

Highest(S) == IF S = {} THEN 0 ELSE Max(S)

(* ------------------- signing keys and the identities ------------------- *)

\* Users introduced by a record under a key already introduced, from the root.
introduced(V) ==
    LET step[n \in 0 .. Cardinality(Users)] ==
            IF n = 0 THEN {rootUser}
            ELSE step[n - 1] \cup
                 {About(r) : r \in {x \in OfKind(V, "user") :
                                       x.live /\ \E u \in step[n - 1] : KeyOf[u] = x.by}}
    IN  step[Cardinality(Users)]

\* Identities that proved possession of their pairing: an entry point is
\* signed under the key it declares.
attested(V) == {About(r) : r \in OfKind(V, "entry")}

\* The one identity holding a signing key, if there is one.  The root key is
\* reserved; of several claimants only a unique attested one resolves it.
signer_for_key(V, key) ==
    LET claimants == {u \in (Users \cap introduced(V)) \ {rootUser} : KeyOf[u] = key}
        proven    == claimants \cap attested(V)
    IN  IF key = KeyOf[rootUser] THEN {rootUser}
        ELSE IF Cardinality(claimants) = 1 THEN claimants
        ELSE IF Cardinality(proven) = 1 THEN proven ELSE {}

\* The records whose signer is known, with the signer; those under a
\* contested key are inert.
verified_records(V) ==
    LET holders == [k \in SigningKeys |-> signer_for_key(V, k)]
    IN  UNION {{[key |-> r.key, live |-> r.live, data |-> r.data,
                 counter |-> r.counter, signer |-> u] : u \in holders[r.by]} : r \in V}

(* ------------------------- last writer wins ---------------------------- *)

\* lww_resolution: at each key the highest counter wins, unless diverging
\* bodies share it.
Beats(r, s)     == r.counter > s.counter \/ (r.counter = s.counter /\ same_body(r, s))
lww_winners(R)  == {r \in R : \A s \in R : s.key = r.key => Beats(r, s)}

lww_conflicted(R) == {r.key : r \in R} \ {r.key : r \in lww_winners(R)}

\* partition_lww
Live(W)    == {r \in W : r.live}
Deleted(W) == {r \in W : ~ r.live}

(* ------------------------- the authority fixpoint ---------------------- *)

root_authorities == [p \in Principals |-> IF p = rootUser THEN root ELSE NoAuthority]

principal_exists(p, users, groups) == p \in users \/ p \in groups

\* select_authorized_records: what the authorities of one round let in.
select_authorized_records(R, admitted, auth) ==
    LET admin(r)    == auth[r.signer].administer
        vouched     == {About(r) : r \in OfKind(R, "entry")}
        userPool    == {r \in OfKind(R, "user") :
                           About(r) # rootUser /\ (IF r.live THEN admin(r) ELSE r \in admitted)}
        userWin     == lww_winners(userPool)
        users       == {rootUser} \cup ({About(r) : r \in Live(userWin)} \cap vouched)
        groupPool   == {r \in OfKind(R, "group") : IF r.live THEN admin(r) ELSE r \in admitted}
        groupWin    == lww_winners(groupPool)
        groups      == {About(r) : r \in Live(groupWin)}
        memberPool  == {r \in OfKind(R, "member") :
                           /\ admin(r)
                           /\ r.live => /\ Id(r)[1] \in groups
                                        /\ principal_exists(Id(r)[2], users, groups)}
        grantPool   == {r \in OfKind(R, "grant") :
                           IF r.live
                           THEN /\ principal_exists(r.data.subject, users, groups)
                                /\ can_create_permission(auth[r.signer], r.data.permission)
                           ELSE r \in admitted}
        grantWin    == lww_winners(grantPool)
    IN  [users         |-> users,
         groups        |-> groups,
         members       |-> {Id(r) : r \in Live(lww_winners(memberPool))},
         grants        |-> Live(grantWin),
         deleted_users |-> {About(r) : r \in Deleted(userWin)},
         conflicted    |-> lww_conflicted(userPool) \cup lww_conflicted(groupPool)
                             \cup lww_conflicted(memberPool) \cup lww_conflicted(grantPool)]

\* The groups whose authority reaches a principal through memberships.
Reaches(members, p) ==
    LET step[n \in 0 .. Cardinality(Groups)] ==
            IF n = 0 THEN {p}
            ELSE step[n - 1] \cup {m[1] : m \in {x \in members : x[2] \in step[n - 1]}}
    IN  step[Cardinality(Groups)]

\* What a set of permissions adds up to (add_permission, merge_from).
Combined(perms) ==
    [read   |-> {p.selector : p \in {q \in perms : q.class = "read"}},
     write  |-> {p.selector : p \in {q \in perms : q.class = "write"}},
     manage |-> {[selector |-> p.selector, grantable |-> p.grantable] :
                    p \in {q \in perms : q.class = "manage"}},
     administer |-> \E q \in perms : q.class = "administer"]

compute_authorities_from_selected(members, grants) ==
    [p \in Principals |->
        merge_from(root_authorities[p],
                   Combined({g.data.permission :
                       g \in {x \in grants : x.data.subject \in Reaches(members, p)}}))]

\* One round of the fixpoint: it is settled when it changed nothing.
round_result(last, next, auth) ==
    [selected |-> next, auth |-> auth, settled |-> next = last.selected /\ auth = last.auth]

next_round(last, next) ==
    round_result(last, next, compute_authorities_from_selected(next.members, next.grants))

no_graph == [selected |-> None, auth |-> root_authorities, settled |-> FALSE]

advance(R, admitted, last) ==
    IF last.settled THEN last
    ELSE next_round(last, select_authorized_records(R, admitted, last.auth))

\* compute_effective_state, the principal graph: rounds until nothing changes.
\* A graph that is still changing after the last round is unresolved.
principal_graph(R, admitted) ==
    LET round[n \in 0 .. MaxRounds] ==
            IF n = 0 THEN no_graph ELSE advance(R, admitted, round[n - 1])
    IN  round[MaxRounds]

(* ------------------------- admitted deletions -------------------------- *)

\* grant_deleted_authorized: deleting a live grant takes the authority to
\* create it; elsewhere an administrator may.
grant_deleted_authorized(auth, r, grants) ==
    LET active == {g \in grants : g.key = r.key}
    IN  IF active # {}
        THEN /\ can_create_permission(auth, r.data.permission)
             /\ \A g \in active : can_create_permission(auth, g.data.permission)
        ELSE auth.administer \/ can_create_permission(auth, r.data.permission)

deletion_authorized(graph, r) ==
    IF Kind(r) = "grant"
    THEN grant_deleted_authorized(graph.auth[r.signer], r, graph.selected.grants)
    ELSE graph.auth[r.signer].administer

\* compare_lww, the order in which deletions are considered.
Before(r, s) ==
    r.counter < s.counter \/ (r.counter = s.counter /\ Rank[r.signer] <= Rank[s.signer])

\* The records authority is resolved from.
principal_records(R) == {r \in R : Kind(r) \in {"user", "entry", "group", "member", "grant"}}

deletion_candidates(R) == {r \in R : ~ r.live /\ Kind(r) \in {"user", "group", "grant"}}

with_admitted(R, admitted) == [admitted |-> admitted, graph |-> principal_graph(R, admitted)]

newly_admitted(R, last) ==
    {r \in deletion_candidates(R) \ last.admitted : deletion_authorized(last.graph, r)}

\* Admit the first authorized deletion, and start over with it.
admit_first(R, last) ==
    LET open == newly_admitted(R, last)
    IN  IF open = {} THEN last
        ELSE with_admitted(R, last.admitted \cup {CHOOSE r \in open : \A s \in open : Before(r, s)})

\* resolve_effective_with_deletions: until no authorized deletion is left.
resolve_effective_with_deletions(R) ==
    LET step[n \in 0 .. Cardinality(deletion_candidates(R))] ==
            IF n = 0 THEN with_admitted(R, {}) ELSE admit_first(R, step[n - 1])
    IN  step[Cardinality(deletion_candidates(R))]

(* ------------------------ watermarks and rollback ---------------------- *)

\* The records whose signer was authorized to issue them.
Admitted(R, resolved) ==
    LET auth(r) == resolved.graph.auth[r.signer]
    IN  {r \in R :
            CASE Kind(r) = "entry" -> TRUE
              [] Kind(r) = "user" /\ r.live ->
                     auth(r).administer /\ \E e \in R : e.key = <<"entry", Id(r)>>
              [] Kind(r) \in {"user", "group", "grant"} /\ ~ r.live -> r \in resolved.admitted
              [] Kind(r) = "grant" /\ r.live -> can_create_permission(auth(r), r.data.permission)
              [] Kind(r) = "secret" -> can_write(auth(r), About(r))
              [] OTHER -> auth(r).administer}

admitted_watermarks(A) ==
    [k \in RecordKeys |-> Highest({r.counter : r \in {x \in A : x.key = k}})]

\* Mutant: nothing is ever behind the ratchet.
rollback_keys_never(marks, ratchet) == {}

rollback_keys(marks, ratchet) == {k \in RecordKeys : marks[k] < ratchet[k]}

(* ------------------------------ the report ----------------------------- *)

\* The records kept, what they resolve to, and what this says of every key.
effective_state(kept, final, admitted, marks, rolled, ratchet) ==
    LET selected == final.graph.selected
        auth     == final.graph.auth
        handles  == {r \in OfKind(kept, "handle") :
                        auth[r.signer].administer /\ r.data.subject \in selected.users}
        names    == {r \in OfKind(kept, "vault") : auth[r.signer].administer}
        values   == {r \in OfKind(kept, "secret") : can_write(auth[r.signer], About(r))}
    IN  [users    |-> selected.users,
         groups   |-> selected.groups,
         members  |-> selected.members,
         grants   |-> selected.grants,
         deleted_users |-> selected.deleted_users,
         auth     |-> auth,
         handles  |-> lww_winners(handles),
         names    |-> lww_winners(names),
         secrets  |-> lww_winners(values),
         authority_unresolved |-> ~ final.graph.settled,
         rolled   |-> rolled,
         conflicted |-> rolled \cup selected.conflicted \cup lww_conflicted(handles)
                          \cup lww_conflicted(names) \cup lww_conflicted(values),
         admitted |-> admitted,
         marks    |-> marks,
         next     |-> 1 + Highest({marks[k] : k \in RecordKeys}),
         floor    |-> Highest({ratchet[k] + 1 : k \in rolled})]

\* The stages of validate_v1, last to first: leave out the keys that fell
\* behind the ratchet and resolve again;
final_resolution(R, before, admitted, marks, rolled, ratchet) ==
    LET kept == {r \in R : r.key \notin rolled}
    IN  effective_state(kept,
                        IF rolled = {} THEN before
                        ELSE resolve_effective_with_deletions(principal_records(kept)),
                        admitted, marks, rolled, ratchet)

\* compare what was admitted with the ratchet;
against_ratchet(R, before, admitted, marks, ratchet) ==
    final_resolution(R, before, admitted, marks, rollback_keys(marks, ratchet), ratchet)

with_watermarks(R, before, admitted, ratchet) ==
    against_ratchet(R, before, admitted, admitted_watermarks(admitted), ratchet)

provisional(R, before, ratchet) == with_watermarks(R, before, Admitted(R, before), ratchet)

\* resolve the verified records.
resolved(R, ratchet) ==
    provisional(R, resolve_effective_with_deletions(principal_records(R)), ratchet)

\* validate_v1 against a machine's ratchet.
validate_v1(V, ratchet) == resolved(verified_records(V), ratchet)

\* Ratchet::apply_update: watermarks are monotone maxima.
apply_update(ratchet, report) ==
    [k \in RecordKeys |-> IF report.marks[k] > ratchet[k] THEN report.marks[k] ELSE ratchet[k]]

(* ----------------------- queries on the report ------------------------- *)

secret_conflict(report, s) == <<"secret", <<s>>>> \in report.conflicted

\* The winner, unless it is a deletion.
live_secret_winner(report, s) == {r \in report.secrets : About(r) = s /\ r.live}

\* The value a secret has; a contested one has none.
secret_record(report, s) ==
    IF secret_conflict(report, s) THEN {} ELSE live_secret_winner(report, s)

\* What the listings show: the secrets that have a value, and the contested ones.
secret_records(report) ==
    {r \in report.secrets : r.live /\ r.key \notin report.conflicted}
secret_conflicts(report) == {k \in report.conflicted : k[1] = "secret"}

current_reader_entries(report, s) == {u \in report.users : can_read(report.auth[u], s)}

secret_missing_reader(report, s) ==
    \E r \in secret_record(report, s) :
        ~ (current_reader_entries(report, s) \subseteq r.data.value.slots)

classify_secret_for_user(report, s, u) ==
    LET value == secret_record(report, s)
        reads == can_read(report.auth[u], s) /\ u \in report.users
    IN  IF report.authority_unresolved THEN "invalid"
        ELSE IF secret_conflict(report, s) THEN "conflicted"
        ELSE IF value = {} THEN "missing"
        ELSE IF ~ reads THEN "unauthorized"
        ELSE IF \E r \in value : u \in r.data.value.slots THEN "decryptable"
        ELSE "not_encrypted"

=============================================================================
