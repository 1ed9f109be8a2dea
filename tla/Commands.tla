----------------------------- MODULE Commands ------------------------------
(***************************************************************************)
(* The commands of the client (crates/thorax-cli, crates/thorax-ops):      *)
(* grants, groups, users, handles and secrets, issued by several people    *)
(* on several machines, each with its own worktree of the vault, its own   *)
(* ratchet and its own keychain.                                           *)
(*                                                                         *)
(* A command loads and validates the worktree, resolves its arguments and  *)
(* its acting user in the report, asks for confirmation and for the        *)
(* passphrase, and checks permissions in that report.  Only then is the    *)
(* workspace locked, reloaded, and the records appended against what is    *)
(* there now; what the worktree would mean afterwards is checked before    *)
(* anything is written.  A git merge may come between any two steps.       *)
(*                                                                         *)
(* A commit is one step here.  Its locks, its journal and its crashes are  *)
(* module Transaction's.                                                   *)
(***************************************************************************)
EXTENDS Effective, SequencesExt

CONSTANTS
    Machines,
    Holds,        \* the identities in a machine's keychain
    Scenarios,    \* vaults to start from, default users, and the commands people issue
    Fields,       \* names of additional fields
    EnvSegment,   \* what a segment or a field name is in an environment variable
    MaxCounter,   \* MAX_LWW_COUNTER
    MaxCommits    \* bound: commits of all machines

ASSUME CommandsAssumption ==
    /\ Holds \in [Machines -> SUBSET Users]
    /\ DOMAIN EnvSegment = Segments \cup Fields
    /\ MaxCounter \in Nat /\ MaxCommits \in Nat

\* The records of a vault: an entry point is signed under the key it declares,
\* and a grant id is drawn once.
Wellformed(V) ==
    /\ IsFiniteSet(V)
    /\ \A r \in V : /\ r.key \in RecordKeys /\ r.counter \in 1 .. MaxCounter
                    /\ r.by \in SigningKeys
                    /\ Kind(r) = "entry" => r.by = KeyOf[About(r)]
    /\ \A r, s \in V : (r.key = s.key /\ Kind(r) = "grant" /\ r.live /\ s.live) => r = s

\* The arguments that are what they are called by, and not references.
Issuable(c) ==
    /\ DOMAIN c = {"at", "as", "op", "on", "arg"}
    /\ c.op = "user_add" => c.on \in Users
    /\ c.op = "handle_set" => c.on \in UserHandles
    /\ c.op = "name_set" => c.on \in VaultHandles
    /\ c.op \in {"set", "delete", "move", "field_set", "field_delete",
                 "get", "field_get", "field_list", "show"} => c.on \in Secrets
    /\ c.op = "move" => c.arg \in Secrets

ASSUME ScenariosAssumption ==
    \A s \in Scenarios :
        /\ Wellformed(s.vault)
        /\ s.default \in [Machines -> Users \cup {None}]
        /\ \A c \in s.issues : Issuable(c)

VARIABLES
    vault,     \* the records of each worktree
    ratchet,   \* the watermarks each machine remembers
    report,    \* what each worktree means: validate_v1(vault[m], ratchet[m])
    default,   \* the stored default user of each machine
    cmd,       \* the command running on each machine
    issues,    \* the commands people issue in this scenario
    commits,   \* commits made so far
    released,  \* the counter of the value of each secret last given out or listed
    lost       \* what deletions took away: record keys and their counters then

vars == <<vault, ratchet, report, default, cmd, issues, commits, released, lost>>

Idle == [phase |-> "idle"]

ReadOnly == {"user_use", "status", "list", "show", "get", "field_get", "field_list", "run"}

\* The caller that is an application with an SDK session.
Application == "sdk"

\* Under the workspace lock nothing else happens in the worktree, and no
\* other machine can tell the halves of a commit apart.
Phase(m, p) == cmd[m].phase = p /\ \A n \in Machines : cmd[n].phase # "commit"

Larger(a, b) == IF a > b THEN a ELSE b

NoRatchet == [k \in RecordKeys |-> 0]

Init ==
    \E s \in Scenarios :
        /\ vault   = [m \in Machines |-> s.vault]
        /\ report  = [m \in Machines |-> validate_v1(s.vault, NoRatchet)]
        /\ ratchet = [m \in Machines |-> apply_update(NoRatchet, report[m])]
        /\ default = s.default
        /\ cmd     = [m \in Machines |-> Idle]
        /\ issues  = s.issues
        /\ commits = 0
        /\ released = [m \in Machines |-> [x \in Secrets |-> 0]]
        /\ lost    = [m \in Machines |-> {}]

(* ----------------------- references and sessions ----------------------- *)

\* A user is named by id or by a handle, and must be a member.
resolve_user_ref(e, ref) ==
    e.users \cap
        (IF ref \in UserHandles
         THEN {r.data.subject : r \in {h \in e.handles : About(h) = ref}}
         ELSE {ref})

resolve_group_ref(e, ref) == {ref} \cap e.groups

resolve_grant_ref(e, ref) == {g \in e.grants : About(g) = ref}

resolve_principal_ref(e, ref) ==
    IF ref \in Groups THEN resolve_group_ref(e, ref) ELSE resolve_user_ref(e, ref)

\* A grant names a keyspace by the selector of a secret: itself with --exact,
\* and everything below it without.  Labels given are dropped; * is the vault.
parse_keyspace_selector(x, exact) ==
    IF x = None THEN Unrestricted
    ELSE [Unrestricted EXCEPT !.tuple = [kind |-> IF exact THEN "exact" ELSE "prefix",
                                         tuple |-> x.tuple]]

cmd_grant_keyspace(a) ==
    LET keyspace == parse_keyspace_selector(a.selector, a.exact)
    IN  IF a.class = "read" THEN Read(keyspace) ELSE Write(keyspace)

\* parse_grantable_classes: at least one class.
parse_grantable_classes(classes) == {c \in {classes} : c # {}}

cmd_grant_manage(a) ==
    {Manage(parse_keyspace_selector(a.selector, a.exact), classes) :
        classes \in parse_grantable_classes(a.grantable)}

cmd_grant(a) ==
    CASE a.class \in {"read", "write"} -> {cmd_grant_keyspace(a)}
      [] a.class = "manage" -> cmd_grant_manage(a)
      [] a.class = "admin"  -> {Administer}

\* What is granted to whom, and who is in which group.
resolved_grant(c, e) ==
    {[c EXCEPT !.on = p[1], !.arg = p[2]] :
        p \in resolve_principal_ref(e, c.on) \X cmd_grant(c.arg)}
resolved_member(c, e) ==
    {[c EXCEPT !.on = p[1], !.arg = p[2]] :
        p \in resolve_group_ref(e, c.on) \X resolve_principal_ref(e, c.arg)}

\* The arguments of a command, resolved in the report it loaded.
Resolved(c, e) ==
    CASE c.op = "grant" -> resolved_grant(c, e)
      [] c.op = "user_delete" -> {[c EXCEPT !.on = u] : u \in resolve_user_ref(e, c.on)}
      [] c.op \in {"group_add", "group_remove"} -> resolved_member(c, e)
      [] c.op = "group_delete" -> {[c EXCEPT !.on = g] : g \in resolve_group_ref(e, c.on)}
      [] c.op = "grant_delete" -> {c : g \in resolve_grant_ref(e, c.on)}
      [] c.op = "handle_set"   -> {[c EXCEPT !.arg = u] : u \in resolve_user_ref(e, c.arg)}
      [] c.op = "user_use"     -> {[c EXCEPT !.on = u] : u \in resolve_user_ref(e, c.on)}
      [] OTHER -> {c}

\* The stored default user, kept by id.
stored_default_user(m) == default[m]

resolve_cli_user_ref(m, c) ==
    resolve_user_ref(report[m], IF c.as = None THEN stored_default_user(m) ELSE c.as)

\* A load that found no issue.
valid_session(m) == ~ report[m].authority_unresolved

\* What a load that found no issue remembers.
Raised(m) == apply_update(ratchet[m], report[m])

\* Mutant: reading leaves no memory.
absorb_clean_trust_raises_never(m, free) == UNCHANGED ratchet

\* It raises the machine's watermarks to what it admitted, unless the root
\* lock is taken: then the raises are the session's only.  The report stays as
\* it is: a key behind the ratchet stays behind it.
absorb_clean_trust_raises(m, free) ==
    IF free THEN ratchet' = [ratchet EXCEPT ![m] = Raised(m)]
    ELSE Raised(m) # ratchet[m] /\ UNCHANGED ratchet

ensure_member(e, u) == u \in e.users

\* The keychain holds the user, who is a member.
unlock(m, u) == u \in Holds[m] /\ ensure_member(report[m], u)

\* UnlockedSession::promote, of a session without issues.
promote(m, u) == valid_session(m) /\ unlock(m, u)

promote_for_action(m, c) == {u \in resolve_cli_user_ref(m, c) : promote(m, u)}

\* remember_user_if_explicit, at the end of a command that succeeded.
remember_user_if_explicit(m, s) ==
    default' = IF s.cmd.as \in {None, Application} THEN default ELSE [default EXCEPT ![m] = s.who]

\* LockedSession::load: the report, the ratchet of the session, and whether its
\* raises were stored.
Session(m, phase, home, c, u, free) ==
    [phase |-> phase, home |-> home, cmd |-> c, who |-> u,
     report |-> report[m], memory |-> Raised(m), stored |-> free,
     new |-> {}, main |-> None, next |-> None]

\* A command that changes the vault: everything up to the passphrase.
Begin(m) ==
    /\ Phase(m, "idle") /\ valid_session(m)
    /\ commits < MaxCommits
    /\ \E c \in issues, free \in BOOLEAN :
          /\ c.at = m /\ c.as # Application /\ c.op \notin ReadOnly
          /\ \E r \in Resolved(c, report[m]), u \in promote_for_action(m, c) :
                cmd' = [cmd EXCEPT ![m] = Session(m, "run", "idle", r, u, free)]
          /\ absorb_clean_trust_raises(m, free)
    /\ UNCHANGED <<vault, report, default, issues, commits, released, lost>>

\* confirm_destructive: the answer is no, or nobody can be asked.
confirm_destructive(m) ==
    /\ Phase(m, "run") /\ cmd[m].home = "idle"
    /\ cmd[m].cmd.op \in {"grant_delete", "group_delete", "user_delete", "delete", "field_delete"}
    /\ cmd' = [cmd EXCEPT ![m] = Idle]
    /\ UNCHANGED <<vault, ratchet, report, default, issues, commits, released, lost>>

\* cmd_user_use: select the default user, without unlocking anything.
cmd_user_use(m) ==
    /\ Phase(m, "idle") /\ valid_session(m)
    /\ \E c \in issues, free \in BOOLEAN :
          /\ c.at = m /\ c.op = "user_use"
          /\ \E r \in Resolved(c, report[m]) : default' = [default EXCEPT ![m] = r.on]
          /\ absorb_clean_trust_raises(m, free)
    /\ UNCHANGED <<vault, report, cmd, issues, commits, released, lost>>

(* ------------------------ under the workspace lock --------------------- *)

\* Mutant: counters are minted past the ceiling.
Mintable_always(new) == TRUE

\* commit_record refuses such a counter, and validation rejects the record.
Mintable(new) == \A r \in new : r.counter <= MaxCounter

\* commit_record: one record, above what this machine remembers.
commit_record(m, kind, id, live, data) ==
    Record(kind, id, live, data, Larger(report[m].next, report[m].floor), cmd[m].who)

\* Where a command ends, and an application's session goes on, with a report
\* and the ratchet it was made against.
Return(m, e, t) ==
    IF cmd[m].home = "idle" THEN Idle
    ELSE [cmd[m] EXCEPT !.phase = "sdk", !.cmd = None, !.report = e, !.memory = t,
                        !.new = {}, !.main = None, !.next = None]

Fail(m, e, t) ==
    /\ cmd' = [cmd EXCEPT ![m] = Return(m, e, t)]
    /\ UNCHANGED <<vault, ratchet, report, default, issues, commits, released, lost>>

\* LockedSession::commit, the first half: the session's report allowed the
\* command, the vault under the lock has no issue, and the records are built
\* for it.  "main" is the record whose effect is checked.
Prepare(m, allowed, new, main, next) ==
    IF ~ allowed THEN Fail(m, cmd[m].report, cmd[m].memory)
    ELSE IF ~ report[m].authority_unresolved /\ new # {} /\ Mintable(new)
    THEN /\ cmd' = [cmd EXCEPT ![m].phase = "commit", ![m].new = new,
                               ![m].main = main, ![m].next = next]
         /\ UNCHANGED <<vault, ratchet, report, default, issues, commits, released, lost>>
    ELSE Fail(m, report[m], ratchet[m])

PrepareOne(m, allowed, r, next) == Prepare(m, allowed, {r}, r, next)

Running(m, op) == Phase(m, "run") /\ cmd[m].cmd.op = op /\ cmd[m].home = "idle"
Calling(m, op) == Phase(m, "run") /\ cmd[m].cmd.op = op /\ cmd[m].home = "sdk"

(* ------------------------ permissions and groups ----------------------- *)

ensure_administer(e, u) == u \in e.users /\ e.auth[u].administer

ensure_can_create_permission(e, u, permission) ==
    u \in e.users /\ can_create_permission(e.auth[u], permission)

\* What a group has, the actor could have granted directly.
ensure_can_confer_group(e, u, g) ==
    \A p \in as_grant_permissions(e.auth[g]) : can_create_permission(e.auth[u], p)

ensure_principal_exists(e, p) == principal_exists(p, e.users, e.groups)

\* An id nobody has drawn yet: seeds are random.
Fresh(ids) == ids \ UNION {{About(r) : r \in vault[m]} : m \in Machines}

\* UnlockedSession::grant_permission: what the session's report allows.
may_grant_permission(s) ==
    /\ ensure_can_create_permission(s.report, s.who, s.cmd.arg)
    /\ ensure_principal_exists(s.report, s.cmd.on)

grant_permission(m, id) ==
    LET s == cmd[m]
    IN  PrepareOne(m, may_grant_permission(s),
                   commit_record(m, "grant", <<id>>, TRUE,
                       [NoData EXCEPT !.subject = s.cmd.on, !.permission = s.cmd.arg]),
                   "converge")

\* The grant is followed by the convergence of readers.
cmd_grant_permission(m) ==
    /\ Running(m, "grant")
    /\ Fresh(Grants) # {}
    /\ grant_permission(m, CHOOSE id \in Fresh(Grants) : TRUE)

grants_at(e, id) == {x \in e.grants : About(x) = id}

\* UnlockedSession::delete_grant: the permission is the one the session saw.
may_delete_grant(s) ==
    \E x \in grants_at(s.report, s.cmd.on) :
        ensure_can_create_permission(s.report, s.who, x.data.permission)

delete_grant(m) ==
    LET s    == cmd[m]
        seen == CHOOSE x \in grants_at(s.report, s.cmd.on) : TRUE
    IN  PrepareOne(m, may_delete_grant(s) /\ grants_at(report[m], s.cmd.on) # {},
                   commit_record(m, "grant", <<s.cmd.on>>, FALSE,
                       [NoData EXCEPT !.permission = seen.data.permission]),
                   "done")

cmd_grant_delete(m) == Running(m, "grant_delete") /\ delete_grant(m)

create_group(m, id) ==
    PrepareOne(m, ensure_administer(cmd[m].report, cmd[m].who),
               commit_record(m, "group", <<id>>, TRUE, NoData), "done")

cmd_group_create(m) ==
    /\ Running(m, "group_create")
    /\ Fresh(Groups) # {}
    /\ create_group(m, CHOOSE id \in Fresh(Groups) : TRUE)

\* UnlockedSession::add_group_member: conferring a group is granting all of it.
may_add_group_member(s) ==
    /\ ensure_administer(s.report, s.who)
    /\ ensure_principal_exists(s.report, s.cmd.on)
    /\ ensure_principal_exists(s.report, s.cmd.arg)
    /\ ensure_can_confer_group(s.report, s.who, s.cmd.on)
    /\ <<s.cmd.on, s.cmd.arg>> \notin s.report.members

add_group_member(m) ==
    PrepareOne(m, may_add_group_member(cmd[m]),
               commit_record(m, "member", <<cmd[m].cmd.on, cmd[m].cmd.arg>>, TRUE, NoData),
               "converge")

cmd_group_add(m) == Running(m, "group_add") /\ add_group_member(m)

may_delete_group_member(s) ==
    /\ ensure_administer(s.report, s.who)
    /\ <<s.cmd.on, s.cmd.arg>> \in s.report.members

delete_group_member(m) ==
    LET id == <<cmd[m].cmd.on, cmd[m].cmd.arg>>
    IN  PrepareOne(m, may_delete_group_member(cmd[m]) /\ id \in report[m].members,
                   commit_record(m, "member", id, FALSE, NoData), "done")

cmd_group_remove(m) == Running(m, "group_remove") /\ delete_group_member(m)

(* ----------------------- deletions that cascade ------------------------ *)

\* What hangs off a principal: its memberships, on either side, and grants.
members_of(e, p) == {x \in e.members : p \in {x[1], x[2]}}
grants_of(e, p)  == {x \in e.grants : x.data.subject = p}

Tombstone(m, kind, p) == Record(kind, <<p>>, FALSE, NoData, report[m].next, cmd[m].who)

\* Mutant: what hangs off the principal is left alone.
Cascade_none(m, p) == {}

\* The tombstones of the principal's memberships and grants, each one counter
\* above the one before, and all above the principal's own.
Cascade(m, p) ==
    LET ms == SetToSeq(members_of(report[m], p))
        gs == SetToSeq(grants_of(report[m], p))
        n  == report[m].next
        u  == cmd[m].who
    IN  {Record("member", ms[i], FALSE, NoData, n + i, u) : i \in DOMAIN ms}
          \cup {Record("grant", Id(gs[i]), FALSE,
                       [NoData EXCEPT !.permission = gs[i].data.permission],
                       n + Len(ms) + i, u) : i \in DOMAIN gs}

may_delete_group(s) == ensure_administer(s.report, s.who) /\ s.cmd.on \in s.report.groups

delete_group(m) ==
    LET id == cmd[m].cmd.on
        t  == Tombstone(m, "group", id)
    IN  Prepare(m, may_delete_group(cmd[m]) /\ id \in report[m].groups,
                {t} \cup Cascade(m, id), t, "done")

cmd_group_delete(m) == Running(m, "group_delete") /\ delete_group(m)

may_delete_user(s) == ensure_administer(s.report, s.who) /\ s.cmd.on \in s.report.users

delete_user(m) ==
    LET id == cmd[m].cmd.on
        t  == Tombstone(m, "user", id)
    IN  Prepare(m, may_delete_user(cmd[m]) /\ id \in report[m].users \ report[m].deleted_users,
                {t} \cup Cascade(m, id), t, "done")

cmd_user_delete(m) == Running(m, "user_delete") /\ delete_user(m)

\* A member, new or restored, and its entry point, at the same counter.
add_user(m) ==
    LET s    == cmd[m]
        user == Record("user", <<s.cmd.on>>, TRUE, NoData, report[m].next, s.who)
    IN  /\ Running(m, "user_add")
        /\ Prepare(m, ensure_administer(s.report, s.who),
                   {user, Record("entry", <<s.cmd.on>>, TRUE, NoData, report[m].next, s.cmd.on)},
                   user, "done")

(* ------------------------------- handles ------------------------------- *)

may_set_user_handle(s) == ensure_administer(s.report, s.who) /\ s.cmd.arg \in s.report.users

set_user_handle(m) ==
    PrepareOne(m, may_set_user_handle(cmd[m]),
               commit_record(m, "handle", <<cmd[m].cmd.on>>, TRUE,
                             [NoData EXCEPT !.subject = cmd[m].cmd.arg]), "done")

cmd_user_handle_set(m) == Running(m, "handle_set") /\ set_user_handle(m)

set_vault_handle(m) ==
    PrepareOne(m, ensure_administer(cmd[m].report, cmd[m].who),
               commit_record(m, "vault", <<cmd[m].cmd.on>>, TRUE, NoData), "done")

cmd_vault_name_set(m) == Running(m, "name_set") /\ set_vault_handle(m)

(* ------------------------------- secrets ------------------------------- *)

NoFields == [f \in Fields |-> None]

ensure_secret_writable(e, u, x) == u \in e.users /\ can_write(e.auth[u], x)

ensure_secret_decryptable(e, u, x) == classify_secret_for_user(e, x, u) = "decryptable"

\* What the value of a secret says: its primary value and its fields.
decrypt_secret_from_report(e, x) ==
    LET r == CHOOSE v \in secret_record(e, x) : TRUE
    IN  [primary |-> r.data.value.primary, fields |-> r.data.value.fields]

\* seal_secret_payload: a fresh seal, with a slot for every current reader.
seal_secret_payload(m, x, content) ==
    [NoData EXCEPT !.value =
        [primary |-> content.primary, fields |-> content.fields,
         slots   |-> current_reader_entries(report[m], x), seal |-> m]]

\* secret_record_is_current: nothing shadows or ties with what was written.
secret_record_is_current(e, r) ==
    /\ r.key \notin e.conflicted
    /\ \E w \in e.secrets :
          w.key = r.key /\ w.live = r.live /\ w.data = r.data /\ w.counter = r.counter

set_secret_value(m, allowed, x, content, next) ==
    PrepareOne(m, allowed,
               commit_record(m, "secret", <<x>>, TRUE, seal_secret_payload(m, x, content)), next)

delete_secret(m, allowed, x) ==
    PrepareOne(m, allowed, commit_record(m, "secret", <<x>>, FALSE, NoData), "done")

\* Fields are carried over from the value the session read.
cmd_secret_write(m) ==
    /\ Running(m, "set")
    /\ LET s == cmd[m]
           x == s.cmd.on
           kept == IF ensure_secret_decryptable(s.report, s.who, x)
                   THEN decrypt_secret_from_report(s.report, x).fields ELSE NoFields
       IN  set_secret_value(m, ensure_secret_writable(s.report, s.who, x),
                            x, [primary |-> s.cmd.arg, fields |-> kept], "done")

\* SecretPlaintext::with_field and without_field (to None).
with_field(value, f, v) == [value EXCEPT !.fields[f] = v]

\* A field is set or removed in the value the session read.
set_field(m) ==
    LET s == cmd[m]
        x == s.cmd.on
    IN  set_secret_value(m, /\ ensure_secret_decryptable(s.report, s.who, x)
                            /\ ensure_secret_writable(s.report, s.who, x),
                         x, with_field(decrypt_secret_from_report(s.report, x),
                                       s.cmd.arg[1], s.cmd.arg[2]), "done")

delete_field(m) ==
    LET s    == cmd[m]
        x    == s.cmd.on
        read == decrypt_secret_from_report(s.report, x)
    IN  set_secret_value(m, /\ ensure_secret_decryptable(s.report, s.who, x)
                            /\ read.fields[s.cmd.arg] # None
                            /\ ensure_secret_writable(s.report, s.who, x),
                         x, with_field(read, s.cmd.arg, None), "done")

cmd_field_set(m)    == Running(m, "field_set") /\ set_field(m)
cmd_field_delete(m) == Running(m, "field_delete") /\ delete_field(m)

cmd_secret_delete(m) ==
    /\ Running(m, "delete")
    /\ delete_secret(m, ensure_secret_writable(cmd[m].report, cmd[m].who, cmd[m].cmd.on),
                     cmd[m].cmd.on)

\* relabel_secret, the copy: both ends are the actor's to write.
relabel_secret(m, free) ==
    LET s    == cmd[m]
        from == s.cmd.on
        to   == s.cmd.arg
    IN  set_secret_value(m, /\ free
                            /\ ensure_secret_decryptable(s.report, s.who, from)
                            /\ ensure_secret_writable(s.report, s.who, to)
                            /\ ensure_secret_writable(s.report, s.who, from),
                         to, decrypt_secret_from_report(s.report, from),
                         IF from = to THEN "done" ELSE "vacate")

\* The target is free in the session's report, or the source itself.
cmd_secret_move(m) ==
    /\ Running(m, "move")
    /\ LET s  == cmd[m]
           to == s.cmd.arg
       IN  relabel_secret(m, \/ s.cmd.on = to
                             \/ /\ ~ secret_conflict(s.report, to)
                                /\ secret_record(s.report, to) = {})

\* relabel_secret, the tombstone of the old key: a commit of its own.
relabel_secret_vacate(m) ==
    /\ Phase(m, "vacate")
    /\ delete_secret(m, TRUE, cmd[m].cmd.on)

\* LockedSession::get_secret: what a user is given, and how recent it is.
get_secret(e, u, x) ==
    IF ensure_secret_decryptable(e, u, x) THEN {r.counter : r \in secret_record(e, x)} ELSE {}

\* What a command gives out, or does not: the counters of the values shown.
Gives(m, x, counters) ==
    \E n \in counters : released' = [released EXCEPT ![m][x] = n]

\* A read is anchored in the default user, whoever's view is asked for.
anchor_read(m) == promote_for_action(m, [as |-> None])

\* The user whose access is displayed, if one is named.
resolve_optional_cli_user_ref(m, c) == c.as = None \/ resolve_user_ref(report[m], c.as) # {}

\* read_session, for what is only displayed.
read_session(m, c) == {u \in anchor_read(m) : resolve_optional_cli_user_ref(m, c)}

\* A command that reads: load, anchor, and hold what was loaded while other
\* processes go on.
BeginRead(m) ==
    /\ Phase(m, "idle") /\ valid_session(m)
    /\ \E c \in issues, free \in BOOLEAN :
          /\ c.at = m /\ c.as # Application
          /\ \/ /\ c.op \in {"get", "field_get", "field_list", "run"}
                /\ \E u \in promote_for_action(m, c) :
                      cmd' = [cmd EXCEPT ![m] = Session(m, "read", "idle", c, u, free)]
             \/ /\ c.op \in {"list", "show"}
                /\ \E u \in read_session(m, c) :
                      cmd' = [cmd EXCEPT ![m] = Session(m, "read", "idle", c, u, free)]
          /\ absorb_clean_trust_raises(m, free)
    /\ UNCHANGED <<vault, report, default, issues, commits, released, lost>>

\* It shows what it read, or fails, and ends.
Reading(m, op) ==
    /\ Phase(m, "read") /\ cmd[m].cmd.op = op
    /\ cmd' = [cmd EXCEPT ![m] = Idle]
    /\ UNCHANGED <<vault, ratchet, report, issues, commits, lost>>

\* Reading one field needs a secret that has it.
HasField(s) ==
    s.cmd.op = "field_get" =>
        decrypt_secret_from_report(s.report, s.cmd.on).fields[s.cmd.arg] # None

\* get_secret; the value of a secret, or of one field of it, is released to a
\* file, the clipboard, a pipe or, if the user agrees, to the terminal.
\* Nothing is written but the default user.
Open(m, op) ==
    LET s     == cmd[m]
        given == get_secret(s.report, s.who, s.cmd.on)
    IN  /\ Reading(m, op)
        /\ \/ given = {} /\ UNCHANGED <<default, released>>
           \/ /\ given # {}
              /\ remember_user_if_explicit(m, s)
              /\ \/ HasField(s) /\ Gives(m, s.cmd.on, given)
                 \/ op # "field_list" /\ UNCHANGED released

cmd_secret_get(m) == Open(m, "get")

cmd_field_list(m) == Open(m, "field_list")

cmd_field_get(m) == Open(m, "field_get")

(* ------------------------------ thorax run ----------------------------- *)

\* Environment names are sequences of segments; labels are not part of them.
sanitize_env_segment(segment) == EnvSegment[segment]

derive_env_name(x) == [i \in DOMAIN x.tuple |-> sanitize_env_segment(x.tuple[i])]

\* [NAME=]SELECTOR arguments, expanded against the secrets that have a value.
plan_injections(available, specs) ==
    {[name   |-> IF p[1].name = None THEN derive_env_name(p[2]) ELSE p[1].name,
      secret |-> p[2]] :
        p \in {q \in specs \X available : selector_matches(q[1].query, q[2])}}

\* Every argument selects something, a named one exactly one secret, and none
\* touches a secret in conflict.
Plannable(available, conflicted, specs) ==
    \A spec \in specs :
        LET matched == {x \in available : selector_matches(spec.query, x)}
        IN  /\ \A x \in conflicted : ~ selector_matches(spec.query, x)
            /\ matched # {}
            /\ spec.name # None => Cardinality(matched) = 1

\* push_injection: a variable is claimed by one secret only.
push_injection(env) == \A a, b \in env : a.name = b.name => a.secret = b.secret

\* The variables of the additional fields, known once the values are open.
FieldVariables(e, plan) ==
    {[name |-> Append(p[1].name, sanitize_env_segment(p[2])), secret |-> p[1].secret] :
        p \in {q \in plan \X Fields :
                  decrypt_secret_from_report(e, q[1].secret).fields[q[2]] # None}}

\* get_secrets_for_run: every value can be opened, or none is.
get_secrets_for_run(e, u, xs) == \A x \in xs : ensure_secret_decryptable(e, u, x)

\* The child starts with all the variables asked for, or not at all: a value
\* may be no text, or a variable be in the way, or the run be a dry one.  The
\* user is remembered first.
run_inject(m) ==
    LET s          == cmd[m]
        e          == s.report
        available  == {About(r) : r \in secret_records(e)}
        conflicted == {k[2][1] : k \in secret_conflicts(e)}
        plan       == plan_injections(available, s.cmd.on)
        selected   == {i.secret : i \in plan}
    IN  /\ Reading(m, "run")
        /\ remember_user_if_explicit(m, s)
        /\ \/ /\ Plannable(available, conflicted, s.cmd.on)
              /\ get_secrets_for_run(e, s.who, selected)
              /\ push_injection(plan \cup FieldVariables(e, plan))
              /\ released' = [released EXCEPT ![m] =
                     [x \in Secrets |->
                         IF x \in selected THEN Highest(get_secret(e, s.who, x))
                         ELSE released[m][x]]]
           \/ UNCHANGED released

(* ----------------------------- applications ---------------------------- *)

\* An application opens one session and keeps it: it reads what the vault was
\* when the session was opened or last wrote.
open_with_keychain(m, c) == promote_for_action(m, [c EXCEPT !.as = None])

\* A vault with any unresolved conflict is refused.
open_session(m) ==
    /\ Phase(m, "idle") /\ valid_session(m)
    /\ report[m].conflicted = {}
    /\ \E c \in issues, free \in BOOLEAN :
          /\ c.at = m /\ c.as = Application
          /\ \E u \in open_with_keychain(m, c) :
                cmd' = [cmd EXCEPT ![m] = Session(m, "sdk", "sdk", None, u, free)]
          /\ absorb_clean_trust_raises(m, free)
    /\ UNCHANGED <<vault, report, default, issues, commits, released, lost>>

\* The application ends.
close_session(m) ==
    /\ Phase(m, "sdk")
    /\ cmd' = [cmd EXCEPT ![m] = Idle]
    /\ UNCHANGED <<vault, ratchet, report, default, issues, commits, released, lost>>

\* It calls an operation that writes.
call_session(m) ==
    /\ Phase(m, "sdk") /\ commits < MaxCommits
    /\ \E c \in issues :
          /\ c.at = m /\ c.as = Application /\ c.op \notin ReadOnly
          /\ cmd' = [cmd EXCEPT ![m].phase = "run", ![m].cmd = c]
    /\ UNCHANGED <<vault, ratchet, report, default, issues, commits, released, lost>>

Vault_get(m) ==
    /\ Phase(m, "sdk")
    /\ \E c \in issues :
          /\ c.at = m /\ c.as = Application /\ c.op = "get"
          /\ Gives(m, c.on, get_secret(cmd[m].report, cmd[m].who, c.on))
    /\ UNCHANGED <<vault, ratchet, report, default, cmd, issues, commits, lost>>

\* All additional fields, or one of them, come from the same report.
Vault_fields(m) ==
    /\ Phase(m, "sdk")
    /\ \E c \in issues :
          /\ c.at = m /\ c.as = Application /\ c.op = "field_list"
          /\ Gives(m, c.on, get_secret(cmd[m].report, cmd[m].who, c.on))
    /\ UNCHANGED <<vault, ratchet, report, default, cmd, issues, commits, lost>>

\* Additional fields are not kept.
Vault_set(m) ==
    /\ Calling(m, "set")
    /\ LET s == cmd[m]
       IN  set_secret_value(m, ensure_secret_writable(s.report, s.who, s.cmd.on), s.cmd.on,
                            [primary |-> s.cmd.arg, fields |-> NoFields], "done")

Vault_delete(m) ==
    /\ Calling(m, "delete")
    /\ delete_secret(m, ensure_secret_writable(cmd[m].report, cmd[m].who, cmd[m].cmd.on),
                     cmd[m].cmd.on)

\* A secret at the target is overwritten.
Vault_move_secret(m)  == Calling(m, "move") /\ relabel_secret(m, TRUE)
Vault_set_field(m)    == Calling(m, "field_set") /\ set_field(m)
Vault_delete_field(m) == Calling(m, "field_delete") /\ delete_field(m)

(* ---------------------------- read commands ---------------------------- *)

\* Every secret with a value, and its counter; conflicted ones have none.
cmd_list(m) ==
    /\ Reading(m, "list")
    /\ released' = [released EXCEPT ![m] =
           [x \in Secrets |->
               LET listed == {r.counter : r \in {v \in secret_records(cmd[m].report) : About(v) = x}}
               IN  IF listed = {} THEN released[m][x] ELSE Highest(listed)]]
    /\ UNCHANGED default

cmd_show(m) ==
    LET e     == cmd[m].report
        x     == cmd[m].cmd.on
        shown == {r.counter : r \in secret_record(e, x)}
    IN  /\ Reading(m, "show")
        /\ \/ ~ secret_conflict(e, x) /\ Gives(m, x, shown)
           \/ (secret_conflict(e, x) \/ shown = {}) /\ UNCHANGED released
        /\ UNCHANGED default

\* inspect_session: status and validate also render a vault with issues, which
\* raises nothing.  They run beside whatever else the machine is doing, and
\* stand for every other process of the machine that loads the vault.
inspect_session(m) ==
    /\ Phase(m, cmd[m].phase)
    /\ \E c \in issues : c.at = m /\ c.op = "status"
    /\ IF valid_session(m) THEN \E free \in BOOLEAN : absorb_clean_trust_raises(m, free)
       ELSE UNCHANGED ratchet
    /\ UNCHANGED <<vault, report, default, cmd, issues, commits, released, lost>>

\* What the other listings show.
cmd_grant_list(e) == e.grants
cmd_vault_show(e) == e.names
cmd_user_list(m) ==
    {r \in OfKind(vault[m], "user") : r.live /\ About(r) \in report[m].users \ {rootUser}}
cmd_group_list(m) == {r \in OfKind(vault[m], "member") : r.live /\ Id(r) \in report[m].members}

(* ----------------------------- convergence ----------------------------- *)

missing_reader_candidates(e) == {x \in Secrets : secret_missing_reader(e, x)}

\* converge_readers: what the actor can read is sealed again, to the readers
\* of the vault under the lock, with the plaintext the session holds.
converge_readers(m) ==
    /\ Phase(m, "converge")
    /\ LET s      == cmd[m]
           opened == {x \in missing_reader_candidates(s.report) :
                         \E r \in secret_record(s.report, x) : s.who \in r.data.value.slots}
           new    == {Record("secret", <<x>>, TRUE,
                             seal_secret_payload(m, x, decrypt_secret_from_report(s.report, x)),
                             report[m].next, s.who) : x \in opened}
       IN  IF opened = {}
           THEN /\ cmd' = [cmd EXCEPT ![m] = Return(m, s.report, s.memory)]
                /\ remember_user_if_explicit(m, s)
                /\ UNCHANGED <<vault, ratchet, report, issues, commits, released, lost>>
           ELSE Prepare(m, TRUE, new, None, "done")

(* ------------------------------- commits ------------------------------- *)

\* Mutant: a grant is not looked for in the vault it is written to.
took_effect_unchecked(e, r) ==
    r = None \/ Kind(r) \in {"grant", "secret", "handle", "vault"} \/ r.live =
        (Id(r) \in e.members \/ About(r) \in e.users \cup e.groups)

\* The checks the operations pass to commit: a live record must count, with
\* the content it was given, and what a tombstone names must be gone.
took_effect(e, r) ==
    \/ r = None
    \/ Kind(r) = "secret" /\ secret_record_is_current(e, r)
    \/ Kind(r) = "grant" /\ r.live /\ \E x \in grants_at(e, About(r)) : x.data = r.data
    \/ Kind(r) = "grant" /\ ~ r.live /\ grants_at(e, About(r)) = {}
    \/ Kind(r) = "member" /\ r.live = (Id(r) \in e.members)
    \/ Kind(r) = "group" /\ r.live = (About(r) \in e.groups)
    \/ Kind(r) = "user" /\ r.live = (About(r) \in e.users)
    \/ Kind(r) = "handle" /\ \E x \in e.handles : x.key = r.key /\ x.data = r.data
    \/ Kind(r) = "vault" /\ \E x \in e.names : x.key = r.key

\* Some record that decides who may do what is behind the ratchet: the report
\* is resolved without it.
AuthorityRolled(e) == \E k \in e.rolled : k[1] \in {"user", "group", "member", "grant"}

\* What the deletion of a user takes away, and the counter of its tombstone.
Taken(m, p) ==
    {[key |-> k, counter |-> report[m].next] :
        k \in {<<"member", id>> : id \in members_of(report[m], p)}
                \cup {x.key : x \in grants_of(report[m], p)}}

\* The holder of the key that signed the deletion is an administrator after it.
StillAdministers(m, post) ==
    /\ ~ AuthorityRolled(post)
    /\ \E u \in signer_for_key(vault[m] \cup cmd[m].new, KeyOf[cmd[m].who]) :
           post.auth[u].administer

\* Where a command stands after its commit.
Continue(m, post, top) ==
    LET s == cmd[m]
    IN  IF s.next = "done"
        THEN /\ cmd' = [cmd EXCEPT ![m] = Return(m, post, top)]
             /\ remember_user_if_explicit(m, s)
        ELSE /\ cmd' = [cmd EXCEPT ![m].phase = s.next, ![m].report = post, ![m].memory = top]
             /\ UNCHANGED default

\* LockedSession::commit, the second half: validate what the vault would be,
\* against the watermarks the reload raised, and write both or neither.
commit(m) ==
    LET s      == cmd[m]
        raised == Raised(m)
    IN  /\ s.phase = "commit"
        /\ \E post \in {validate_v1(vault[m] \cup s.new, raised)} :
              IF post.authority_unresolved \/ ~ took_effect(post, s.main)
              THEN Fail(m, report[m], ratchet[m])
              ELSE /\ vault'   = [vault EXCEPT ![m] = @ \cup s.new]
                   /\ ratchet' = [ratchet EXCEPT ![m] = apply_update(raised, post)]
                   /\ report'  = [report EXCEPT ![m] = post]
                   /\ commits' = commits + 1
                   /\ Continue(m, post, apply_update(raised, post))
                   /\ lost' = IF s.cmd.op = "user_delete" /\ StillAdministers(m, post)
                              THEN [lost EXCEPT ![m] = @ \cup Taken(m, s.cmd.on)] ELSE lost
                   /\ UNCHANGED <<issues, released>>

(* -------------------------------- merges ------------------------------- *)

\* git pull: the merge driver unites the records of both sides.
git_merge(m) ==
    /\ Phase(m, cmd[m].phase)
    /\ \E n \in Machines :
          /\ ~ (vault[n] \subseteq vault[m])
          /\ vault'  = [vault EXCEPT ![m] = @ \cup vault[n]]
          /\ report' = [report EXCEPT ![m] = validate_v1(vault[m] \cup vault[n], ratchet[m])]
    /\ UNCHANGED <<ratchet, default, cmd, issues, commits, released, lost>>

Next == \E m \in Machines :
    \/ BeginRead(m) \/ cmd_secret_get(m) \/ cmd_field_get(m) \/ cmd_field_list(m)
    \/ cmd_list(m) \/ cmd_show(m) \/ inspect_session(m)
    \/ run_inject(m)
    \/ open_session(m) \/ close_session(m) \/ call_session(m) \/ Vault_get(m) \/ Vault_fields(m)
    \/ Vault_set(m) \/ Vault_delete(m) \/ Vault_move_secret(m)
    \/ Vault_set_field(m) \/ Vault_delete_field(m)
    \/ Begin(m) \/ confirm_destructive(m) \/ cmd_user_use(m)
    \/ cmd_grant_permission(m) \/ cmd_grant_delete(m)
    \/ cmd_group_create(m) \/ cmd_group_delete(m) \/ cmd_group_add(m) \/ cmd_group_remove(m)
    \/ add_user(m) \/ cmd_user_delete(m) \/ cmd_user_handle_set(m) \/ cmd_vault_name_set(m)
    \/ cmd_secret_write(m) \/ cmd_field_set(m) \/ cmd_field_delete(m) \/ cmd_secret_delete(m)
    \/ cmd_secret_move(m) \/ relabel_secret_vacate(m)
    \/ converge_readers(m) \/ commit(m)
    \/ git_merge(m)

Spec == Init /\ [][Next]_vars

(* ------------------------------ properties ----------------------------- *)

\* Type correctness, with counters within MAX_LWW_COUNTER.
TypeOK ==
    /\ \A m \in Machines :
          /\ \A r \in vault[m] : r.key \in RecordKeys /\ r.counter \in 1 .. MaxCounter
          /\ default[m] \in Users \cup {None}
          /\ cmd[m].phase \in {"idle", "run", "read", "commit", "converge", "vacate", "sdk"}
    /\ ratchet \in [Machines -> [RecordKeys -> 0 .. MaxCounter]]
    /\ commits \in Nat

\* The records that count, handles excepted: deleting the holder of a handle
\* hands it back to whoever had it before.
Shown(m) ==
    report[m].secrets
        \cup cmd_grant_list(report[m]) \cup cmd_vault_show(report[m])
        \cup cmd_user_list(m) \cup cmd_group_list(m)

\* The report decides who may do what without leaving anything out.
Authoritative(e) == ~ e.authority_unresolved /\ ~ AuthorityRolled(e)

\* A key in rollback conflict shows nothing; and unless authority itself is in
\* conflict, nothing a worktree shows is older than what its machine has seen
\* admitted: revoking the member who wrote the newest value does not bring the
\* value before it back (rollback_keys, pipeline.rs).
EffectiveNotBelowMemory ==
    \A m \in Machines :
        LET shown == Shown(m)
        IN  /\ \A r \in shown : r.key \notin report[m].rolled
            /\ Authoritative(report[m]) =>
                   \A k \in {r.key : r \in shown} :
                       Highest({r.counter : r \in {x \in shown : x.key = k}}) >= ratchet[m][k]

\* Access a deleted user had is not effective again on the machine that
\* deleted it, unless somebody added it anew after the deletion, even when the
\* user is restored and whoever deleted it is revoked (the cascade of
\* delete_user, principals.rs).  Deletions by which the administrator loses its
\* own authority are excepted: the tombstones lose it with their signer.
RestoredHasNoOldAccess ==
    \A m \in Machines :
        Authoritative(report[m]) =>
            \A t \in lost[m] :
                t.key \in ({<<"member", x>> : x \in report[m].members}
                              \cup {x.key : x \in report[m].grants}) =>
                    \E r \in vault[m] : r.key = t.key /\ r.live /\ r.counter > t.counter

\* What a command published has an effect: every record it appended was one
\* its signer may issue in the vault it was appended to, whatever happened
\* between the permission check and the lock (the checks passed to commit).
\* Excepted are commands by which the actor gives up its own authority.
PublishedIsAdmitted ==
    [][\A m \in Machines :
          (/\ cmd[m].phase = "commit" /\ cmd[m].main # None
           /\ vault'[m] # vault[m] /\ Authoritative(report'[m])
           /\ report'[m].auth[cmd[m].who] = report[m].auth[cmd[m].who]) =>
                  \A r \in vault'[m] \ vault[m] :
                      \E a \in report'[m].admitted :
                          a.key = r.key /\ a.live = r.live /\ a.counter = r.counter]_vars

\* No session gives out or lists a value of a secret that is older than the
\* newest one the machine remembered when the session last read the vault; and
\* what a command gives out its machine remembers by then, unless another
\* process held the root lock while it loaded.  So no command started after it
\* goes back behind that, whatever other processes load, whatever is merged and
\* whoever is revoked in between (absorb_clean_trust_raises).  A session that is
\* kept (thorax-sdk) reads the vault when it is opened and when it writes: what
\* other processes of the machine have seen since is not in it.
ReadsNeverGoBack ==
    [][\A m \in Machines, x \in Secrets :
          LET k == <<"secret", <<x>>>>
              s == cmd[m]
          IN  (released'[m][x] # released[m][x] /\ Authoritative(s.report)) =>
                  /\ released'[m][x] >= s.memory[k]
                  /\ (s.phase = "read" /\ s.stored) => ratchet[m][k] >= released'[m][x]]_vars

\* Merging histories that were each accepted gives a vault with a meaning
\* (README.md: compatible signed histories are combined automatically).
AuthorityConverges == \A m \in Machines : ~ report[m].authority_unresolved
=============================================================================
