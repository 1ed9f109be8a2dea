------------------------------ MODULE VaultLog ------------------------------
(***************************************************************************)
(* Several members edit copies of one vault and exchange them through git. *)
(* Each worker has a worktree, a ratchet (what this machine has verified)  *)
(* and at most one open session, a snapshot of the worktree that goes      *)
(* stale whenever git changes the file.  Operations check their            *)
(* preconditions, and take the plaintext they re-seal, from the snapshot;  *)
(* the commit then reloads the worktree and appends to what it finds       *)
(* (crates/thorax-ops/src/session.rs, secrets.rs, principals.rs,           *)
(* conflicts.rs, reconcile.rs, trust.rs).                                  *)
(*                                                                         *)
(* A commit is one step here; module Transaction shows that the journal    *)
(* makes it one.  With one process per machine the session's ratchet is    *)
(* the one on disk.                                                        *)
(***************************************************************************)
EXTENDS Validate

CONSTANTS
    Workers,      \* the members with a worktree
    Genesis,      \* the records every copy starts from
    MaxCommits,   \* bound on the git commits that exist
    NoSession

ASSUME VaultLogAssumption ==
    /\ Workers \subseteq Users
    /\ Genesis \subseteq Records
    /\ MaxCommits \in Nat

VARIABLES
    vault,        \* the vault file of each worktree
    ratchet,      \* each machine's persisted watermarks
    session,      \* the open session of each worker
    commits       \* the versions git can produce

vars == <<vault, ratchet, session, commits>>

\* What an open session still has to do to finish its operation: nothing,
\* converge the readers after an access addition, or tombstone the secret a
\* move has copied away.
Todos == {"none", "converge"} \cup Secrets

Sessions == [vault : SUBSET Records, todo : Todos]

TypeOK ==
    /\ vault \in [Workers -> SUBSET Records]
    /\ ratchet \in [Workers -> Ratchets]
    /\ session \in [Workers -> Sessions \cup {NoSession}]
    /\ commits \subseteq SUBSET Records

Init ==
    /\ vault = [u \in Workers |-> Genesis]
    /\ ratchet = [u \in Workers |-> apply_update([k \in Keys |-> 0], Genesis)]
    /\ session = [u \in Workers |-> NoSession]
    /\ commits = {Genesis}

(* ------------------------------- sessions ------------------------------ *)

Idle(u) == session[u] # NoSession /\ session[u].todo = "none"

\* The report the open session works from, and the one a commit gets after
\* reload_if_stale_locked.
report(u)  == validate_v1(session[u].vault, ratchet[u])
current(u) == validate_v1(vault[u], ratchet[u])

\* LockedSession::load, with absorb_clean_trust_raises.
Load(u) ==
    /\ session[u] = NoSession
    /\ session' = [session EXCEPT ![u] = [vault |-> vault[u], todo |-> "none"]]
    /\ ratchet' = [ratchet EXCEPT ![u] = apply_update(@, vault[u])]
    /\ UNCHANGED <<vault, commits>>

\* The process ends, perhaps between the two commits of an operation.
Close(u) ==
    /\ session[u] # NoSession
    /\ session' = [session EXCEPT ![u] = NoSession]
    /\ UNCHANGED <<vault, ratchet, commits>>

(* -------------------------------- commits ------------------------------ *)

\* Mutant: nothing remembered at a rolled-back key counts.
fresh_counter_unfloored(u) == next_counter(current(u))

\* commit_record's counter: above everything admitted in the vault and above
\* everything remembered at a rolled-back key.
fresh_counter(u) ==
    LET now == current(u) IN Max({next_counter(now), now.floor})

\* The report on the vault with records appended, against the ratchet the
\* commit has raised.
post_report(u, new) == validate_v1(vault[u] \cup new, apply_update(ratchet[u], vault[u]))

\* Mutant: what the post-state raises is not remembered.
Commit_unremembered(u, new, todo) ==
    /\ vault' = [vault EXCEPT ![u] = @ \cup new]
    /\ ratchet' = [ratchet EXCEPT ![u] = apply_update(@, vault[u])]
    /\ session' = [session EXCEPT ![u] = [vault |-> vault[u] \cup new, todo |-> todo]]
    /\ UNCHANGED commits

\* LockedSession::commit succeeds: vault and ratchet become the after-images
\* and the session moves to the post-commit state.
Commit(u, new, todo) ==
    /\ vault' = [vault EXCEPT ![u] = @ \cup new]
    /\ ratchet' = [ratchet EXCEPT ![u] = apply_update(apply_update(@, vault[u]), vault[u] \cup new)]
    /\ session' = [session EXCEPT ![u] = [vault |-> vault[u] \cup new, todo |-> todo]]
    /\ UNCHANGED commits

\* The commit fails after the reload: nothing is written, the operation is
\* over, and the session holds the reloaded snapshot.
Refuse(u) ==
    /\ session' = [session EXCEPT ![u] = [vault |-> vault[u], todo |-> "none"]]
    /\ UNCHANGED <<vault, ratchet, commits>>

\* Mutant: no ceiling on counters.
commit_record_unbounded(u, r, effective, todo) ==
    IF effective THEN Commit(u, {r}, todo) ELSE Refuse(u)

\* commit_record with an effectiveness check on the post-state.
commit_record(u, r, effective, todo) ==
    IF r.counter <= MaxCounter /\ effective THEN Commit(u, {r}, todo) ELSE Refuse(u)

\* secret_record_is_current on the record just appended.
is_current(u, r) == r \in post_report(u, {r}).current

\* seal_secret_payload seals to the readers of the reloaded state.
sealed(u, k, value, counter) ==
    [key |-> k, counter |-> counter, content |-> value,
     slots |-> current(u).writers, signer |-> u]

tombstone(u, k, counter) ==
    [key |-> k, counter |-> counter, content |-> "deleted", slots |-> {}, signer |-> u]

grant(u, g, counter) ==
    [key |-> g, counter |-> counter, content |-> "granted", slots |-> {}, signer |-> u]

set_secret_value(u, k, value, todo) ==
    LET r == sealed(u, k, value, fresh_counter(u))
    IN  commit_record(u, r, is_current(u, r), todo)

delete_secret(u, k) ==
    LET r == tombstone(u, k, fresh_counter(u))
    IN  commit_record(u, r, is_current(u, r), "none")

(* ------------------------------ operations ----------------------------- *)

SetSecret(u, k, value) ==
    /\ Idle(u)
    /\ u \in report(u).writers
    /\ set_secret_value(u, k, value, "none")

DeleteSecret(u, k) ==
    /\ Idle(u)
    /\ u \in report(u).writers
    /\ delete_secret(u, k)

\* relabel_secret: copy the value this session sees, then tombstone the old
\* key in a commit of its own.
RelabelSecret(u, from, to) ==
    /\ Idle(u)
    /\ u \in report(u).writers
    /\ \E r \in secret_record(report(u), from) :
          /\ u \in r.slots
          /\ set_secret_value(u, to, r.content, IF from = to THEN "none" ELSE from)

Vacate(u) ==
    /\ session[u] # NoSession
    /\ session[u].todo \in Secrets
    /\ delete_secret(u, session[u].todo)

\* A grant id is derived from a random seed: it names no earlier grant.
Unissued(g) ==
    /\ \A R \in commits \cup {vault[w] : w \in Workers} : AtKey(R, g) = {}
    /\ \A w \in Workers : ratchet[w][g] = 0

\* grant_permission; access_addition converges the readers afterwards.
GrantPermission(u, g) ==
    /\ Idle(u) /\ u = root
    /\ Unissued(g)
    /\ LET r == grant(u, g, fresh_counter(u))
       IN  commit_record(u, r, g \in post_report(u, {r}).grants, "converge")

DeleteGrant(u, g) ==
    /\ Idle(u) /\ u = root
    /\ g \in report(u).grants
    /\ LET r == tombstone(u, g, fresh_counter(u))
       IN  commit_record(u, r, g \in current(u).grants /\ g \notin post_report(u, {r}).grants,
                         "none")

\* converge_readers: re-seal what the session's report can open and some
\* reader lacks a slot for, at one counter for the batch.
ConvergeReaders(u) ==
    /\ session[u] # NoSession
    /\ session[u].todo \in {"none", "converge"}
    /\ LET counter == next_counter(current(u))
           opened  == {r \in missing_reader_candidates(report(u)) : u \in r.slots}
           resealed == {sealed(u, r.key, r.content, counter) : r \in opened}
       IN  IF opened = {}
           THEN /\ session' = [session EXCEPT ![u].todo = "none"]
                /\ UNCHANGED <<vault, ratchet, commits>>
           ELSE IF counter <= MaxCounter THEN Commit(u, resealed, "none") ELSE Refuse(u)

(* ------------------------------- conflicts ----------------------------- *)

\* thorax conflicts: every contested or rolled-back key of the session's
\* report, with the candidates that survive there.
cmd_conflicts_list(u) ==
    {[key |-> k, rollback |-> k \in report(u).rolled,
      candidates |-> candidates(session[u].vault, report(u), k)] : k \in report(u).conflicted}

\* The authority the record class requires to be written at all.
ensure_can_resolve_conflict(e, u, r) ==
    IF r.key \in Secrets THEN u \in e.writers ELSE u = root

\* The record with this hash among the candidates.
find_conflict_candidate(u) == UNION {c.candidates : c \in cmd_conflicts_list(u)}

\* What was picked, a grant or a deletion, is what the key now has.
ensure_resolution_effective(e, r) ==
    IF r.key \in Secrets THEN r \in e.current ELSE (r.key \in e.grants) = (r.content = "granted")

\* A value is bound to its signer and counter: it is opened and sealed again.
resolve_secret_conflict(u, r) ==
    /\ u \in r.slots
    /\ set_secret_value(u, r.key, r.content, "none")

\* Other bodies are signed again by the resolver, at a counter above the conflict.
resolve_conflict(u, r) ==
    /\ ensure_can_resolve_conflict(report(u), u, r)
    /\ IF r.content \in Values THEN resolve_secret_conflict(u, r)
       ELSE LET s == [r EXCEPT !.counter = fresh_counter(u), !.signer = u]
            IN  commit_record(u, s, ensure_resolution_effective(post_report(u, {s}), s), "none")

\* thorax conflicts resolve: one listed candidate, picked by its hash.
cmd_conflicts_resolve(u) ==
    /\ Idle(u)
    /\ \E r \in find_conflict_candidate(u) : resolve_conflict(u, r)

\* accept_rollback: forget what was remembered at a key beyond what the
\* session's report shows there.  No identity is needed.
accept_rollback(u, k) ==
    /\ ratchet' = [ratchet EXCEPT ![u][k] = report(u).marks[k]]
    /\ session' = [session EXCEPT ![u].vault = vault[u]]
    /\ UNCHANGED <<vault, commits>>

\* thorax conflicts accept: a listed conflict that is a rollback.
cmd_conflicts_accept(u) ==
    /\ Idle(u)
    /\ \E c \in cmd_conflicts_list(u) : c.rollback /\ accept_rollback(u, c.key)

\* reset_ratchet: trust exactly what the worktree justifies.
reset_ratchet(u) == ratchet' = [ratchet EXCEPT ![u] = apply_update([k \in Keys |-> 0], vault[u])]

\* thorax trust reset: no session is needed, nor a vault that validates.
cmd_trust_reset(u) ==
    /\ session[u] = NoSession
    /\ reset_ratchet(u)
    /\ UNCHANGED <<vault, session, commits>>

(* ---------------------------------- git -------------------------------- *)

GitCommit(u) ==
    /\ Cardinality(commits) < MaxCommits
    /\ commits' = commits \cup {vault[u]}
    /\ UNCHANGED <<vault, ratchet, session>>

\* A pull, a branch switch or a reset puts any committed version in place.
GitCheckout(u, version) ==
    /\ vault' = [vault EXCEPT ![u] = version]
    /\ UNCHANGED <<ratchet, session, commits>>

\* The union of all three sides.
merge_vaults(base, ours, theirs) == base \cup ours \cup theirs

\* What would be contested in the merged vault, by this machine's memory.
check_merged_vault(u, merged) == validate_v1(merged, ratchet[u]).conflicted

\* The merge driver writes the union, contested or not.  Without conflicts git
\* may commit it at once; otherwise the path stays unmerged until the user
\* settles it and commits.
cmd_merge_driver(u, base, theirs) ==
    LET merged == merge_vaults(base, vault[u], theirs)
    IN  /\ vault' = [vault EXCEPT ![u] = merged]
        /\ \/ UNCHANGED commits
           \/ /\ check_merged_vault(u, merged) = {}
              /\ Cardinality(commits) < MaxCommits
              /\ commits' = commits \cup {merged}
        /\ UNCHANGED <<ratchet, session>>

\* A member working elsewhere commits a record signed with its own key, at a
\* counter of its choosing and whatever its authority.
ForeignCommit(version, r) ==
    /\ Cardinality(commits) < MaxCommits
    /\ r.signer \notin Workers
    /\ r.content \in Values => r.signer \in r.slots
    /\ commits' = commits \cup {version \cup {r}}
    /\ UNCHANGED <<vault, ratchet, session>>

(* ----------------------------- specification --------------------------- *)

Next ==
    \/ \E u \in Workers :
          \/ Load(u) \/ Close(u) \/ Vacate(u) \/ ConvergeReaders(u)
          \/ cmd_conflicts_resolve(u) \/ cmd_conflicts_accept(u) \/ cmd_trust_reset(u)
          \/ GitCommit(u)
          \/ \E k \in Secrets, value \in Values : SetSecret(u, k, value)
          \/ \E k \in Secrets : DeleteSecret(u, k)
          \/ \E from, to \in Secrets : RelabelSecret(u, from, to)
          \/ \E g \in Grants : GrantPermission(u, g) \/ DeleteGrant(u, g)
          \/ \E version \in commits : GitCheckout(u, version)
          \/ \E base, theirs \in commits : cmd_merge_driver(u, base, theirs)
    \/ \E version \in commits, r \in Records : ForeignCommit(version, r)

Spec == Init /\ [][Next]_vars

(* ------------------------------ properties ----------------------------- *)

Open(u) == session[u] # NoSession

\* As long as no grant is under suspicion, a session never shows a secret
\* value or deletion older than what this machine has verified at that key,
\* whatever git checked out, merged or dropped (validate_v1's rollback
\* detection, rollback keys being inert in lww_resolution).
ShownNotBelowMemory ==
    \A u \in Workers :
        (Open(u) /\ report(u).rolled \cap Grants = {}) =>
            \A r \in report(u).current : r.counter >= ratchet[u][r.key]

\* A member the current state lets write can always make its write the
\* effective one, rolled-back and contested keys included, until an
\* authorized record reaches the counter ceiling; records of members without
\* authority cannot prevent it (commit_record, admitted_watermarks).
WriteTakesEffect ==
    \A u \in Workers, k \in Secrets :
        LET r == tombstone(u, k, fresh_counter(u))
        IN  ( /\ u \in current(u).writers
              /\ \A x \in Admitted(vault[u], Writers(vault[u], {})) : x.counter < MaxCounter
              /\ \A j \in Keys : ratchet[u][j] < MaxCounter )
            => r.counter <= MaxCounter /\ is_current(u, r)

\* A step that writes the vault file and moves the session with it is a
\* commit; git changes the file under the session.
Commits(u) == vault'[u] # vault[u] /\ session'[u] # session[u]

\* What a commit of an ordinary operation appends lies above everything the
\* machine had verified at that key and is remembered once the commit is
\* done, so that no later checkout can undo it unnoticed.
CommitsAdvanceMemory ==
    [][\A u \in Workers : Commits(u) =>
          \/ \A r \in vault'[u] \ vault[u] :
                 ratchet[u][r.key] < r.counter /\ ratchet'[u][r.key] = r.counter
          \/ ConvergeReaders(u)]_vars

\* A commit that writes only secrets leaves what every other secret shows as
\* the reloaded worktree had it: the counter it mints, and the watermarks it
\* raises, neither hide nor revive a value elsewhere.
SecretsAreIndependent ==
    [][\A u \in Workers : Commits(u) =>
          LET written == {r.key : r \in vault'[u] \ vault[u]}
          IN  written \subseteq Secrets =>
                \A was \in {current(u)}, now \in {validate_v1(vault'[u], ratchet'[u])} :
                    \A k \in Secrets \ written : secret_record(now, k) = secret_record(was, k)]_vars
=============================================================================
