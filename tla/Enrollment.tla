------------------------------- MODULE Enrollment -------------------------------
(***************************************************************************)
(* How a newcomer gets into a vault: invitations (thorax-ops/invite.rs),   *)
(* the claims and CI bootstraps that use them, and the join approvals of   *)
(* externally generated identities (thorax-ops/enrollment.rs).             *)
(*                                                                         *)
(* The administrators work in one workspace; what they commit reaches the  *)
(* other machines through git, in any order and possibly after having been *)
(* reverted or merged the wrong way.  An invitation is prepared against    *)
(* the session's view, its file is written, and only then the change is    *)
(* committed, provided that vault and ratchet are still the ones it was    *)
(* prepared against.  A claim reads the vault before it takes the lock on  *)
(* the machine's trust state.                                              *)
(*                                                                         *)
(* One commit is atomic here: Transaction shows that of the journal.  The  *)
(* vault is the counter of its one secret, its members and those that were *)
(* deleted, who was granted the secret and for whom it is sealed.          *)
(***************************************************************************)
EXTENDS Naturals, FiniteSets

CONSTANTS Admins,      \* the administrators' processes
          Machines,    \* where newcomers claim, and CI runs
          Users,       \* the newcomers
          MaxCounter,  \* how often the secret is written in a behaviour
          MaxPushed,   \* how many vaults are pushed in it
          MaxCrashes   \* how many administrators' processes die

CONSTANTS InviteForms, \* how administrators invite
          NoUser, NoRatchet, NoBaseline, NoJournal, NoVault

\* The arguments of an invitation: with access to the secret, where it goes, as --json
\* or not, and where the issuer's memory goes with it.
Forms == [grant : BOOLEAN, sinks : SUBSET {"file", "text", "qr"}, json : BOOLEAN,
          include : SUBSET {"file", "text"}]

ASSUME EnrollmentAssumption ==
    /\ MaxCounter \in Nat \ {0} /\ MaxPushed \in Nat /\ MaxCrashes \in Nat
    /\ InviteForms \subseteq Forms
    /\ NoUser \notin Users

VARIABLES vault,      \* the administrators' workspace
          ratchet,    \* their machine's memory
          journal,    \* join-commit.cord of an older version
          op,         \* what the administrators' processes are doing
          history,    \* what can be seen of every vault that was ever pushed
          invites,    \* the invitations that exist as a file or a string
          approvals,  \* the join approvals that were handed out
          checkout,   \* the vault in every machine's workspace
          memory,     \* the ratchet of every machine
          identity,   \* the users in every machine's keychain
          claim,      \* the claim in flight on every machine
          crashes,
          unfiled     \* who became a member without --invite-file (history variable)

admin_vars == <<vault, ratchet, journal, op, history, invites, approvals>>
machine_vars == <<checkout, memory, identity, claim>>
vars == <<admin_vars, machine_vars, crashes, unfiled>>

Vaults == [secret : 0..MaxCounter, members : SUBSET Users,
           deleted : SUBSET Users, granted : SUBSET Users, sealed : SUBSET Users]
Ratchets == [secret : 0..MaxCounter, members : SUBSET Users, deleted : SUBSET Users]

Journals == [expected : Vaults, memory : Ratchets, next : Vaults, ratchet : Ratchets]
Invites == [user : Users, baseline : Ratchets \cup {NoBaseline}]

First == [secret |-> 0, members |-> {}, deleted |-> {}, granted |-> {},
          sealed |-> {}]
\* What a reader can hold against its memory.
Seen(v) == [secret |-> v.secret, members |-> v.members, deleted |-> v.deleted]
Fresh == [secret |-> 0, members |-> {}, deleted |-> {}]

\* A remembered record is gone, or an older one is in its place.
has_suspected_rollback(v, r) ==
    \/ v.secret < r.secret
    \/ ~(r.members \subseteq v.members \cup v.deleted)
    \/ ~(r.deleted \subseteq v.deleted)

Larger(a, b) == IF a < b THEN b ELSE a
apply_update(r, v) ==
    [secret |-> Larger(r.secret, v.secret), members |-> r.members \cup v.members,
     deleted |-> r.deleted \cup v.deleted]
Covers(r, s) ==
    /\ s.secret <= r.secret
    /\ s.members \subseteq r.members \cup r.deleted
    /\ s.deleted \subseteq r.deleted

----------------------------------------------------------------------------
(* What the changes do to a vault. *)

Reseal(v) == [v EXCEPT !.secret = @ + 1, !.sealed = v.granted \cap v.members]

\* user, entry point and grants; what the newcomer may read is sealed again.
Enrolled(v, u, grant) ==
    LET joined == [v EXCEPT !.members = @ \cup {u}]
    IN  IF grant THEN Reseal([joined EXCEPT !.granted = @ \cup {u}]) ELSE joined

Deleted(v, u) ==
    [v EXCEPT !.members = @ \ {u}, !.deleted = @ \cup {u}, !.granted = @ \ {u}]

----------------------------------------------------------------------------
(* Join candidates and approvals: objects of the cluster, which anyone there may edit. *)

JoinPurposeV1 == {"Enroll", "RestoreTrust"}

\* What the proof of a candidate covers: all of it but the proof.
message(c) == [f \in DOMAIN c \ {"proof"} |-> c[f]]

\* The identity of deployment m asks to join, with the entry point it signed; one that
\* asks for its memory back sends none.
create_join_candidate(m, u, purpose) ==
    LET c == [purpose |-> purpose, deployment |-> m, user |-> u,
              entry_point |-> IF purpose = "Enroll" THEN u ELSE NoUser]
    IN  [f \in DOMAIN c \cup {"proof"} |-> IF f = "proof" THEN c ELSE c[f]]

\* What an administrator may be shown: candidates, also with another deployment or
\* purpose written into them afterwards.
Altered(c, n, other) == [c EXCEPT !.deployment = n, !.purpose = other]
Candidates ==
    {Altered(create_join_candidate(m, u, purpose), n, other) :
        m \in Machines, n \in Machines, u \in Users,
        purpose \in JoinPurposeV1, other \in JoinPurposeV1}

validate_candidate_entry_point(c) == c.entry_point = c.user

validate_join_candidate(c) ==
    /\ c.proof = message(c)
    /\ \/ c.purpose = "Enroll" /\ c.entry_point # NoUser /\ validate_candidate_entry_point(c)
       \/ c.purpose = "RestoreTrust" /\ c.entry_point = NoUser

validate_approval_bindings(c, a) ==
    /\ validate_join_candidate(c)
    /\ a.purpose = c.purpose /\ a.deployment = c.deployment /\ a.user = c.user
    /\ a.purpose = "RestoreTrust" => ~a.approved_grants

JoinApprovalV1(c, grant, baseline) ==
    [purpose |-> c.purpose, deployment |-> c.deployment, user |-> c.user,
     approved_grants |-> grant, baseline |-> baseline]

Approvals == [purpose : JoinPurposeV1, deployment : Machines, user : Users,
              approved_grants : BOOLEAN, baseline : Ratchets]

----------------------------------------------------------------------------
(* The administrators. *)

NoMaterial == [user |-> NoUser, baseline |-> NoBaseline]
NoForm == [grant |-> FALSE, sinks |-> {}, json |-> FALSE, include |-> {}]
NoOp == [at |-> "idle", kind |-> "invite", material |-> NoMaterial, form |-> NoForm,
         expected |-> NoVault, memory |-> NoRatchet, next |-> NoVault]
NoClaim == [at |-> "idle", user |-> NoUser, baseline |-> NoBaseline,
            vault |-> NoVault]

\* An older version may have died while it approved a join: its journal and, of the
\* ratchet and the vault, those it had replaced already.
Init ==
    /\ \E u \in Users, m \in Machines, left \in BOOLEAN, done \in 0..2 :
          LET next == Enrolled(First, u, TRUE)
          IN  /\ journal = IF left
                           THEN [expected |-> First, memory |-> Fresh, next |-> next,
                                 ratchet |-> apply_update(Fresh, next)]
                           ELSE NoJournal
              /\ done # 0 => left
              /\ ratchet = IF done >= 1 THEN apply_update(Fresh, next) ELSE Fresh
              /\ vault = IF done = 2 THEN next ELSE First
              /\ approvals = IF left THEN {JoinApprovalV1(
                                 create_join_candidate(m, u, "Enroll"), TRUE, Fresh)} ELSE {}
    /\ op = [p \in Admins |-> NoOp]
    /\ history = {Seen(vault)}
    /\ invites = {}
    /\ checkout = [m \in Machines |-> NoVault]
    /\ memory = [m \in Machines |-> NoRatchet]
    /\ identity = [m \in Machines |-> {}]
    /\ claim = [m \in Machines |-> NoClaim]
    /\ crashes = 0
    /\ unfiled = {}

\* A commit: the vault is replaced, and the memory raised with it.
Commit(v) ==
    /\ vault' = v
    /\ ratchet' = apply_update(ratchet, v)
    /\ history' = history \cup {Seen(v)}

join_commit_present == journal # NoJournal

\* Sessions load only once the older version's journal is out of the way, and act
\* only on a vault that is not behind the machine's memory.
Clean ==
    /\ ~join_commit_present
    /\ ~has_suspected_rollback(vault, ratchet)
    /\ Cardinality(history) < MaxPushed
Room == vault.secret < MaxCounter

\* set, and user delete: under the locks, on the vault as it is then.
set_secret(p) ==
    /\ op[p].at = "idle" /\ Clean /\ Room
    /\ Commit(Reseal(vault))
    /\ UNCHANGED <<journal, op, invites, approvals, machine_vars, crashes, unfiled>>

delete_user(p, u) ==
    /\ op[p].at = "idle" /\ Clean
    /\ u \in vault.members
    /\ Commit(Deleted(vault, u))
    /\ UNCHANGED <<journal, op, invites, approvals, machine_vars, crashes, unfiled>>

Busy(u) == \E q \in Admins : op[q].at # "idle" /\ op[q].material.user = u

\* prepare_invite_user draws a new identity.  The baseline is the memory before the
\* invitation.  Without --json an invitation must go somewhere.
prepare_invite_user(p, u, form) ==
    /\ form.json \/ form.sinks # {}
    /\ op[p].at = "idle" /\ Clean /\ (form.grant => Room)
    /\ u \notin vault.members \cup vault.deleted /\ ~Busy(u)
    /\ \A i \in invites \cup approvals : i.user # u
    /\ op' = [op EXCEPT ![p] = [at |-> "emit", kind |-> "invite", form |-> form,
                 material |-> [user |-> u, baseline |-> ratchet],
                 expected |-> vault, memory |-> ratchet, next |-> Enrolled(vault, u, form.grant)]]
    /\ UNCHANGED <<vault, ratchet, journal, history, invites, approvals, machine_vars, crashes, unfiled>>

\* plan_join_approval for a candidate, or for a member that unfiled its memory.  (That a
\* deleted identity applies again is left out.)
plan_join_approval(p, c, grant) ==
    /\ op[p].at = "idle" /\ Clean /\ (grant => Room)
    /\ validate_join_candidate(c)
    /\ \/ c.purpose = "Enroll" /\ c.user \notin vault.members \cup vault.deleted
       \/ c.purpose = "RestoreTrust" /\ c.user \in vault.members /\ ~grant
    /\ ~Busy(c.user) /\ \A i \in invites : i.user # c.user
    /\ op' = [op EXCEPT ![p] = [at |-> "emit", kind |-> c.purpose, form |-> NoForm,
                 material |-> JoinApprovalV1(c, grant, ratchet),
                 expected |-> vault, memory |-> ratchet,
                 next |-> IF c.purpose = "RestoreTrust" THEN vault
                          ELSE Enrolled(vault, c.user, grant)]]
    /\ UNCHANGED <<vault, ratchet, journal, history, invites, approvals, machine_vars, crashes, unfiled>>

\* A compact invitation goes without the issuer's memory.
wire_invite(material, include) ==
    IF include THEN material ELSE [material EXCEPT !.baseline = NoBaseline]

invite_bytes(p) == wire_invite(op[p].material, "file" \in op[p].form.include)
encode_invite(p) == wire_invite(op[p].material, "text" \in op[p].form.include)

\* Mutant: the change is committed first.
Emit_later(p) ==
    /\ op[p].at = "emit"
    /\ op' = [op EXCEPT ![p].at = "commit"]
    /\ UNCHANGED <<vault, ratchet, journal, history, invites, approvals, machine_vars, crashes, unfiled>>

\* The file is on disk, the approval in the cluster, before the commit; a string is
\* only encoded by then.  An approval of an earlier attempt is kept.
Emit(p) ==
    /\ op[p].at = "emit"
    /\ op' = [op EXCEPT ![p].at = "commit"]
    /\ invites' = IF "file" \in op[p].form.sinks
                  THEN invites \cup {invite_bytes(p)} ELSE invites
    /\ approvals' = IF \/ op[p].kind = "invite"
                       \/ \E a \in approvals : /\ a.user = op[p].material.user
                                               /\ a.purpose = op[p].kind
                                               /\ a.deployment = op[p].material.deployment
                    THEN approvals ELSE approvals \cup {op[p].material}
    /\ UNCHANGED <<vault, ratchet, journal, history, machine_vars, crashes, unfiled>>

\* Mutant: committed whatever happened in between.
Stale_never(p) == FALSE

Stale(p) == vault # op[p].expected \/ (op[p].kind # "RestoreTrust" /\ ratchet # op[p].memory)

\* commit_invite_user or commit_join_approval_plan: the prepared bytes or nothing.
CommitPrepared(p) ==
    /\ op[p].at = "commit"
    /\ \/ /\ Stale(p)
          /\ op' = [op EXCEPT ![p] = NoOp]
          /\ UNCHANGED <<vault, ratchet, history, unfiled>>
       \/ /\ ~Stale(p)
          /\ IF op[p].kind = "RestoreTrust" THEN UNCHANGED <<vault, ratchet, history>>
                                       ELSE Commit(op[p].next)
          /\ op' = [op EXCEPT ![p] = IF op[p].kind = "invite" THEN [@ EXCEPT !.at = "print"]
                                                              ELSE NoOp]
          /\ unfiled' = IF op[p].kind = "invite" /\ "file" \notin op[p].form.sinks
                        THEN unfiled \cup {op[p].material.user} ELSE unfiled
    /\ UNCHANGED <<journal, invites, approvals, machine_vars, crashes>>

\* With --json no QR code is drawn.
Shown(form) == "text" \in form.sinks \/ ("qr" \in form.sinks /\ ~form.json)

\* The string or the QR code reaches the screen, unless nothing is to be shown or
\* remember_user_if_explicit fails first.
PrintInvite(p) ==
    /\ op[p].at = "print"
    /\ \/ Shown(op[p].form) /\ invites' = invites \cup {encode_invite(p)}
       \/ UNCHANGED invites
    /\ op' = [op EXCEPT ![p] = NoOp]
    /\ UNCHANGED <<vault, ratchet, journal, history, approvals, machine_vars, crashes, unfiled>>

\* recover_join_commit: the journal is read before the locks are taken.
ReadJournal(p) ==
    /\ op[p].at = "idle"
    /\ join_commit_present
    /\ op' = [op EXCEPT ![p].at = "recover", ![p].next = journal]
    /\ UNCHANGED <<vault, ratchet, journal, history, invites, approvals, machine_vars, crashes, unfiled>>

\* Mutant: the images change places.
complete_join_commit_swapped(p) ==
    LET j == op[p].next
    IN  /\ op[p].at = "recover"
        /\ vault \in {j.expected, j.next} /\ ratchet \in {j.memory, j.ratchet}
        /\ vault' = j.ratchet
        /\ ratchet' = j.next
        /\ history' = history \cup {Seen(j.next)}
        /\ journal' = NoJournal
        /\ op' = [op EXCEPT ![p] = NoOp]
        /\ UNCHANGED <<invites, approvals, machine_vars, crashes, unfiled>>

\* Each file is as it was before the approval or as it shall be after it; anything
\* else is a conflict.
complete_join_commit(p) ==
    LET j == op[p].next
    IN  /\ op[p].at = "recover"
        /\ \/ /\ vault \in {j.expected, j.next} /\ ratchet \in {j.memory, j.ratchet}
              /\ vault' = j.next
              /\ ratchet' = j.ratchet
              /\ history' = history \cup {Seen(j.next)}
              /\ journal' = NoJournal
           \/ /\ vault \notin {j.expected, j.next} \/ ratchet \notin {j.memory, j.ratchet}
              /\ UNCHANGED <<vault, ratchet, history, journal>>
        /\ op' = [op EXCEPT ![p] = NoOp]
        /\ UNCHANGED <<invites, approvals, machine_vars, crashes, unfiled>>

\* The process dies, or a string is too long or a file cannot be written.
Crash(p) ==
    /\ op[p].at # "idle" /\ crashes < MaxCrashes
    /\ crashes' = crashes + 1
    /\ op' = [op EXCEPT ![p] = NoOp]
    /\ UNCHANGED <<vault, ratchet, journal, history, invites, approvals, machine_vars, unfiled>>

----------------------------------------------------------------------------
(* The newcomers' machines. *)

\* git, a merge resolved the wrong way, or a revert: the records of one commit, the
\* secret perhaps of another.
Deliver(m, v, w) ==
    /\ checkout' = [checkout EXCEPT ![m] = [v EXCEPT !.secret = w.secret]]
    /\ checkout' # checkout
    /\ UNCHANGED <<admin_vars, memory, identity, claim, crashes, unfiled>>

\* Any later command: the vault is loaded and what is new in it is remembered.
load(m) ==
    /\ memory[m] # NoRatchet /\ checkout[m] # NoVault
    /\ ~has_suspected_rollback(checkout[m], memory[m])
    /\ memory' = [memory EXCEPT ![m] = apply_update(@, checkout[m])]
    /\ UNCHANGED <<admin_vars, checkout, identity, claim, crashes, unfiled>>

\* The vault is read, and its root compared, before any lock is taken.
Begin(m, at, user, baseline) ==
    /\ claim[m].at = "idle"
    /\ checkout[m] # NoVault
    /\ claim' = [claim EXCEPT ![m] = [at |-> at, user |-> user, baseline |-> baseline,
                                     vault |-> checkout[m]]]
    /\ UNCHANGED <<admin_vars, checkout, memory, identity, crashes, unfiled>>

\* A claim by hand.
read_invite(m, i) == Begin(m, "claim", i.user, i.baseline)

\* Any command where the environment holds an invitation.
maybe_bootstrap_ci_trust(m, i) == Begin(m, "bootstrap", i.user, i.baseline)

\* The controller of deployment m, whose candidate was approved, has no memory yet or
\* not any more.
open_join_baseline(m, a) ==
    /\ memory[m] = NoRatchet
    /\ validate_approval_bindings(create_join_candidate(m, a.user, a.purpose), a)
    /\ Begin(m, "join", a.user, a.baseline)

seed_ratchet_from_optional_baseline(baseline) ==
    IF baseline = NoBaseline THEN Fresh ELSE baseline

\* What the claim is held against: the machine's own memory, or the issuer's.
ClaimRatchet(m) ==
    IF memory[m] # NoRatchet THEN memory[m]
    ELSE seed_ratchet_from_optional_baseline(claim[m].baseline)

\* Mutant: a rolled back vault is no reason to refuse.
Refused_unless_member(m) == claim[m].user \notin claim[m].vault.members

Refused(m) ==
    \/ has_suspected_rollback(claim[m].vault, ClaimRatchet(m))
    \/ claim[m].user \notin claim[m].vault.members

EndClaim(m) == claim' = [claim EXCEPT ![m] = NoClaim]

\* claim_invite_with_keychain under the lock: memory first, the identity afterwards.
claim_invite_with_keychain(m) ==
    /\ claim[m].at = "claim"
    /\ \/ Refused(m) /\ EndClaim(m) /\ UNCHANGED memory
       \/ /\ ~Refused(m)
          /\ memory' = [memory EXCEPT ![m] = apply_update(ClaimRatchet(m), claim[m].vault)]
          /\ claim' = [claim EXCEPT ![m].at = "store"]
    /\ UNCHANGED <<admin_vars, checkout, identity, crashes, unfiled>>

\* The passphrase may be refused, and the claim be run again.
save_identity_with_keychain(m) ==
    /\ claim[m].at = "store"
    /\ \/ identity' = [identity EXCEPT ![m] = @ \cup {claim[m].user}]
       \/ UNCHANGED identity
    /\ EndClaim(m)
    /\ UNCHANGED <<admin_vars, checkout, memory, crashes, unfiled>>

\* The controller writes its memory only where there still is none.
JoinTrust(m) ==
    /\ claim[m].at = "join"
    /\ \/ (memory[m] # NoRatchet \/ Refused(m)) /\ UNCHANGED memory
       \/ /\ memory[m] = NoRatchet /\ ~Refused(m)
          /\ memory' = [memory EXCEPT ![m] = apply_update(ClaimRatchet(m), claim[m].vault)]
    /\ EndClaim(m)
    /\ UNCHANGED <<admin_vars, checkout, identity, crashes, unfiled>>

\* CI: nothing to do where there is a memory, and no memory without a baseline.
ensure_ratchet_from_invite(m) ==
    /\ claim[m].at = "bootstrap"
    /\ \/ /\ memory[m] # NoRatchet \/ claim[m].baseline = NoBaseline \/ Refused(m)
          /\ UNCHANGED memory
       \/ /\ memory[m] = NoRatchet /\ claim[m].baseline # NoBaseline /\ ~Refused(m)
          /\ memory' = [memory EXCEPT ![m] = apply_update(ClaimRatchet(m), claim[m].vault)]
    /\ EndClaim(m)
    /\ UNCHANGED <<admin_vars, checkout, identity, crashes, unfiled>>

----------------------------------------------------------------------------
Administer(p) ==
    \/ set_secret(p)
    \/ \E u \in Users :
          \/ delete_user(p, u)
          \/ \E form \in InviteForms : prepare_invite_user(p, u, form)
    \/ \E c \in Candidates, grant \in BOOLEAN : plan_join_approval(p, c, grant)
    \/ Emit(p) \/ CommitPrepared(p) \/ PrintInvite(p)
    \/ ReadJournal(p) \/ complete_join_commit(p) \/ Crash(p)

Join(m) ==
    \/ \E v, w \in history : Deliver(m, v, w)
    \/ load(m)
    \/ \E i \in invites : read_invite(m, i) \/ maybe_bootstrap_ci_trust(m, i)
    \/ \E a \in approvals : open_join_baseline(m, a)
    \/ claim_invite_with_keychain(m) \/ save_identity_with_keychain(m)
    \/ ensure_ratchet_from_invite(m) \/ JoinTrust(m)

Next == (\E p \in Admins : Administer(p)) \/ (\E m \in Machines : Join(m))

Spec == Init /\ [][Next]_vars

----------------------------------------------------------------------------
(* Properties. *)

Operations ==
    [at : {"idle", "emit", "commit", "print", "recover"}, kind : {"invite"} \cup JoinPurposeV1,
     material : Invites \cup Approvals \cup {NoMaterial}, form : Forms, expected : Vaults \cup {NoVault}, memory : Ratchets \cup {NoRatchet},
     next : Vaults \cup Journals \cup {NoVault}]
Claims ==
    [at : {"idle", "claim", "store", "bootstrap", "join"}, user : Users \cup {NoUser},
     baseline : Ratchets \cup {NoBaseline}, vault : Ratchets \cup {NoVault}]

TypeOK ==
    /\ vault \in Vaults /\ ratchet \in Ratchets
    /\ journal \in Journals \cup {NoJournal}
    /\ op \in [Admins -> Operations]
    /\ history \subseteq Ratchets
    /\ invites \subseteq Invites /\ approvals \subseteq Approvals
    /\ checkout \in [Machines -> Ratchets \cup {NoVault}]
    /\ memory \in [Machines -> Ratchets \cup {NoRatchet}]
    /\ identity \in [Machines -> SUBSET Users]
    /\ claim \in [Machines -> Claims]
    /\ crashes \in 0..MaxCrashes
    /\ unfiled \subseteq Users

\* Whoever was invited to a file, or approved, is never a member without the file or
\* the approval: no crash, failure or refused commit of cmd_user_invite comes between.
\* (A string is shown after the commit and may be lost, and with it the only key.)
MemberHasInvite ==
    \A u \in vault.members \ unfiled : \E i \in invites \cup approvals : i.user = u

\* No commit, recovery or retry takes back what another one had committed.
NoLostWrite ==
    [][/\ vault'.secret >= vault.secret
       /\ vault.members \subseteq vault'.members \cup vault'.deleted
       /\ vault.deleted \subseteq vault'.deleted]_vars

\* m accepts the vault it read, to remember it or to store an identity for it.
Accepts(m) ==
    claim'[m] # claim[m] /\ (claim'[m].at = "store" \/ memory'[m] # memory[m])

\* A claim, a CI bootstrap and a join accept no vault that lacks anything the machine
\* remembers afterwards, whatever was loaded since the vault was read; a first memory
\* holds all that the issuer's baseline has, so the vault may not lack any of that
\* either (claim_invite_with_keychain, ensure_ratchet_from_invite).
FirstMemoryFromIssuer ==
    [][\A m \in Machines : Accepts(m) =>
          /\ ~has_suspected_rollback(claim[m].vault, memory'[m])
          /\ (memory[m] = NoRatchet /\ claim[m].baseline # NoBaseline) =>
                Covers(memory'[m], claim[m].baseline)]_vars

=============================================================================
