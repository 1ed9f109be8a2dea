---------------------------- MODULE Controller ----------------------------
(* The Kubernetes controller: the reconcilers of ThoraxVault and            *)
(* ThoraxSecret objects in one namespace, for one vault and one projection  *)
(* (thorax-kubernetes-controller), with the commands that feed them         *)
(* (thorax kubernetes approve and publish) and the rest of the cluster.     *)
(*                                                                          *)
(* Every call to the API server is a step of its own.  A replica's          *)
(* reconcilers read the ThoraxVault from the cache of a watch, which trails *)
(* the server.  A published vault is a version: the n-th state of the       *)
(* administrators' vault.  Each version extends the one before it, so the   *)
(* rollback state of an identity is the number of the newest version it     *)
(* remembers, and an older version is a rollback.                           *)
EXTENDS Naturals, Sequences, FiniteSets, FiniteSetsExt

CONSTANTS
  Replicas,      \* processes of the deployment
  Ids,           \* Thorax identities that the controller can generate
  NoId,          \* no identity
  MaxVersion,    \* bound on the versions of the vault
  Starts         \* where behaviours start and how much may happen in them

(* replicas are the ones that may come to lead, several at once when there  *)
(* are several; projecting tells whether there is a ThoraxSecret.  edits    *)
(* bounds what people and other controllers do, faults the failed calls,    *)
(* crashes and lost objects.                                                *)
ASSUME ConstantsAssumption ==
  /\ NoId \notin Ids /\ NoId \notin Replicas
  /\ Ids # {} /\ IsFiniteSet(Ids) /\ IsFiniteSet(Replicas)
  /\ MaxVersion \in Nat /\ MaxVersion > 1
  /\ Starts \subseteq [at : {"fresh", "enrolled"}, replicas : SUBSET Replicas,
                       projecting : BOOLEAN, edits : Nat, faults : Nat]

VARIABLES
  vaults,    \* the versions of the vault, the administrators hold the last
  source,    \* the ConfigMap: a version, Absent, Undecodable or Unverified
  identity,  \* the managed identity Secret
  born,      \* identities generated so far
  ratchet,   \* the rollback state Secret of each identity
  requests,  \* ThoraxJoinRequest objects
  approvals, \* ThoraxJoinApproval objects
  status,    \* status of the ThoraxVault
  output,    \* the projected Secret
  lost,      \* identities whose rollback state was ever lost (history)
  up,        \* replicas whose controllers run
  cache,     \* what each replica's watch last delivered of the status
  vr, sr,    \* reconcilers of ThoraxVault and ThoraxSecret in each replica
  edits, faults,  \* what may still happen
  deployed        \* the replicas, and whether there is a ThoraxSecret

cluster == <<vaults, source, identity, born, ratchet, requests, approvals,
             status, output, lost>>
moving == <<cluster, up, cache, vr, sr, edits, faults>>
vars == <<moving, deployed>>

Absent == 0
Undecodable == MaxVersion + 1
Unverified == MaxVersion + 2   \* decodes, and validation finds issues
Latest == Len(vaults)

NoRatchet == [kind |-> "none", mark |-> 0]
Tampered == [kind |-> "tampered", mark |-> 0]
Remembers(n) == [kind |-> "ok", mark |-> n]

NoOutput == [owner |-> "none", version |-> 0]
Foreign == [owner |-> "other", version |-> 0]
Projected(n) == [owner |-> "thorax", version |-> n]

NoRequest == [purpose |-> "none", id |-> NoId, n |-> 0]
NoStatus == [ready |-> FALSE, established |-> FALSE, identity |-> NoId,
             revision |-> 0, reason |-> "none"]

VaultIdle == [pc |-> "idle", seen |-> NoStatus, version |-> 0, id |-> NoId,
              base |-> NoRatchet, fresh |-> TRUE, request |-> NoRequest,
              next |-> NoStatus]
SecretIdle == [pc |-> "idle", version |-> 0, fresh |-> TRUE]

----------------------------------------------------------------------------
(* ThoraxVault *)

trust_was_established(s) == s.established \/ s.ready

(* A purpose is derived from the status the reconciler started from.        *)
Purpose(r) == IF trust_was_established(vr[r].seen)
              THEN "RestoreTrust" ELSE "Enroll"

(* The status a reconciler asks for.  A field that is None is not           *)
(* serialised, and a merge patch keeps what the server has.                 *)
StatusOf(r, ready, reason, version, id) ==
  [ready |-> ready,
   established |-> trust_was_established(vr[r].seen) \/ ready,
   identity |-> id, revision |-> version, reason |-> reason]

MergePatch(old, new) ==
  [new EXCEPT
     !.identity = IF new.identity = NoId THEN old.identity ELSE new.identity,
     !.revision = IF new.revision = 0 THEN old.revision ELSE new.revision]

(* A reconciler that holds the resourceVersion of an object another one     *)
(* changes has lost the race: its own write will be refused.                *)
Stale(p) ==
  IF p.pc \in {"request", "create", "approval", "revision", "verify",
               "put", "delete"}
  THEN [p EXCEPT !.fresh = FALSE] ELSE p

WriteRatchet(by, i, value, mine) ==
  /\ ratchet' = [ratchet EXCEPT ![i] = value]
  /\ vr' = [q \in Replicas |->
              CASE q = by -> mine
                [] q # by /\ vr[q].id = i /\ ratchet[i] # value -> Stale(vr[q])
                [] OTHER -> vr[q]]

VGoto(r, pc) == vr' = [vr EXCEPT ![r].pc = pc]
Reporting(r, ready, reason, version, id) ==
  [VaultIdle EXCEPT !.pc = "status", !.seen = vr[r].seen,
                    !.next = StatusOf(r, ready, reason, version, id)]
Report(r, ready, reason, version, id) ==
  vr' = [vr EXCEPT ![r] = Reporting(r, ready, reason, version, id)]

VaultStart(r) ==
  /\ r \in up /\ vr[r].pc = "idle"
  /\ vr' = [vr EXCEPT ![r].pc = "source", ![r].seen = cache[r]]
  /\ UNCHANGED <<cluster, up, cache, sr, edits, faults>>

\* Mutant: a vault that does not decode goes on to the next step.
VaultSource_undecoded(r) ==
  /\ vr[r].pc = "source"
  /\ IF source = Absent
     THEN Report(r, FALSE, "SourceUnavailable", 0, NoId)
     ELSE vr' = [vr EXCEPT ![r].pc = "identity", ![r].version = source]
  /\ UNCHANGED <<cluster, up, cache, sr, edits, faults>>

VaultSource(r) ==
  /\ vr[r].pc = "source"
  /\ CASE source = Absent -> Report(r, FALSE, "SourceUnavailable", 0, NoId)
       [] source = Undecodable ->
            Report(r, FALSE, "VaultUnverified",
                   vr[r].seen.revision, vr[r].seen.identity)
       [] OTHER -> vr' = [vr EXCEPT ![r].pc = "identity",
                                    ![r].version = source]
  /\ UNCHANGED <<cluster, up, cache, sr, edits, faults>>

(* load_or_create_identity, up to the creation of a missing identity *)
VaultIdentity(r) ==
  LET pinned == vr[r].seen.identity IN
  /\ vr[r].pc = "identity"
  /\ CASE pinned # NoId /\ identity # pinned ->
            Report(r, FALSE, "RecoveryRequired", vr[r].version, pinned)
       [] identity = NoId /\ pinned = NoId -> VGoto(r, "generate")
       [] OTHER -> vr' = [vr EXCEPT ![r].pc = "ratchet", ![r].id = identity]
  /\ UNCHANGED <<cluster, up, cache, sr, edits, faults>>

VaultGenerate(r) ==
  /\ vr[r].pc = "generate"
  /\ \/ /\ identity # NoId
        /\ Report(r, FALSE, "IdentityUnavailable", vr[r].version, NoId)
        /\ UNCHANGED <<identity, born>>
     \/ \E i \in Ids \ born :
          /\ identity = NoId
          /\ identity' = i /\ born' = born \union {i}
          /\ vr' = [vr EXCEPT ![r].pc = "ratchet", ![r].id = i]
  /\ UNCHANGED <<vaults, source, ratchet, requests, approvals, status, output,
                 lost, up, cache, sr, edits, faults>>

VaultRatchet(r) ==
  LET found == ratchet[vr[r].id] IN
  /\ vr[r].pc = "ratchet"
  /\ IF found.kind = "tampered" /\ ~trust_was_established(vr[r].seen)
     THEN Report(r, FALSE, "TrustStateTampered", vr[r].version, vr[r].id)
     ELSE vr' = [vr EXCEPT
                   ![r].pc = IF found.kind = "ok" THEN "verify" ELSE "request",
                   ![r].base = found, ![r].fresh = TRUE]
  /\ UNCHANGED <<cluster, up, cache, sr, edits, faults>>

(* ensure_join_request: the enrollment request has one name per identity;   *)
(* a restoration request has a random name and the first one found is used. *)
Candidates(r) == {q \in requests : q.purpose = Purpose(r) /\ q.id = vr[r].id}

VaultFindRequest(r) ==
  /\ vr[r].pc = "request"
  /\ \/ Candidates(r) = {} /\ VGoto(r, "create")
     \/ \E q \in Candidates(r) :
          /\ \A p \in Candidates(r) : q.n <= p.n
          /\ vr' = [vr EXCEPT ![r].pc = "approval", ![r].request = q]
  /\ UNCHANGED <<cluster, up, cache, sr, edits, faults>>

VaultCreateRequest(r) ==
  LET request == [purpose |-> Purpose(r), id |-> vr[r].id,
                  n |-> IF Purpose(r) = "Enroll" THEN 0
                        ELSE Cardinality(requests)] IN
  /\ vr[r].pc = "create"
  /\ IF request \in requests
     THEN /\ Report(r, FALSE, "ReconcileUnavailable",
                    vr[r].seen.revision, vr[r].seen.identity)
          /\ UNCHANGED requests
     ELSE /\ requests' = requests \union {request}
          /\ vr' = [vr EXCEPT ![r].pc = "approval", ![r].request = request]
  /\ UNCHANGED <<vaults, source, identity, born, ratchet, approvals, status,
                 output, lost, up, cache, sr, edits, faults>>

(* Without an approval the vault waits.  With one, the baseline it carries  *)
(* takes the place of the missing rollback state; when that state is there  *)
(* and fails authentication, its revision is read for the later replace.    *)
VaultApproval(r) ==
  LET given == {a \in approvals : a.request = vr[r].request} IN
  /\ vr[r].pc = "approval"
  /\ \/ /\ given = {}
        /\ Report(r, FALSE,
                  IF Purpose(r) = "Enroll" THEN "PendingApproval"
                  ELSE IF vr[r].base = Tampered THEN "TrustStateTampered"
                  ELSE "RecoveryRequired",
                  vr[r].version, vr[r].id)
     \/ \E a \in given :
          vr' = [vr EXCEPT ![r].pc = IF vr[r].base = Tampered
                                     THEN "revision" ELSE "verify",
                           ![r].base.mark = a.base]
  /\ UNCHANGED <<cluster, up, cache, sr, edits, faults>>

VaultRevision(r) ==
  /\ vr[r].pc = "revision"
  /\ vr' = [vr EXCEPT
              ![r].pc = "verify", ![r].fresh = TRUE,
              ![r].base.kind = IF ratchet[vr[r].id] = NoRatchet
                               THEN "none" ELSE "tampered"]
  /\ UNCHANGED <<cluster, up, cache, sr, edits, faults>>

(* What a verified version must show before it is remembered. *)
Member(i, n) == n \in 1..Latest /\ i \in vaults[n].members

Refusal(r) ==
  IF vr[r].version = Unverified THEN "VaultUnverified"
  ELSE IF vr[r].version < vr[r].base.mark THEN "RollbackSuspected"
  ELSE IF Member(vr[r].id, vr[r].version) THEN "none"
  ELSE IF vr[r].request = NoRequest THEN "IdentityRevoked"
  ELSE IF Purpose(r) = "Enroll" THEN "PendingVaultPublication"
  ELSE "EnrollmentMismatch"

\* Mutant: a state that was found is replaced whatever its revision.
Expected_blind(r) ==
  vr[r].base.kind = "none" => ratchet[vr[r].id] = NoRatchet

(* The rollback state is created when none was found and there is still     *)
(* none, and replaced when it still has the expected revision.              *)
Expected(r) ==
  IF vr[r].base.kind = "none" THEN ratchet[vr[r].id] = NoRatchet
  ELSE vr[r].fresh

compare_and_swap(r, value, mine) ==
  IF Expected(r)
  THEN WriteRatchet(r, vr[r].id, value, mine)
  ELSE /\ Report(r, FALSE, "TrustStateUnavailable", vr[r].version, vr[r].id)
       /\ UNCHANGED ratchet

(* finish_verified_vault, and the end of an enrollment or a restoration:    *)
(* validate against the remembered state or the baseline, then remember.    *)
VaultVerify(r) ==
  LET restored == vr[r].request.purpose = "RestoreTrust" IN
  /\ vr[r].pc = "verify"
  /\ IF Refusal(r) # "none"
     THEN /\ Report(r, FALSE, Refusal(r), vr[r].version, vr[r].id)
          /\ UNCHANGED ratchet
     ELSE compare_and_swap(r, Remembers(vr[r].version),
            IF restored THEN [vr[r] EXCEPT !.pc = "consume"]
            ELSE Reporting(r, TRUE, "Verified", vr[r].version, vr[r].id))
  /\ UNCHANGED <<vaults, source, identity, born, requests, approvals, status,
                 output, lost, up, cache, sr, edits, faults>>

(* A restoration deletes its approval, then its request. *)
VaultConsumeApproval(r) ==
  LET given == {a \in approvals : a.request = vr[r].request} IN
  /\ vr[r].pc = "consume"
  /\ IF given = {}
     THEN Report(r, FALSE, "ReconcileUnavailable",
                 vr[r].seen.revision, vr[r].seen.identity)
     ELSE VGoto(r, "consumed")
  /\ approvals' = approvals \ given
  /\ UNCHANGED <<vaults, source, identity, born, ratchet, requests, status,
                 output, lost, up, cache, sr, edits, faults>>

VaultConsumeRequest(r) ==
  /\ vr[r].pc = "consumed"
  /\ IF vr[r].request \notin requests
     THEN Report(r, FALSE, "ReconcileUnavailable",
                 vr[r].seen.revision, vr[r].seen.identity)
     ELSE Report(r, TRUE, "Verified", vr[r].version, vr[r].id)
  /\ requests' = requests \ {vr[r].request}
  /\ UNCHANGED <<vaults, source, identity, born, ratchet, approvals, status,
                 output, lost, up, cache, sr, edits, faults>>

(* set_vault_status: a status equal to the one the reconciler started from  *)
(* is not written; the patch carries no resourceVersion.                    *)
VaultStatus(r) ==
  LET next == vr[r].next IN
  /\ vr[r].pc = "status"
  /\ status' = IF next = vr[r].seen THEN status ELSE MergePatch(status, next)
  /\ vr' = [vr EXCEPT ![r] = VaultIdle]
  /\ UNCHANGED <<vaults, source, identity, born, ratchet, requests, approvals,
                 output, lost, up, cache, sr, edits, faults>>

(* A call fails: reconcile_vault reports it over the fields it started      *)
(* from; when the report itself fails, the object is queued again.          *)
VaultCallFails(r) ==
  /\ faults > 0 /\ faults' = faults - 1
  /\ CASE vr[r].pc = "status" -> vr' = [vr EXCEPT ![r] = VaultIdle]
       [] vr[r].pc = "ratchet" ->
            Report(r, FALSE, "TrustStateUnavailable", vr[r].version, vr[r].id)
       [] vr[r].pc \in {"revision", "verify"} ->
            Report(r, FALSE, "TrustStateUnavailable",
                   vr[r].seen.revision, vr[r].seen.identity)
       [] vr[r].pc \notin {"idle", "status", "ratchet", "revision", "verify"} ->
            Report(r, FALSE, "ReconcileUnavailable",
                   vr[r].seen.revision, vr[r].seen.identity)
       [] OTHER -> FALSE
  /\ UNCHANGED <<cluster, up, cache, sr, edits>>

(* The rollback state is stored, but its answer does not arrive, or then    *)
(* replacement_is_outstanding fails in finish_verified_vault.               *)
VaultAnswerLost(r) ==
  /\ faults > 0 /\ faults' = faults - 1
  /\ vr[r].pc = "verify" /\ Refusal(r) = "none" /\ Expected(r)
  /\ \E reason \in {"TrustStateUnavailable", "ReconcileUnavailable"} :
       /\ reason = "ReconcileUnavailable" => vr[r].request = NoRequest
       /\ WriteRatchet(r, vr[r].id, Remembers(vr[r].version),
            Reporting(r, FALSE, reason,
                      vr[r].seen.revision, vr[r].seen.identity))
  /\ UNCHANGED <<vaults, source, identity, born, requests, approvals, status,
                 output, lost, up, cache, sr, edits>>

----------------------------------------------------------------------------
(* ThoraxSecret, with both of its policies at their default, Delete *)

WriteOutput(by, value, mine) ==
  /\ output' = value
  /\ sr' = [q \in Replicas |->
              CASE q = by -> mine
                [] q # by /\ output # value -> Stale(sr[q])
                [] OTHER -> sr[q]]

SGoto(r, pc) == sr' = [sr EXCEPT ![r].pc = pc]

\* Mutant: a vault that is not Ready only postpones the projection.
SecretStart_waits(r) ==
  /\ deployed.projecting /\ r \in up /\ sr[r].pc = "idle"
  /\ IF status.ready THEN SGoto(r, "load") ELSE UNCHANGED sr
  /\ UNCHANGED <<cluster, up, cache, vr, edits, faults>>

(* The vault is read from the server, not from a cache. *)
SecretStart(r) ==
  /\ deployed.projecting /\ r \in up /\ sr[r].pc = "idle"
  /\ SGoto(r, IF status.ready THEN "load" ELSE "withdraw")
  /\ UNCHANGED <<cluster, up, cache, vr, edits, faults>>

(* load_ready_vault reads the source first and the rollback state last. *)
SecretSource(r) ==
  /\ sr[r].pc = "load"
  /\ IF source \in {Absent, Undecodable} THEN SGoto(r, "withdraw")
     ELSE sr' = [sr EXCEPT ![r].pc = "derive", ![r].version = source]
  /\ UNCHANGED <<cluster, up, cache, vr, edits, faults>>

(* RuntimeVault::load and project_data: the source must be readable for the *)
(* identity and not below what its rollback state remembers of the secret.  *)
Projectable(n, i) ==
  /\ i # NoId
  /\ ratchet[i].kind = "ok"
  /\ Member(i, n)
  /\ vaults[n].mark >= vaults[ratchet[i].mark].mark
  /\ ~vaults[n].gone

SecretDerive(r) ==
  /\ sr[r].pc = "derive"
  /\ SGoto(r, IF Projectable(sr[r].version, identity)
              THEN "write" ELSE "withdraw")
  /\ UNCHANGED <<cluster, up, cache, vr, edits, faults>>

(* write_projection: the metadata tells the owner and the resourceVersion.  *)
(* An absent Secret is created, which fails if there is one by then.        *)
SecretMetadata(r) ==
  /\ sr[r].pc = "write"
  /\ sr' = [sr EXCEPT ![r] =
              IF output = Foreign THEN SecretIdle
              ELSE [@ EXCEPT !.pc = IF output = NoOutput THEN "post" ELSE "put",
                             !.fresh = TRUE]]
  /\ UNCHANGED <<cluster, up, cache, vr, edits, faults>>

SecretPut(r) ==
  /\ sr[r].pc \in {"post", "put"}
  /\ IF IF sr[r].pc = "post" THEN output = NoOutput ELSE sr[r].fresh
     THEN WriteOutput(r, Projected(sr[r].version), SecretIdle)
     ELSE /\ sr' = [sr EXCEPT ![r] = [SecretIdle EXCEPT !.pc = "withdraw"]]
          /\ UNCHANGED output
  /\ UNCHANGED <<vaults, source, identity, born, ratchet, requests, approvals,
                 status, lost, up, cache, vr, edits, faults>>

(* fail_projection and delete_owned_projection *)
SecretWithdraw(r) ==
  /\ sr[r].pc = "withdraw"
  /\ sr' = [sr EXCEPT ![r] =
              IF output.owner = "thorax"
              THEN [SecretIdle EXCEPT !.pc = "delete"] ELSE SecretIdle]
  /\ UNCHANGED <<cluster, up, cache, vr, edits, faults>>

(* reconcile_secret tries the withdrawal once more when it fails inside     *)
(* reconcile_secret_inner, and otherwise queues the object again.           *)
WithdrawalFails(r) ==
  \E pc \in {"withdraw", "idle"} :
    sr' = [sr EXCEPT ![r] = [SecretIdle EXCEPT !.pc = pc]]

\* Mutant: the deletion has no preconditions.
SecretDelete_blind(r) ==
  /\ sr[r].pc = "delete"
  /\ WriteOutput(r, NoOutput, SecretIdle)
  /\ UNCHANGED <<vaults, source, identity, born, ratchet, requests, approvals,
                 status, lost, up, cache, vr, edits, faults>>

SecretDelete(r) ==
  /\ sr[r].pc = "delete"
  /\ IF sr[r].fresh THEN WriteOutput(r, NoOutput, SecretIdle)
     ELSE WithdrawalFails(r) /\ UNCHANGED output
  /\ UNCHANGED <<vaults, source, identity, born, ratchet, requests, approvals,
                 status, lost, up, cache, vr, edits, faults>>

SecretCallFails(r) ==
  /\ faults > 0 /\ faults' = faults - 1
  /\ sr[r].pc # "idle"
  /\ IF sr[r].pc \in {"withdraw", "delete"} THEN WithdrawalFails(r)
     ELSE sr' = [sr EXCEPT ![r] = [SecretIdle EXCEPT !.pc = "withdraw"]]
  /\ UNCHANGED <<cluster, up, cache, vr, edits>>

----------------------------------------------------------------------------
(* Administrators, producers of the source, and the rest of the cluster *)

Edit == edits > 0 /\ edits' = edits - 1 /\ UNCHANGED faults
Fault == faults > 0 /\ faults' = faults - 1 /\ UNCHANGED edits

Append1(version) ==
  /\ Latest < MaxVersion
  /\ vaults' = Append(vaults, version)

(* Somebody rotates the projected secret, deletes it or changes something   *)
(* else, or revokes an identity.                                            *)
EditVault ==
  LET now == vaults[Latest] IN
  /\ Edit
  /\ \/ Append1([now EXCEPT !.mark = @ + 1, !.gone = FALSE])
     \/ ~now.gone /\ Append1([now EXCEPT !.mark = @ + 1, !.gone = TRUE])
     \/ \E i \in now.members : Append1([now EXCEPT !.members = @ \ {i}])
  /\ UNCHANGED <<source, identity, born, ratchet, requests, approvals, status,
                 output, lost, up, cache, vr, sr>>

(* thorax kubernetes publish puts the latest version into the ConfigMap;    *)
(* other producers may delay, replay, corrupt or remove it.                 *)
Publish ==
  /\ Edit
  /\ source' \in ((1..Latest) \union {Absent, Undecodable, Unverified})
                \ {source}
  /\ UNCHANGED <<vaults, identity, born, ratchet, requests, approvals, status,
                 output, lost, up, cache, vr, sr>>

(* The name set_vault_status puts into the status, from which the command   *)
(* takes the request to approve.                                            *)
join_request_name ==
  [purpose |-> "Enroll", id |-> status.identity, n |-> 0]

(* thorax kubernetes approve, first half: sign and create the approval. The *)
(* baseline is what the administrator's machine remembers.                  *)
Approve ==
  /\ Edit
  /\ join_request_name \in requests
  /\ ~ \E a \in approvals : a.request = join_request_name
  /\ status.identity \notin vaults[Latest].members
  /\ approvals' = approvals \union
                    {[request |-> join_request_name, base |-> Latest]}
  /\ UNCHANGED <<vaults, source, identity, born, ratchet, requests, status,
                 output, lost, up, cache, vr, sr>>

(* Second half: commit membership, grants and recipient slots.  A command   *)
(* that died between the halves is run again and finds its approval.        *)
CommitApproval ==
  \E a \in approvals :
    LET now == vaults[Latest] IN
    /\ Edit
    /\ a.request.purpose = "Enroll" /\ a.request \in requests
    /\ a.request.id \notin now.members
    /\ Append1([now EXCEPT !.members = @ \union {a.request.id},
                           !.mark = @ + 1])
    /\ UNCHANGED <<source, identity, born, ratchet, requests, approvals,
                   status, output, lost, up, cache, vr, sr>>

(* An approver creates the approval of a restoration with other means than  *)
(* the command, which never resolves to such a request.                     *)
ApproveRestoration ==
  \E q \in requests :
    /\ Edit
    /\ q.purpose = "RestoreTrust" /\ q.id \in vaults[Latest].members
    /\ ~ \E a \in approvals : a.request = q
    /\ approvals' = approvals \union {[request |-> q, base |-> Latest]}
    /\ UNCHANGED <<vaults, source, identity, born, ratchet, requests, status,
                   output, lost, up, cache, vr, sr>>

(* The destination is deleted, or appears under another owner. *)
OthersWriteOutput ==
  /\ Edit
  /\ WriteOutput(NoId, IF output = NoOutput THEN Foreign ELSE NoOutput,
                 SecretIdle)
  /\ UNCHANGED <<vaults, source, identity, born, ratchet, requests, approvals,
                 status, lost, up, cache, vr>>

LoseRatchet ==
  \E i \in Ids, left \in {NoRatchet, Tampered} :
    /\ Fault
    /\ ratchet[i].kind = "ok"
    /\ WriteRatchet(NoId, i, left, VaultIdle)
    /\ lost' = lost \union {i}
    /\ UNCHANGED <<vaults, source, identity, born, requests, approvals,
                   status, output, up, cache, sr>>

LoseIdentity ==
  /\ Fault
  /\ identity # NoId
  /\ identity' = NoId
  /\ UNCHANGED <<vaults, source, born, ratchet, requests, approvals, status,
                 output, lost, up, cache, vr, sr>>

Watch(r) ==
  /\ r \in up
  /\ cache[r] # status
  /\ cache' = [cache EXCEPT ![r] = status]
  /\ UNCHANGED <<cluster, up, vr, sr, edits, faults>>

(* A replica gets the Lease and starts its controllers with a fresh list;   *)
(* the one that had it may not have noticed yet.                            *)
Lead(r) ==
  /\ r \in deployed.replicas \ up
  /\ up' = up \union {r}
  /\ cache' = [cache EXCEPT ![r] = status]
  /\ UNCHANGED <<cluster, vr, sr, edits, faults>>

(* It crashes, or loses the Lease: the futures of its controllers are       *)
(* dropped wherever they are.                                               *)
Stop(r) ==
  /\ Fault
  /\ r \in up
  /\ up' = up \ {r}
  /\ cache' = [cache EXCEPT ![r] = NoStatus]
  /\ vr' = [vr EXCEPT ![r] = VaultIdle]
  /\ sr' = [sr EXCEPT ![r] = SecretIdle]
  /\ UNCHANGED cluster

----------------------------------------------------------------------------
first == CHOOSE i \in Ids : TRUE
enrollment == [purpose |-> "Enroll", id |-> first, n |-> 0]

InitFresh ==
  /\ vaults = <<[members |-> {}, mark |-> 1, gone |-> FALSE]>>
  /\ source = 1
  /\ identity = NoId /\ born = {}
  /\ ratchet = [i \in Ids |-> NoRatchet]
  /\ requests = {} /\ approvals = {}
  /\ status = NoStatus
  /\ output = NoOutput

(* The state a finished enrollment leaves behind. *)
InitEnrolled ==
  /\ vaults = <<[members |-> {}, mark |-> 1, gone |-> FALSE],
                [members |-> {first}, mark |-> 2, gone |-> FALSE]>>
  /\ source = 2
  /\ identity = first /\ born = {first}
  /\ ratchet = [i \in Ids |-> IF i = first THEN Remembers(2) ELSE NoRatchet]
  /\ requests = {enrollment}
  /\ approvals = {[request |-> enrollment, base |-> 1]}
  /\ status = [ready |-> TRUE, established |-> TRUE, identity |-> first,
               revision |-> 2, reason |-> "Verified"]
  /\ output = NoOutput

Init ==
  /\ \E start \in Starts :
       /\ IF start.at = "fresh" THEN InitFresh ELSE InitEnrolled
       /\ edits = start.edits /\ faults = start.faults
       /\ deployed = [replicas |-> start.replicas, projecting |-> start.projecting]
  /\ lost = {} /\ up = {} /\ cache = [r \in Replicas |-> NoStatus]
  /\ vr = [r \in Replicas |-> VaultIdle]
  /\ sr = [r \in Replicas |-> SecretIdle]

VaultStep(r) ==
  \/ VaultSource(r) \/ VaultIdentity(r) \/ VaultGenerate(r) \/ VaultRatchet(r)
  \/ VaultFindRequest(r) \/ VaultCreateRequest(r) \/ VaultApproval(r)
  \/ VaultRevision(r) \/ VaultVerify(r) \/ VaultConsumeApproval(r)
  \/ VaultConsumeRequest(r) \/ VaultStatus(r)

SecretStep(r) ==
  \/ SecretSource(r) \/ SecretDerive(r) \/ SecretMetadata(r) \/ SecretPut(r)
  \/ SecretWithdraw(r) \/ SecretDelete(r)

Replica(r) ==
  \/ VaultStart(r) \/ VaultStep(r) \/ VaultCallFails(r) \/ VaultAnswerLost(r)
  \/ SecretStart(r) \/ SecretStep(r) \/ SecretCallFails(r)
  \/ Watch(r) \/ Lead(r) \/ Stop(r)

Environment ==
  \/ EditVault \/ Publish \/ Approve \/ CommitApproval \/ ApproveRestoration
  \/ OthersWriteOutput \/ LoseRatchet \/ LoseIdentity

Next ==
  /\ (\E r \in Replicas : Replica(r)) \/ Environment
  /\ UNCHANGED deployed

Spec == Init /\ [][Next]_vars

(* Reconcilers run on, watches deliver, objects are queued again after at   *)
(* most five minutes and somebody leads.                                    *)
Fairness ==
  \A r \in Replicas :
    /\ WF_moving(VaultStart(r)) /\ WF_moving(VaultStep(r))
    /\ WF_moving(SecretStart(r)) /\ WF_moving(SecretStep(r))
    /\ WF_moving(Watch(r)) /\ WF_moving(Lead(r))

FairSpec == Spec /\ Fairness

----------------------------------------------------------------------------
Versions == (0..MaxVersion) \union {Unverified}
Reasons == {"none", "SourceUnavailable", "VaultUnverified", "RecoveryRequired",
            "IdentityUnavailable", "TrustStateTampered", "PendingApproval",
            "ReconcileUnavailable", "TrustStateUnavailable", "Verified",
            "RollbackSuspected", "IdentityRevoked", "PendingVaultPublication",
            "EnrollmentMismatch"}
Statuses == [ready : BOOLEAN, established : BOOLEAN,
             identity : Ids \union {NoId}, revision : Versions,
             reason : Reasons]
Requests == [purpose : {"Enroll", "RestoreTrust"}, id : Ids, n : Nat]
RatchetObjects == [kind : {"none", "ok", "tampered"}, mark : Versions]
Contents == [members : SUBSET Ids, mark : Nat, gone : BOOLEAN]
VaultProcs ==
  [pc : {"idle", "source", "identity", "generate", "ratchet", "request",
         "create", "approval", "revision", "verify", "consume", "consumed",
         "status"},
   seen : Statuses, version : Versions, id : Ids \union {NoId},
   base : RatchetObjects, fresh : BOOLEAN,
   request : Requests \union {NoRequest},
   next : Statuses]
SecretProcs ==
  [pc : {"idle", "load", "derive", "write", "post", "put", "withdraw", "delete"},
   version : Versions, fresh : BOOLEAN]

Objects ==
  /\ vaults \in Seq(Contents) /\ Latest \in 1..MaxVersion
  /\ source \in 0..Unverified
  /\ identity \in Ids \union {NoId} /\ born \subseteq Ids
  /\ ratchet \in [Ids -> RatchetObjects]
  /\ requests \subseteq Requests /\ IsFiniteSet(requests)
  /\ approvals \subseteq [request : Requests, base : Versions]
  /\ status \in Statuses
  /\ output \in [owner : {"none", "thorax", "other"}, version : Versions]
  /\ lost \subseteq Ids /\ up \subseteq Replicas
  /\ cache \in [Replicas -> Statuses]
  /\ vr \in [Replicas -> VaultProcs]
  /\ \A r \in Replicas :
       vr[r].pc \in {"ratchet", "request", "create", "approval", "revision",
                     "verify", "consume", "consumed"} => vr[r].id \in Ids
  /\ sr \in [Replicas -> SecretProcs]
  /\ edits \in Nat /\ faults \in Nat

(* Types of the objects and of what the reconcilers hold.  A reconciler     *)
(* past its identity step works for an identity that exists.                *)
TypeOK ==
  /\ Objects
  /\ deployed \in [replicas : SUBSET Replicas, projecting : BOOLEAN]

(* compare_and_swap never lowers an intact rollback state, however the      *)
(* reconcilers of several replicas interleave.  The exception is a          *)
(* restoration that found the state tampered with (controller.rs:430-444):  *)
(* it reads the revision to replace after that, and so replaces what        *)
(* another replica has repaired in the meantime.                            *)
Repairs(i) ==
  \E r \in Replicas :
    vr[r].pc = "verify" /\ vr[r].id = i /\ vr[r].base.kind = "tampered"

RatchetMonotone ==
  [][\A i \in Ids :
       ratchet[i].kind = "ok" /\ ratchet'[i].kind = "ok" /\ ~Repairs(i)
         => ratchet'[i].mark >= ratchet[i].mark]_vars

(* Ready is reported only of a revision that the rollback state of the      *)
(* identity named beside it already remembers, unless the state was lost.   *)
ReadyIsRemembered ==
  status.ready /\ status.identity \notin lost
    => ratchet[status.identity].mark >= status.revision

(* A Secret of another owner is never replaced or deleted by a reconciler,  *)
(* also when it appears between the metadata read and the write.            *)
ForeignUntouched ==
  [][output = Foreign /\ output' # Foreign
       => \A r \in Replicas : sr'[r].pc = sr[r].pc]_vars

(* When people and faults come to rest, the Secret of a ThoraxSecret shows  *)
(* the published version exactly when that version can be verified and      *)
(* read, and is withdrawn otherwise.                                        *)
Settled ==
  LET good == /\ source \in 1..Latest
              /\ identity = status.identity
              /\ Projectable(source, identity)
              /\ source >= ratchet[identity].mark
  IN  IF good
      THEN \/ output = Foreign
           \/ /\ output.owner = "thorax"
              /\ vaults[output.version].mark = vaults[source].mark
      ELSE output.owner # "thorax"
Settles == <>[](deployed.projecting => Settled)
=============================================================================
