------------------------- MODULE ControllerProofs -------------------------
(* Theorems about Controller: types, what compare_and_swap guarantees for   *)
(* any number of replicas, what a Ready status promises, and that a Secret  *)
(* of another owner is left alone.                                          *)
EXTENDS Controller, FiniteSetTheorems, TLAPS

(* A reconciler that has loaded a rollback state and not yet replaced it.   *)
Loaded == {"request", "create", "approval", "revision", "verify"}

(* What the rollback state of an identity must have for Ready to be true of *)
(* revision n.                                                              *)
Held(i, n) ==
  /\ i \in Ids
  /\ i \notin lost => ratchet[i].kind = "ok" /\ ratchet[i].mark >= n

(* What a reconciler p may rely on.  An intact state that it has loaded is  *)
(* still there, or its replace will be refused; only a lost state is found  *)
(* tampered with; what it reports as Ready, or is about to, is remembered.  *)
BaseCurrent(p) ==
  /\ p.pc \in Loaded \ {"verify"} => p.base.kind # "ok"
  /\ p.pc = "verify" /\ p.base.kind = "ok" /\ p.fresh => ratchet[p.id] = p.base

TamperedIsLost(p) ==
  p.pc \in Loaded /\ (p.base.kind = "tampered" \/ p.pc = "revision")
    => p.id \in lost

ReadyHeld(p) ==
  /\ p.pc = "status" /\ p.next.ready
       => Held(p.next.identity, p.next.revision) /\ p.next.revision # 0
  /\ p.pc \in {"consume", "consumed"} => Held(p.id, p.version) /\ p.version # 0

Good(p) == BaseCurrent(p) /\ TamperedIsLost(p) /\ ReadyHeld(p)

(* A write of the projection that can still succeed meets no foreign owner. *)
WriteIsOwn ==
  \A r \in Replicas :
    sr[r].pc \in {"put", "delete"} /\ sr[r].fresh => output # Foreign

Inductive ==
  /\ Objects
  /\ \A r \in Replicas : Good(vr[r])
  /\ \A i \in Ids : ratchet[i].kind = "tampered" => i \in lost
  /\ status.ready => Held(status.identity, status.revision)
  /\ WriteIsOwn

----------------------------------------------------------------------------
(* Types *)

Working(p) ==
  p.pc \in {"ratchet", "request", "create", "approval", "revision", "verify",
            "consume", "consumed"} => p.id \in Ids

(* The initial record of a reconciler, and what the fields of a running one *)
(* hold.                                                                    *)
LEMMA IdleType ==
  /\ NoStatus \in Statuses
  /\ VaultIdle \in VaultProcs /\ Working(VaultIdle)
  /\ SecretIdle \in SecretProcs
BY ConstantsAssumption DEF VaultIdle, SecretIdle, VaultProcs, SecretProcs,
   NoStatus, Statuses, Reasons, NoRatchet, RatchetObjects, NoRequest, Requests,
   Versions, Working

LEMMA FieldTypes ==
  ASSUME Objects, NEW r \in Replicas
  PROVE  /\ vr[r] \in VaultProcs
         /\ vr[r].seen \in Statuses /\ vr[r].next \in Statuses
         /\ vr[r].version \in Versions /\ vr[r].id \in Ids \union {NoId}
         /\ vr[r].base \in RatchetObjects /\ vr[r].fresh \in BOOLEAN
         /\ vr[r].request \in Requests \union {NoRequest}
         /\ vr[r].seen.revision \in Versions
         /\ vr[r].seen.identity \in Ids \union {NoId}
         /\ sr[r] \in SecretProcs /\ sr[r].version \in Versions
         /\ sr[r].fresh \in BOOLEAN
         /\ cache[r] \in Statuses
         /\ Working(vr[r])
<1>1. vr[r] \in VaultProcs /\ sr[r] \in SecretProcs /\ cache[r] \in Statuses
  BY DEF Objects
<1>2. vr[r].seen \in Statuses
  BY <1>1 DEF VaultProcs
<1> QED
  BY <1>1, <1>2 DEF VaultProcs, SecretProcs, Statuses, Working, Objects

(* Every status a reconciler asks for is one.                               *)
LEMMA ReportType ==
  ASSUME Objects, NEW r \in Replicas, NEW ready \in BOOLEAN,
         NEW reason \in Reasons, NEW n \in Versions,
         NEW i \in Ids \union {NoId}
  PROVE  /\ Reporting(r, ready, reason, n, i) \in VaultProcs
         /\ Reporting(r, ready, reason, n, i).pc = "status"
         /\ Reporting(r, ready, reason, n, i).next.ready = ready
         /\ Reporting(r, ready, reason, n, i).next.identity = i
         /\ Reporting(r, ready, reason, n, i).next.revision = n
         /\ Working(Reporting(r, ready, reason, n, i))
<1>2. vr[r].seen \in Statuses
  BY FieldTypes
<1>3. StatusOf(r, ready, reason, n, i) \in Statuses
  BY <1>2 DEF StatusOf, Statuses, trust_was_established
<1>4. /\ Reporting(r, ready, reason, n, i) \in VaultProcs
      /\ Reporting(r, ready, reason, n, i).pc = "status"
      /\ Reporting(r, ready, reason, n, i).next = StatusOf(r, ready, reason, n, i)
  BY <1>2, <1>3, IdleType DEF Reporting, VaultProcs, VaultIdle
<1> QED
  BY <1>4 DEF StatusOf, Working

(* A revision that goes stale changes nothing else in a reconciler.         *)
LEMMA StaleVault ==
  ASSUME NEW p \in VaultProcs
  PROVE  /\ Stale(p) \in VaultProcs
         /\ Stale(p).pc = p.pc /\ Stale(p).id = p.id /\ Stale(p).base = p.base
         /\ Stale(p).version = p.version /\ Stale(p).next = p.next
         /\ p.pc \in Loaded => ~Stale(p).fresh
<1> DEFINE q == [p EXCEPT !.fresh = FALSE]
<1>1. /\ q \in VaultProcs /\ q.pc = p.pc /\ q.id = p.id /\ q.base = p.base
      /\ q.version = p.version /\ q.next = p.next /\ q.fresh = FALSE
  BY DEF VaultProcs
<1>2. Stale(p) = p \/ Stale(p) = q
  BY DEF Stale
<1>3. p.pc \in Loaded => Stale(p) = q
  BY DEF Stale, Loaded
<1> QED
  BY <1>1, <1>2, <1>3

LEMMA StaleSecret ==
  ASSUME NEW p \in SecretProcs
  PROVE  /\ Stale(p) \in SecretProcs
         /\ Stale(p).pc = p.pc
         /\ p.pc \in {"put", "delete"} => ~Stale(p).fresh
<1> DEFINE q == [p EXCEPT !.fresh = FALSE]
<1>1. q \in SecretProcs /\ q.pc = p.pc /\ q.fresh = FALSE
  BY DEF SecretProcs
<1>2. Stale(p) = p \/ Stale(p) = q
  BY DEF Stale
<1>3. p.pc \in {"put", "delete"} => Stale(p) = q
  BY DEF Stale
<1> QED
  BY <1>1, <1>2, <1>3

(* A reconciler may change only its own record, apart from what goes stale. *)
LEMMA WriteRatchetType ==
  ASSUME Objects, NEW by, NEW STATE i, i \in Ids,
         NEW STATE value, value \in RatchetObjects,
         NEW STATE mine, mine \in VaultProcs, Working(mine),
         WriteRatchet(by, i, value, mine)
  PROVE  /\ ratchet' = [ratchet EXCEPT ![i] = value]
         /\ ratchet' \in [Ids -> RatchetObjects]
         /\ vr' \in [Replicas -> VaultProcs]
         /\ \A q \in Replicas : Working(vr'[q])
<1>1. ratchet' = [ratchet EXCEPT ![i] = value]
  BY DEF WriteRatchet
<1>2. ratchet' \in [Ids -> RatchetObjects]
  BY <1>1 DEF Objects
<1>3. ASSUME NEW q \in Replicas
      PROVE  vr'[q] \in {mine, vr[q], Stale(vr[q])}
  BY DEF WriteRatchet
<1>4. ASSUME NEW q \in Replicas
      PROVE  vr'[q] \in VaultProcs /\ Working(vr'[q])
  <2>1. vr[q] \in VaultProcs /\ Working(vr[q])
    BY FieldTypes
  <2>2. Stale(vr[q]) \in VaultProcs /\ Working(Stale(vr[q]))
    BY <2>1, StaleVault DEF Working
  <2> QED
    BY <1>3, <2>1, <2>2
<1>5. vr' = [q \in Replicas |-> vr'[q]]
  BY DEF WriteRatchet
<1> QED
  BY <1>1, <1>2, <1>4, <1>5

(* A step of a reconciler that writes nothing: its new record is enough.    *)
LEMMA OwnRecord ==
  ASSUME Objects, NEW r \in Replicas, NEW STATE p, p \in VaultProcs,
         Working(p), vr' = [vr EXCEPT ![r] = p]
  PROVE  /\ vr' \in [Replicas -> VaultProcs]
         /\ \A q \in Replicas : Working(vr'[q])
<1>1. \A q \in Replicas : vr'[q] = IF q = r THEN p ELSE vr[q]
  BY DEF Objects
<1>2. \A q \in Replicas : Working(vr[q])
  BY FieldTypes
<1> QED
  BY <1>1, <1>2 DEF Objects

(* The parts of Objects that no reconciler of ThoraxVault changes.          *)
LEMMA RestOfTypes ==
  ASSUME Objects, vr' \in [Replicas -> VaultProcs],
         \A q \in Replicas : Working(vr'[q]),
         UNCHANGED <<vaults, source, output, lost, up, cache, sr, edits>>,
         identity' \in Ids \union {NoId}, born' \subseteq Ids,
         ratchet' \in [Ids -> RatchetObjects],
         requests' \subseteq Requests, IsFiniteSet(requests'),
         approvals' \subseteq [request : Requests, base : Versions],
         status' \in Statuses, faults' \in Nat
  PROVE  Objects'
BY DEF Objects, Working, Latest

LEMMA BoundType == MaxVersion \in Nat /\ MaxVersion > 1
BY ConstantsAssumption

LEMMA VersionTypes ==
  /\ 0 \in Versions
  /\ Objects => /\ Latest \in Versions
                /\ source \notin {Absent, Undecodable} => source \in Versions
BY BoundType
DEF Objects, Versions, Absent, Undecodable, Unverified

LEMMA StepsWithoutWrites ==
  ASSUME Objects, NEW r \in Replicas,
         \/ VaultStart(r) \/ VaultSource(r) \/ VaultIdentity(r)
         \/ VaultRatchet(r) \/ VaultFindRequest(r) \/ VaultApproval(r)
         \/ VaultRevision(r)
  PROVE  Objects'
<1>f. /\ vr[r] \in VaultProcs
      /\ vr[r].version \in Versions /\ vr[r].id \in Ids \union {NoId}
      /\ vr[r].base \in RatchetObjects
      /\ vr[r].seen.revision \in Versions
      /\ vr[r].seen.identity \in Ids \union {NoId}
      /\ cache[r] \in Statuses
      /\ Working(vr[r])
  BY FieldTypes
<1> SUFFICES /\ vr' \in [Replicas -> VaultProcs]
             /\ \A q \in Replicas : Working(vr'[q])
  <2>1. UNCHANGED <<cluster, up, cache, sr, edits, faults>>
    BY DEF VaultStart, VaultSource, VaultIdentity, VaultRatchet,
           VaultFindRequest, VaultApproval, VaultRevision
  <2> QED
    BY <2>1, RestOfTypes DEF cluster, Objects
<1> SUFFICES \E p \in VaultProcs : Working(p) /\ vr' = [vr EXCEPT ![r] = p]
  BY OwnRecord
<1>1. CASE VaultStart(r)
  BY <1>f, <1>1 DEF VaultStart, VaultProcs, Working
<1>2. ASSUME NEW ready \in BOOLEAN, NEW STATE reason, reason \in Reasons,
             NEW STATE n, n \in Versions,
             NEW STATE i, i \in Ids \union {NoId},
             Report(r, ready, reason, n, i)
      PROVE  \E p \in VaultProcs : Working(p) /\ vr' = [vr EXCEPT ![r] = p]
  BY <1>2, ReportType DEF Report
<1>4. CASE VaultSource(r)
  <2>2. CASE /\ vr' = [vr EXCEPT ![r].pc = "identity", ![r].version = source]
             /\ source \notin {Absent, Undecodable}
    <3> DEFINE p == [vr[r] EXCEPT !.pc = "identity", !.version = source]
    <3>1. p \in VaultProcs /\ Working(p)
      BY <1>f, <2>2, VersionTypes DEF VaultProcs, Working
    <3>2. vr' = [vr EXCEPT ![r] = p]
      BY <2>2
    <3> QED
      BY <3>1, <3>2
  <2>3. CASE Report(r, FALSE, "SourceUnavailable", 0, NoId)
    BY <2>3, <1>2, VersionTypes DEF Reasons
  <2>4. CASE Report(r, FALSE, "VaultUnverified",
                    vr[r].seen.revision, vr[r].seen.identity)
    BY <1>f, <2>4, <1>2 DEF Reasons
  <2> QED
    BY <1>4, <2>2, <2>3, <2>4 DEF VaultSource
<1>5. CASE VaultIdentity(r)
  <2>1. CASE Report(r, FALSE, "RecoveryRequired", vr[r].version,
                    vr[r].seen.identity)
    BY <1>f, <2>1, <1>2 DEF Reasons
  <2>2. CASE VGoto(r, "generate")
    BY <1>f, <2>2 DEF VGoto, VaultProcs, Working
  <2>3. CASE vr' = [vr EXCEPT ![r].pc = "ratchet", ![r].id = identity]
             /\ identity # NoId
    BY <1>f, <2>3 DEF VaultProcs, Working, Objects
  <2> QED
    BY <1>5, <2>1, <2>2, <2>3 DEF VaultIdentity
<1>6. CASE VaultRatchet(r)
  <2>1. vr[r].id \in Ids /\ ratchet[vr[r].id] \in RatchetObjects
    BY <1>f, <1>6 DEF VaultRatchet, Working, Objects
  <2>2. CASE Report(r, FALSE, "TrustStateTampered", vr[r].version, vr[r].id)
    BY <1>f, <2>2, <1>2 DEF Reasons
  <2>3. CASE vr' = [vr EXCEPT
                   ![r].pc = IF ratchet[vr[r].id].kind = "ok"
                             THEN "verify" ELSE "request",
                   ![r].base = ratchet[vr[r].id], ![r].fresh = TRUE]
    <3> DEFINE p == [vr[r] EXCEPT
                       !.pc = IF ratchet[vr[r].id].kind = "ok"
                              THEN "verify" ELSE "request",
                       !.base = ratchet[vr[r].id], !.fresh = TRUE]
    <3>1. p \in VaultProcs /\ Working(p)
      BY <1>f, <2>1 DEF VaultProcs, Working
    <3>2. vr' = [vr EXCEPT ![r] = p]
      BY <2>3
    <3> QED
      BY <3>1, <3>2
  <2> QED
    BY <1>6, <2>2, <2>3 DEF VaultRatchet
<1>7. CASE VaultFindRequest(r)
  <2>1. vr[r].id \in Ids
    BY <1>f, <1>7 DEF VaultFindRequest, Working
  <2>2. CASE VGoto(r, "create")
    BY <1>f, <2>1, <2>2 DEF VGoto, VaultProcs, Working
  <2>3. ASSUME NEW q \in Candidates(r),
               vr' = [vr EXCEPT ![r].pc = "approval", ![r].request = q]
        PROVE  \E p \in VaultProcs : Working(p) /\ vr' = [vr EXCEPT ![r] = p]
    BY <1>f, <2>1, <2>3 DEF Candidates, VaultProcs, Working, Objects
  <2> QED
    BY <1>7, <2>2, <2>3 DEF VaultFindRequest
<1>8. CASE VaultApproval(r)
  <2>1. vr[r].id \in Ids
    BY <1>f, <1>8 DEF VaultApproval, Working
  <2>2. ASSUME NEW STATE reason, reason \in Reasons,
               Report(r, FALSE, reason, vr[r].version, vr[r].id)
        PROVE  \E p \in VaultProcs : Working(p) /\ vr' = [vr EXCEPT ![r] = p]
    BY <1>f, <2>2, <1>2
  <2>3. (IF Purpose(r) = "Enroll" THEN "PendingApproval"
         ELSE IF vr[r].base = Tampered THEN "TrustStateTampered"
         ELSE "RecoveryRequired") \in Reasons
    BY DEF Reasons
  <2>4. ASSUME NEW a \in approvals,
               vr' = [vr EXCEPT ![r].pc = IF vr[r].base = Tampered
                                          THEN "revision" ELSE "verify",
                                ![r].base.mark = a.base]
        PROVE  \E p \in VaultProcs : Working(p) /\ vr' = [vr EXCEPT ![r] = p]
    <3>1. a.base \in Versions
      BY DEF Objects
    <3>2. [vr[r].base EXCEPT !.mark = a.base] \in RatchetObjects
      BY <1>f, <3>1 DEF RatchetObjects
    <3> QED
      BY <1>f, <2>1, <2>4, <3>2 DEF VaultProcs, Working
  <2> QED
    BY <1>8, <2>2, <2>3, <2>4 DEF VaultApproval
<1>9. CASE VaultRevision(r)
  <2>1. vr[r].id \in Ids
    BY <1>f, <1>9 DEF VaultRevision, Working
  <2> DEFINE k == IF ratchet[vr[r].id] = NoRatchet THEN "none" ELSE "tampered"
             b == [vr[r].base EXCEPT !.kind = k]
             p == [vr[r] EXCEPT !.pc = "verify", !.fresh = TRUE, !.base = b]
  <2>2. b \in RatchetObjects
    BY <1>f DEF RatchetObjects
  <2>3. p \in VaultProcs /\ Working(p)
    BY <1>f, <2>1, <2>2 DEF VaultProcs, Working
  <2>4. vr' = [vr EXCEPT ![r] = p]
    <3> DEFINE e == [vr EXCEPT ![r].pc = "verify", ![r].fresh = TRUE,
                               ![r].base.kind = k]
    <3>1. vr' = e
      BY <1>9 DEF VaultRevision
    <3>2. e[r] = p
      BY <1>f DEF VaultProcs, Objects
    <3>3. e = [vr EXCEPT ![r] = p]
      BY <3>2
    <3> QED
      BY <3>1, <3>3
  <2> QED
    BY <2>3, <2>4
<1> QED
  BY <1>1, <1>4, <1>5, <1>6, <1>7, <1>8, <1>9

(* A report, whatever it says, leaves well-typed records behind.            *)
LEMMA ReportTyped ==
  ASSUME Objects, NEW r \in Replicas, NEW ready \in BOOLEAN,
         NEW STATE reason, reason \in Reasons,
         NEW STATE n, n \in Versions,
         NEW STATE i, i \in Ids \union {NoId},
         Report(r, ready, reason, n, i)
  PROVE  /\ vr' \in [Replicas -> VaultProcs]
         /\ \A q \in Replicas : Working(vr'[q])
BY ReportType, OwnRecord DEF Report

LEMMA RefusalType == \A r \in Replicas : Refusal(r) # "none" => Refusal(r) \in Reasons
BY DEF Refusal, Reasons

(* What a verified reconciler remembers, and the record it goes on with.    *)
LEMMA VerifiedType ==
  ASSUME Objects, NEW r \in Replicas, vr[r].pc = "verify", Refusal(r) = "none"
  PROVE  /\ vr[r].id \in Ids
         /\ vr[r].version \in 1..MaxVersion /\ vr[r].version <= Latest
         /\ vr[r].version >= vr[r].base.mark
         /\ Remembers(vr[r].version) \in RatchetObjects
<1>1. vr[r].id \in Ids /\ vr[r].version \in Versions /\ vr[r].base \in RatchetObjects
  BY FieldTypes DEF Working
<1>2. vr[r].base.mark \in Versions
  BY <1>1 DEF RatchetObjects
<1>3. /\ vr[r].version # Unverified /\ ~(vr[r].version < vr[r].base.mark)
      /\ Member(vr[r].id, vr[r].version)
  BY DEF Refusal
<1>4. vr[r].version \in 1..MaxVersion /\ vr[r].version <= Latest
  BY <1>3, ConstantsAssumption DEF Member, Objects
<1>5. vr[r].version >= vr[r].base.mark
  BY <1>1, <1>2, <1>3, ConstantsAssumption DEF Versions, Unverified
<1>6. Remembers(vr[r].version) \in RatchetObjects
  BY <1>4, ConstantsAssumption DEF Remembers, RatchetObjects, Versions
<1> QED
  BY <1>1, <1>4, <1>5, <1>6

LEMMA StepsWithWrites ==
  ASSUME Objects, NEW r \in Replicas,
         \/ VaultGenerate(r) \/ VaultCreateRequest(r) \/ VaultVerify(r)
         \/ VaultConsumeApproval(r) \/ VaultConsumeRequest(r)
         \/ VaultStatus(r) \/ VaultCallFails(r) \/ VaultAnswerLost(r)
  PROVE  Objects'
<1>f. /\ vr[r] \in VaultProcs
      /\ vr[r].version \in Versions /\ vr[r].id \in Ids \union {NoId}
      /\ vr[r].base \in RatchetObjects
      /\ vr[r].seen \in Statuses /\ vr[r].next \in Statuses
      /\ vr[r].seen.revision \in Versions
      /\ vr[r].seen.identity \in Ids \union {NoId}
      /\ Working(vr[r])
  BY FieldTypes
<1>1. CASE VaultGenerate(r)
  <2>1. CASE Report(r, FALSE, "IdentityUnavailable", vr[r].version, NoId)
             /\ UNCHANGED <<identity, born>>
    <3>1. vr' \in [Replicas -> VaultProcs] /\ \A q \in Replicas : Working(vr'[q])
      BY <1>f, <2>1, ReportTyped DEF Reasons
    <3> QED
      BY <1>1, <2>1, <3>1, RestOfTypes DEF VaultGenerate, Objects
  <2>2. ASSUME NEW i \in Ids \ born, identity' = i, born' = born \union {i},
               vr' = [vr EXCEPT ![r].pc = "ratchet", ![r].id = i]
        PROVE  Objects'
    <3> DEFINE p == [vr[r] EXCEPT !.pc = "ratchet", !.id = i]
    <3>1. p \in VaultProcs /\ Working(p)
      BY <1>f DEF VaultProcs, Working
    <3>2. vr' = [vr EXCEPT ![r] = p]
      BY <2>2
    <3>3. vr' \in [Replicas -> VaultProcs] /\ \A q \in Replicas : Working(vr'[q])
      BY <3>1, <3>2, OwnRecord
    <3> QED
      BY <1>1, <2>2, <3>3, RestOfTypes DEF VaultGenerate, Objects
  <2> QED
    BY <1>1, <2>1, <2>2 DEF VaultGenerate
<1>2. CASE VaultCreateRequest(r)
  <2>1. CASE Report(r, FALSE, "ReconcileUnavailable",
                    vr[r].seen.revision, vr[r].seen.identity)
             /\ UNCHANGED requests
    <3>1. vr' \in [Replicas -> VaultProcs] /\ \A q \in Replicas : Working(vr'[q])
      BY <1>f, <2>1, ReportTyped DEF Reasons
    <3> QED
      BY <1>2, <2>1, <3>1, RestOfTypes DEF VaultCreateRequest, Objects
  <2> DEFINE request == [purpose |-> Purpose(r), id |-> vr[r].id,
                         n |-> IF Purpose(r) = "Enroll" THEN 0
                               ELSE Cardinality(requests)]
  <2>2. CASE /\ requests' = requests \union {request}
             /\ vr' = [vr EXCEPT ![r].pc = "approval", ![r].request = request]
    <3>1. Cardinality(requests) \in Nat
      BY FS_CardinalityType DEF Objects
    <3>4. vr[r].id \in Ids
      BY <1>f, <1>2 DEF VaultCreateRequest, Working
    <3>2. request \in Requests
      BY <3>1, <3>4 DEF Requests, Purpose
    <3>3. requests' \subseteq Requests /\ IsFiniteSet(requests')
      BY <2>2, <3>2, FS_AddElement DEF Objects
    <3> HIDE DEF request
    <3> DEFINE p == [vr[r] EXCEPT !.pc = "approval", !.request = request]
    <3>5. p \in VaultProcs /\ Working(p)
      BY <1>f, <3>2, <3>4 DEF VaultProcs, Working
    <3>6. vr' = [vr EXCEPT ![r] = p]
      BY <2>2
    <3>7. vr' \in [Replicas -> VaultProcs] /\ \A q \in Replicas : Working(vr'[q])
      BY <3>5, <3>6, OwnRecord
    <3> QED
      BY <1>2, <3>3, <3>7, RestOfTypes DEF VaultCreateRequest, Objects
  <2> QED
    BY <1>2, <2>1, <2>2 DEF VaultCreateRequest
<1>3. ASSUME vr[r].pc = "verify", Refusal(r) = "none", Expected(r),
             NEW STATE mine, mine \in VaultProcs, Working(mine),
             WriteRatchet(r, vr[r].id, Remembers(vr[r].version), mine),
             UNCHANGED <<vaults, source, identity, born, requests, approvals,
                         status, output, lost, up, cache, sr, edits>>,
             faults' \in Nat
      PROVE  Objects'
  <2>1. vr[r].id \in Ids /\ Remembers(vr[r].version) \in RatchetObjects
    BY <1>3, VerifiedType
  <2>2. /\ ratchet' \in [Ids -> RatchetObjects]
        /\ vr' \in [Replicas -> VaultProcs]
        /\ \A q \in Replicas : Working(vr'[q])
    BY <1>3, <2>1, WriteRatchetType
  <2> QED
    BY <1>3, <2>2, RestOfTypes DEF Objects
<1>4. CASE VaultVerify(r)
  <2>v. /\ vr[r].pc = "verify"
        /\ UNCHANGED <<vaults, source, identity, born, requests, approvals,
                       status, output, lost, up, cache, sr, edits, faults>>
    BY <1>4 DEF VaultVerify
  <2>1. ASSUME NEW STATE reason, reason \in Reasons,
               Report(r, FALSE, reason, vr[r].version, vr[r].id),
               UNCHANGED ratchet
        PROVE  Objects'
    <3>1. vr' \in [Replicas -> VaultProcs] /\ \A q \in Replicas : Working(vr'[q])
      BY <1>f, <2>1, ReportTyped
    <3> QED
      BY <2>v, <2>1, <3>1, RestOfTypes DEF Objects
  <2>2. CASE Refusal(r) # "none"
    BY <1>4, <2>1, <2>2, RefusalType DEF VaultVerify
  <2>3. CASE Refusal(r) = "none" /\ ~Expected(r)
    <3>1. /\ Report(r, FALSE, "TrustStateUnavailable", vr[r].version, vr[r].id)
          /\ UNCHANGED ratchet
      BY <1>4, <2>3 DEF VaultVerify, compare_and_swap
    <3> QED
      BY <2>1, <3>1 DEF Reasons
  <2>4. CASE Refusal(r) = "none" /\ Expected(r)
    <3> DEFINE ready == Reporting(r, TRUE, "Verified", vr[r].version, vr[r].id)
               mine == IF vr[r].request.purpose = "RestoreTrust"
                       THEN [vr[r] EXCEPT !.pc = "consume"] ELSE ready
    <3>0. "Verified" \in Reasons
      BY DEF Reasons
    <3>1. ready \in VaultProcs /\ Working(ready)
      BY <1>f, <3>0, ReportType
    <3>2. [vr[r] EXCEPT !.pc = "consume"] \in VaultProcs
          /\ Working([vr[r] EXCEPT !.pc = "consume"])
      BY <1>f, <2>v DEF VaultProcs, Working
    <3>3. WriteRatchet(r, vr[r].id, Remembers(vr[r].version), mine)
      BY <1>4, <2>4 DEF VaultVerify, compare_and_swap
    <3>4. mine \in VaultProcs /\ Working(mine)
      BY <3>1, <3>2
    <3> HIDE DEF mine
    <3> QED
      BY <1>3, <2>v, <2>4, <3>3, <3>4 DEF Objects
  <2> QED
    BY <2>2, <2>3, <2>4
<1>5. CASE VaultAnswerLost(r)
  <2>1. PICK reason \in {"TrustStateUnavailable", "ReconcileUnavailable"} :
          WriteRatchet(r, vr[r].id, Remembers(vr[r].version),
            Reporting(r, FALSE, reason,
                      vr[r].seen.revision, vr[r].seen.identity))
    BY <1>5 DEF VaultAnswerLost
  <2> DEFINE mine == Reporting(r, FALSE, reason,
                               vr[r].seen.revision, vr[r].seen.identity)
  <2>2. reason \in Reasons
    BY DEF Reasons
  <2>3. mine \in VaultProcs /\ Working(mine)
    BY <1>f, <2>2, ReportType
  <2>4. WriteRatchet(r, vr[r].id, Remembers(vr[r].version), mine)
    BY <2>1
  <2>5. faults' \in Nat
    BY <1>5 DEF VaultAnswerLost, Objects
  <2> HIDE DEF mine
  <2> QED
    BY <1>3, <1>5, <2>3, <2>4, <2>5 DEF VaultAnswerLost
<1>6. ASSUME vr' \in [Replicas -> VaultProcs], \A q \in Replicas : Working(vr'[q]),
             UNCHANGED <<vaults, source, identity, born, ratchet, output, lost,
                         up, cache, sr, edits>>,
             approvals' \subseteq approvals, requests' \subseteq requests,
             status' \in Statuses, faults' \in Nat
      PROVE  Objects'
  <2>1. IsFiniteSet(requests')
    BY <1>6, FS_Subset DEF Objects
  <2> QED
    BY <1>6, <2>1, RestOfTypes DEF Objects
<1>7. ASSUME Report(r, FALSE, "ReconcileUnavailable",
                    vr[r].seen.revision, vr[r].seen.identity)
      PROVE  vr' \in [Replicas -> VaultProcs] /\ \A q \in Replicas : Working(vr'[q])
  BY <1>f, <1>7, ReportTyped DEF Reasons
<1>8. CASE VaultConsumeApproval(r)
  <2>1. CASE VGoto(r, "consumed")
    <3>1. vr[r].id \in Ids
      BY <1>f, <1>8 DEF VaultConsumeApproval, Working
    <3> DEFINE p == [vr[r] EXCEPT !.pc = "consumed"]
    <3>2. p \in VaultProcs /\ Working(p) /\ vr' = [vr EXCEPT ![r] = p]
      BY <1>f, <2>1, <3>1 DEF VaultProcs, Working, VGoto
    <3> QED
      BY <1>6, <1>8, <3>2, OwnRecord DEF VaultConsumeApproval, Objects
  <2> QED
    BY <1>6, <1>7, <1>8, <2>1 DEF VaultConsumeApproval, Objects
<1>9. CASE VaultConsumeRequest(r)
  <2>1. CASE Report(r, TRUE, "Verified", vr[r].version, vr[r].id)
    <3>1. vr' \in [Replicas -> VaultProcs] /\ \A q \in Replicas : Working(vr'[q])
      BY <1>f, <2>1, ReportTyped DEF Reasons
    <3> QED
      BY <1>6, <1>9, <3>1 DEF VaultConsumeRequest, Objects
  <2> QED
    BY <1>6, <1>7, <1>9, <2>1 DEF VaultConsumeRequest, Objects
<1>10. CASE VaultStatus(r)
  <2>1. MergePatch(status, vr[r].next) \in Statuses
    BY <1>f DEF MergePatch, Statuses, Objects
  <2>2. vr' \in [Replicas -> VaultProcs] /\ \A q \in Replicas : Working(vr'[q])
    BY <1>10, IdleType, OwnRecord DEF VaultStatus
  <2> QED
    BY <1>6, <1>10, <2>1, <2>2 DEF VaultStatus, Objects
<1>11. CASE VaultCallFails(r)
  <2>1. vr' \in [Replicas -> VaultProcs] /\ \A q \in Replicas : Working(vr'[q])
    <3>1. CASE vr' = [vr EXCEPT ![r] = VaultIdle]
      BY <3>1, IdleType, OwnRecord
    <3>2. CASE Report(r, FALSE, "TrustStateUnavailable", vr[r].version, vr[r].id)
      BY <1>f, <3>2, ReportTyped DEF Reasons
    <3>3. CASE Report(r, FALSE, "TrustStateUnavailable",
                      vr[r].seen.revision, vr[r].seen.identity)
      BY <1>f, <3>3, ReportTyped DEF Reasons
    <3> QED
      BY <1>7, <1>11, <3>1, <3>2, <3>3 DEF VaultCallFails
  <2>2. faults' \in Nat
    BY <1>11 DEF VaultCallFails, Objects
  <2> QED
    BY <1>6, <1>11, <2>1, <2>2 DEF VaultCallFails, cluster, Objects
<1> QED
  BY <1>1, <1>2, <1>4, <1>5, <1>8, <1>9, <1>10, <1>11

LEMMA WriteOutputType ==
  ASSUME Objects, NEW by, NEW STATE value,
         value \in [owner : {"none", "thorax", "other"}, version : Versions],
         WriteOutput(by, value, SecretIdle)
  PROVE  /\ output' = value
         /\ output' \in [owner : {"none", "thorax", "other"}, version : Versions]
         /\ sr' \in [Replicas -> SecretProcs]
<1>1. output' = value
  BY DEF WriteOutput
<1>2. ASSUME NEW q \in Replicas
      PROVE  sr'[q] \in SecretProcs
  <2>1. sr[q] \in SecretProcs /\ Stale(sr[q]) \in SecretProcs
    BY FieldTypes, StaleSecret
  <2>2. sr'[q] \in {SecretIdle, sr[q], Stale(sr[q])}
    BY DEF WriteOutput
  <2> QED
    BY <2>1, <2>2, IdleType
<1>3. sr' = [q \in Replicas |-> sr'[q]]
  BY DEF WriteOutput
<1> QED
  BY <1>1, <1>2, <1>3

LEMMA SecretTypes ==
  ASSUME Objects, NEW r \in Replicas,
         SecretStart(r) \/ SecretStep(r) \/ SecretCallFails(r)
  PROVE  Objects'
<1>f. sr[r] \in SecretProcs /\ sr[r].version \in Versions
  BY FieldTypes
<1>1. ASSUME sr' \in [Replicas -> SecretProcs],
             output' \in [owner : {"none", "thorax", "other"}, version : Versions],
             UNCHANGED <<vaults, source, identity, born, ratchet, requests,
                         approvals, status, lost, up, cache, vr, edits>>,
             faults' \in Nat
      PROVE  Objects'
  BY <1>1 DEF Objects, Latest
<1>2. ASSUME NEW p \in SecretProcs, sr' = [sr EXCEPT ![r] = p],
             UNCHANGED <<cluster, up, cache, vr, edits>>, faults' \in Nat
      PROVE  Objects'
  <2>1. sr' \in [Replicas -> SecretProcs]
    BY <1>2 DEF Objects
  <2> QED
    BY <1>1, <1>2, <2>1 DEF cluster, Objects
<1>3. ASSUME NEW pc \in {"idle", "load", "derive", "write", "post", "put",
                         "withdraw", "delete"}
      PROVE  /\ [SecretIdle EXCEPT !.pc = pc] \in SecretProcs
             /\ [sr[r] EXCEPT !.pc = pc] \in SecretProcs
  BY <1>f, IdleType DEF SecretProcs
<1>4. ASSUME NEW pc \in {"idle", "load", "derive", "write", "post", "put",
                         "withdraw", "delete"},
             SGoto(r, pc), UNCHANGED <<cluster, up, cache, vr, edits, faults>>
      PROVE  Objects'
  <2>1. sr' = [sr EXCEPT ![r] = [sr[r] EXCEPT !.pc = pc]]
    BY <1>4 DEF SGoto
  <2> QED
    BY <1>2, <1>3, <1>4, <2>1 DEF Objects
<1>5. CASE SecretStart(r)
  BY <1>4, <1>5 DEF SecretStart
<1>6. CASE SecretSource(r)
  <2>1. CASE SGoto(r, "withdraw")
    BY <1>4, <1>6, <2>1 DEF SecretSource
  <2>2. CASE /\ source \notin {Absent, Undecodable}
             /\ sr' = [sr EXCEPT ![r].pc = "derive", ![r].version = source]
    <3> DEFINE p == [sr[r] EXCEPT !.pc = "derive", !.version = source]
    <3>1. p \in SecretProcs
      BY <1>f, <2>2, VersionTypes DEF SecretProcs
    <3>2. sr' = [sr EXCEPT ![r] = p]
      BY <2>2
    <3> QED
      BY <1>2, <1>6, <3>1, <3>2 DEF SecretSource, Objects
  <2> QED
    BY <1>6, <2>1, <2>2 DEF SecretSource
<1>7. CASE SecretDerive(r)
  BY <1>4, <1>7 DEF SecretDerive
<1>8. CASE SecretMetadata(r)
  <2> DEFINE pc == IF output = NoOutput THEN "post" ELSE "put"
             p == [sr[r] EXCEPT !.pc = pc, !.fresh = TRUE]
  <2>1. p \in SecretProcs
    BY <1>f DEF SecretProcs
  <2>2. sr' = [sr EXCEPT ![r] = SecretIdle] \/ sr' = [sr EXCEPT ![r] = p]
    BY <1>8 DEF SecretMetadata
  <2> QED
    BY <1>2, <1>8, <2>1, <2>2, IdleType DEF SecretMetadata, Objects
<1>9. ASSUME NEW pc \in {"idle", "withdraw", "delete"},
             \/ sr' = [sr EXCEPT ![r] = [SecretIdle EXCEPT !.pc = pc]]
             \/ sr' = [sr EXCEPT ![r] = SecretIdle],
             UNCHANGED <<cluster, up, cache, vr, edits>>, faults' \in Nat
      PROVE  Objects'
  BY <1>2, <1>3, <1>9, IdleType
<1>10. CASE SecretPut(r)
  <2>1. CASE WriteOutput(r, Projected(sr[r].version), SecretIdle)
    <3>1. Projected(sr[r].version)
            \in [owner : {"none", "thorax", "other"}, version : Versions]
      BY <1>f DEF Projected
    <3>2. /\ output' \in [owner : {"none", "thorax", "other"}, version : Versions]
          /\ sr' \in [Replicas -> SecretProcs]
      BY <2>1, <3>1, WriteOutputType
    <3> QED
      BY <1>1, <1>10, <3>2 DEF SecretPut, Objects
  <2>2. CASE /\ sr' = [sr EXCEPT ![r] = [SecretIdle EXCEPT !.pc = "withdraw"]]
             /\ UNCHANGED output
    BY <1>9, <1>10, <2>2 DEF SecretPut, cluster, Objects
  <2> QED
    BY <1>10, <2>1, <2>2 DEF SecretPut
<1>11. CASE SecretWithdraw(r)
  BY <1>9, <1>11 DEF SecretWithdraw, Objects
<1>12. CASE SecretDelete(r)
  <2>1. CASE WriteOutput(r, NoOutput, SecretIdle)
    <3>1. NoOutput \in [owner : {"none", "thorax", "other"}, version : Versions]
      BY VersionTypes DEF NoOutput
    <3>2. /\ output' \in [owner : {"none", "thorax", "other"}, version : Versions]
          /\ sr' \in [Replicas -> SecretProcs]
      BY <2>1, <3>1, WriteOutputType
    <3> QED
      BY <1>1, <1>12, <3>2 DEF SecretDelete, Objects
  <2>2. CASE WithdrawalFails(r) /\ UNCHANGED output
    BY <1>9, <1>12, <2>2 DEF SecretDelete, WithdrawalFails, cluster, Objects
  <2> QED
    BY <1>12, <2>1, <2>2 DEF SecretDelete
<1>13. CASE SecretCallFails(r)
  <2>1. faults' \in Nat
    BY <1>13 DEF SecretCallFails, Objects
  <2> QED
    BY <1>9, <1>13, <2>1 DEF SecretCallFails, WithdrawalFails
<1> QED
  BY <1>5, <1>6, <1>7, <1>8, <1>10, <1>11, <1>12, <1>13 DEF SecretStep

LEMMA ReplicaTypes ==
  ASSUME Objects, NEW r \in Replicas, Watch(r) \/ Lead(r) \/ Stop(r)
  PROVE  Objects'
<1>1. CASE Watch(r)
  BY <1>1 DEF Watch, cluster, Objects, Latest
<1>2. CASE Lead(r)
  BY <1>2 DEF Lead, cluster, Objects, Latest
<1>3. CASE Stop(r)
  <2>1. /\ vr' \in [Replicas -> VaultProcs] /\ \A q \in Replicas : Working(vr'[q])
    BY <1>3, IdleType, OwnRecord DEF Stop
  <2>2. /\ sr' \in [Replicas -> SecretProcs] /\ cache' \in [Replicas -> Statuses]
        /\ up' \subseteq Replicas
    BY <1>3, IdleType DEF Stop, Objects
  <2>3. edits' \in Nat /\ faults' \in Nat
    BY <1>3 DEF Stop, Fault, Objects
  <2> QED
    BY <1>3, <2>1, <2>2, <2>3 DEF Stop, cluster, Objects, Working, Latest
<1> QED
  BY <1>1, <1>2, <1>3

(* A version appended to the vault.                                         *)
LEMMA AppendType ==
  ASSUME Objects, NEW STATE v, v \in Contents, Append1(v)
  PROVE  /\ vaults' \in Seq(Contents) /\ Latest' \in 1..MaxVersion
         /\ Latest' = Latest + 1
         /\ \A n \in 1..Latest : vaults'[n] = vaults[n]
BY ConstantsAssumption DEF Append1, Latest, Objects

LEMMA EditedContents ==
  ASSUME NEW c \in Contents
  PROVE  /\ \A b \in BOOLEAN : [c EXCEPT !.mark = c.mark + 1, !.gone = b] \in Contents
         /\ \A i : [c EXCEPT !.members = c.members \ {i}] \in Contents
         /\ \A i \in Ids : [c EXCEPT !.members = c.members \union {i},
                                   !.mark = c.mark + 1] \in Contents
<1>1. c.members \subseteq Ids /\ c.mark \in Nat /\ c.mark + 1 \in Nat
      /\ c.gone \in BOOLEAN
  BY DEF Contents
<1>2. \A b \in BOOLEAN : [c EXCEPT !.mark = c.mark + 1, !.gone = b] \in Contents
  BY <1>1 DEF Contents
<1>3. ASSUME NEW i
      PROVE  [c EXCEPT !.members = c.members \ {i}] \in Contents
  <2>1. c.members \ {i} \in SUBSET Ids
    BY <1>1
  <2> QED
    BY <2>1 DEF Contents
<1>4. ASSUME NEW i \in Ids
      PROVE  [c EXCEPT !.members = c.members \union {i},
                       !.mark = c.mark + 1] \in Contents
  <2>1. c.members \union {i} \in SUBSET Ids
    BY <1>1
  <2> QED
    BY <1>1, <2>1 DEF Contents
<1> QED
  BY <1>2, <1>3, <1>4

LEMMA EnvironmentTypes ==
  ASSUME Objects, Environment
  PROVE  Objects'
<1> DEFINE now == vaults[Latest]
<1>f. now \in Contents
  BY DEF Objects, Latest
<1>e. /\ Edit => edits' \in Nat /\ faults' \in Nat
      /\ Fault => edits' \in Nat /\ faults' \in Nat
  BY DEF Edit, Fault, Objects
<1>1. ASSUME NEW STATE v, v \in Contents, Append1(v), Edit,
             UNCHANGED <<source, identity, born, ratchet, requests, approvals,
                         status, output, lost, up, cache, vr, sr>>
      PROVE  Objects'
  <2>1. vaults' \in Seq(Contents) /\ Latest' \in 1..MaxVersion
    BY <1>1, AppendType
  <2> QED
    BY <1>1, <1>e, <2>1 DEF Objects
<1>2. CASE EditVault
  <2>1. /\ [now EXCEPT !.mark = @ + 1, !.gone = FALSE] \in Contents
        /\ [now EXCEPT !.mark = @ + 1, !.gone = TRUE] \in Contents
        /\ \A i \in now.members : [now EXCEPT !.members = @ \ {i}] \in Contents
    BY <1>f, EditedContents
  <2> QED
    BY <1>1, <1>2, <2>1 DEF EditVault
<1>3. CASE Publish
  <2>1. source' \in 0..Unverified
    BY <1>3, BoundType
    DEF Publish, Objects, Absent, Undecodable, Unverified
  <2> QED
    BY <1>3, <1>e, <2>1 DEF Publish, Objects, Latest
<1>4. ASSUME NEW STATE q, q \in requests, Edit,
             approvals' = approvals \union {[request |-> q, base |-> Latest]},
             UNCHANGED <<vaults, source, identity, born, ratchet, requests,
                         status, output, lost, up, cache, vr, sr>>
      PROVE  Objects'
  <2>1. Latest \in Versions /\ q \in Requests
    BY <1>4, VersionTypes DEF Objects
  <2>2. approvals' \subseteq [request : Requests, base : Versions]
    BY <1>4, <2>1 DEF Objects
  <2> QED
    BY <1>4, <1>e, <2>2 DEF Objects, Latest
<1>5. CASE Approve
  BY <1>4, <1>5 DEF Approve
<1>6. CASE ApproveRestoration
  BY <1>4, <1>6 DEF ApproveRestoration
<1>7. CASE CommitApproval
  <2>1. PICK a \in approvals :
          /\ Edit /\ a.request \in requests
          /\ Append1([now EXCEPT !.members = @ \union {a.request.id},
                                 !.mark = @ + 1])
          /\ UNCHANGED <<source, identity, born, ratchet, requests, approvals,
                         status, output, lost, up, cache, vr, sr>>
    BY <1>7 DEF CommitApproval
  <2>a. a.request.id \in Ids
    BY <2>1 DEF Objects, Requests
  <2>2. [now EXCEPT !.members = @ \union {a.request.id}, !.mark = @ + 1]
          \in Contents
    BY <1>f, <2>a, EditedContents
  <2> QED
    BY <1>1, <2>1, <2>2
<1>8. CASE OthersWriteOutput
  <2> DEFINE value == IF output = NoOutput THEN Foreign ELSE NoOutput
  <2>1. value \in [owner : {"none", "thorax", "other"}, version : Versions]
    BY VersionTypes DEF NoOutput, Foreign
  <2>2. WriteOutput(NoId, value, SecretIdle)
    BY <1>8 DEF OthersWriteOutput
  <2>3. /\ output' \in [owner : {"none", "thorax", "other"}, version : Versions]
        /\ sr' \in [Replicas -> SecretProcs]
    BY <2>1, <2>2, WriteOutputType
  <2> QED
    BY <1>8, <1>e, <2>3 DEF OthersWriteOutput, Objects, Latest
<1>9. CASE LoseRatchet
  <2>1. PICK i \in Ids, left \in {NoRatchet, Tampered} :
          /\ WriteRatchet(NoId, i, left, VaultIdle)
          /\ lost' = lost \union {i}
    BY <1>9 DEF LoseRatchet
  <2>2. left \in RatchetObjects
    BY VersionTypes DEF NoRatchet, Tampered, RatchetObjects
  <2>3. /\ ratchet' \in [Ids -> RatchetObjects]
        /\ vr' \in [Replicas -> VaultProcs]
        /\ \A q \in Replicas : Working(vr'[q])
    BY <2>1, <2>2, IdleType, WriteRatchetType
  <2> QED
    BY <1>9, <1>e, <2>1, <2>3 DEF LoseRatchet, Objects, Latest, Working
<1>10. CASE LoseIdentity
  BY <1>10, <1>e DEF LoseIdentity, Objects, Latest
<1> QED
  BY <1>2, <1>3, <1>5, <1>6, <1>7, <1>8, <1>9, <1>10 DEF Environment

LEMMA InitTypes == Init => Objects
<1> SUFFICES ASSUME Init PROVE Objects
  OBVIOUS
<1>1. first \in Ids
  BY ConstantsAssumption DEF first
<1>2. edits \in Nat /\ faults \in Nat /\ (InitFresh \/ InitEnrolled)
  BY ConstantsAssumption DEF Init
<1>3. /\ lost \subseteq Ids /\ up \subseteq Replicas
      /\ cache \in [Replicas -> Statuses]
      /\ vr \in [Replicas -> VaultProcs] /\ \A r \in Replicas : Working(vr[r])
      /\ sr \in [Replicas -> SecretProcs]
  BY IdleType DEF Init
<1>4. CASE InitFresh
  <2>1. vaults \in Seq(Contents) /\ Latest = 1
    BY <1>4 DEF InitFresh, Contents, Latest
  <2>2. ratchet \in [Ids -> RatchetObjects] /\ source \in 0..Unverified
        /\ Latest \in 1..MaxVersion
    BY <1>4, <2>1, ConstantsAssumption
    DEF InitFresh, NoRatchet, RatchetObjects, Versions, Unverified
  <2>3. requests \subseteq Requests /\ IsFiniteSet(requests)
        /\ approvals \subseteq [request : Requests, base : Versions]
    BY <1>4, FS_EmptySet DEF InitFresh
  <2>4. status \in Statuses /\ identity \in Ids \union {NoId} /\ born \subseteq Ids
        /\ output \in [owner : {"none", "thorax", "other"}, version : Versions]
    BY <1>4, IdleType, VersionTypes DEF InitFresh, NoOutput
  <2> QED
    BY <1>2, <1>3, <2>1, <2>2, <2>3, <2>4 DEF Objects, Working
<1>5. CASE InitEnrolled
  <2>1. vaults \in Seq(Contents) /\ Latest = 2
    BY <1>1, <1>5 DEF InitEnrolled, Contents, Latest
  <2>2. source \in 0..Unverified /\ Latest \in 1..MaxVersion /\ {1, 2} \subseteq Versions
    BY <1>5, <2>1, ConstantsAssumption DEF InitEnrolled, Versions, Unverified
  <2>3. ratchet \in [Ids -> RatchetObjects]
    BY <1>5, <2>2, VersionTypes
    DEF InitEnrolled, NoRatchet, Remembers, RatchetObjects
  <2>4. enrollment \in Requests
    BY <1>1 DEF enrollment, Requests
  <2>5. requests \subseteq Requests /\ IsFiniteSet(requests)
        /\ approvals \subseteq [request : Requests, base : Versions]
    <3>1. requests = {enrollment}
          /\ approvals = {[request |-> enrollment, base |-> 1]}
      BY <1>5 DEF InitEnrolled
    <3>2. IsFiniteSet({enrollment})
      BY FS_Singleton
    <3> QED
      BY <2>2, <2>4, <3>1, <3>2
  <2>6. status \in Statuses /\ identity \in Ids \union {NoId} /\ born \subseteq Ids
        /\ output \in [owner : {"none", "thorax", "other"}, version : Versions]
    BY <1>1, <1>5, <2>2, VersionTypes
    DEF InitEnrolled, NoOutput, Statuses, Reasons
  <2> QED
    BY <1>2, <1>3, <2>1, <2>2, <2>3, <2>5, <2>6 DEF Objects, Working
<1> QED
  BY <1>2, <1>4, <1>5

(* One step of anybody keeps the types.                                     *)
LEMMA NextTypes == Objects /\ [Next]_vars => Objects'
<1> SUFFICES ASSUME Objects, [Next]_vars PROVE Objects'
  OBVIOUS
<1>1. CASE UNCHANGED vars
  BY <1>1 DEF vars, moving, cluster, Objects, Latest
<1>2. ASSUME NEW r \in Replicas, Replica(r) PROVE Objects'
  BY <1>2, StepsWithoutWrites, StepsWithWrites, SecretTypes, ReplicaTypes
  DEF Replica, VaultStep
<1> QED
  BY <1>1, <1>2, EnvironmentTypes DEF Next

(* Objects and reconcilers keep their types, and a reconciler past its      *)
(* identity step works for an identity that exists.                         *)
THEOREM TypeCorrect == Spec => []TypeOK
<1>1. Init => TypeOK
  <2>1. ASSUME Init
        PROVE  deployed \in [replicas : SUBSET Replicas, projecting : BOOLEAN]
    <3>1. PICK start \in Starts :
            deployed = [replicas |-> start.replicas, projecting |-> start.projecting]
      BY <2>1 DEF Init
    <3>2. start.replicas \in SUBSET Replicas /\ start.projecting \in BOOLEAN
      BY ConstantsAssumption
    <3> QED
      BY <3>1, <3>2
  <2> QED
    BY <2>1, InitTypes DEF TypeOK
<1>2. TypeOK /\ [Next]_vars => TypeOK'
  BY NextTypes DEF TypeOK, Next, vars
<1> QED
  BY <1>1, <1>2, PTL DEF Spec

----------------------------------------------------------------------------
(* The rollback state *)

(* A reconciler that only changes its own record.                           *)
LEMMA OwnGood ==
  ASSUME Inductive, NEW r \in Replicas, NEW STATE p, Good(p),
         vr' = [vr EXCEPT ![r] = p], UNCHANGED <<ratchet, lost>>
  PROVE  \A q \in Replicas : Good(vr[q])'
<1> SUFFICES ASSUME NEW q \in Replicas PROVE Good(vr[q])'
  OBVIOUS
<1>1. vr'[q] = IF q = r THEN p ELSE vr[q]
  BY DEF Inductive, Objects
<1>2. Good(vr[q])
  BY DEF Inductive
<1>3. CASE q = r
  BY <1>1, <1>3 DEF Good, BaseCurrent, TamperedIsLost, ReadyHeld, Held
<1>4. CASE q # r
  BY <1>1, <1>2, <1>4 DEF Good, BaseCurrent, TamperedIsLost, ReadyHeld, Held
<1> QED
  BY <1>3, <1>4

(* The two kinds of report, and what they say.                              *)
ReadyReport(r, n, i) == Reporting(r, TRUE, "Verified", n, i)
OtherReport(r, reason, n, i) == Reporting(r, FALSE, reason, n, i)

LEMMA ReadyFields ==
  ASSUME Objects, NEW r \in Replicas, NEW n \in Versions,
         NEW i \in Ids \union {NoId}
  PROVE  /\ ReadyReport(r, n, i) \in VaultProcs
         /\ ReadyReport(r, n, i).pc = "status"
         /\ ReadyReport(r, n, i).next.identity = i
         /\ ReadyReport(r, n, i).next.revision = n
<1>1. vr[r].seen \in Statuses
  BY FieldTypes
<1>2. /\ StatusOf(r, TRUE, "Verified", n, i) \in Statuses
      /\ StatusOf(r, TRUE, "Verified", n, i).identity = i
      /\ StatusOf(r, TRUE, "Verified", n, i).revision = n
  BY <1>1 DEF StatusOf, Statuses, trust_was_established, Reasons
<1> QED
  BY <1>1, <1>2, IdleType DEF ReadyReport, Reporting, VaultProcs, VaultIdle

LEMMA OtherFields ==
  ASSUME Objects, NEW r \in Replicas, NEW reason \in Reasons,
         NEW n \in Versions, NEW i \in Ids \union {NoId}
  PROVE  /\ OtherReport(r, reason, n, i) \in VaultProcs
         /\ OtherReport(r, reason, n, i).pc = "status"
         /\ OtherReport(r, reason, n, i).next.ready = FALSE
<1>1. vr[r].seen \in Statuses
  BY FieldTypes
<1>2. /\ StatusOf(r, FALSE, reason, n, i) \in Statuses
      /\ StatusOf(r, FALSE, reason, n, i).ready = FALSE
  BY <1>1 DEF StatusOf, Statuses, trust_was_established
<1> QED
  BY <1>1, <1>2, IdleType DEF OtherReport, Reporting, VaultProcs, VaultIdle

(* A report that is not Ready claims nothing.                               *)
LEMMA NotReadyGood ==
  ASSUME Inductive, NEW r \in Replicas, NEW STATE reason, reason \in Reasons,
         NEW STATE n, n \in Versions, NEW STATE i, i \in Ids \union {NoId}
  PROVE  Good(Reporting(r, FALSE, reason, n, i))
BY ReportType
DEF Inductive, Good, BaseCurrent, TamperedIsLost, ReadyHeld, Loaded

LEMMA NotReadyReported ==
  ASSUME Inductive, NEW r \in Replicas, NEW STATE reason, reason \in Reasons,
         NEW STATE n, n \in Versions, NEW STATE i, i \in Ids \union {NoId},
         Report(r, FALSE, reason, n, i), UNCHANGED <<ratchet, lost>>
  PROVE  \A q \in Replicas : Good(vr[q])'
BY NotReadyGood, OwnGood DEF Report

(* What a successful compare_and_swap replaces: nothing, the state that was *)
(* verified against, or a state found tampered with.                        *)
LEMMA SwapRaises ==
  ASSUME Inductive, NEW r \in Replicas, vr[r].pc = "verify",
         Refusal(r) = "none", Expected(r)
  PROVE  /\ vr[r].id \notin lost => vr[r].base.kind # "tampered"
         /\ ratchet[vr[r].id].kind = "ok" /\ vr[r].base.kind # "tampered"
              => vr[r].version >= ratchet[vr[r].id].mark
<1>1. Good(vr[r]) /\ Objects
  BY DEF Inductive
<1>2. vr[r].base.kind \in {"none", "ok", "tampered"} /\ vr[r].fresh \in BOOLEAN
  <2>1. vr[r].base \in RatchetObjects /\ vr[r].fresh \in BOOLEAN
    BY <1>1, FieldTypes
  <2> QED
    BY <2>1 DEF RatchetObjects
<1>3. vr[r].version >= vr[r].base.mark
  BY <1>1, VerifiedType
<1>4. vr[r].base.kind = "none" => ratchet[vr[r].id].kind = "none"
  BY DEF Expected, NoRatchet
<1>5. vr[r].base.kind = "ok" => ratchet[vr[r].id] = vr[r].base
  BY <1>1, <1>2 DEF Good, BaseCurrent, Expected
<1>6. vr[r].id \notin lost => vr[r].base.kind # "tampered"
  BY <1>1 DEF Good, TamperedIsLost, Loaded
<1> QED
  BY <1>2, <1>3, <1>4, <1>5, <1>6

(* A successful compare_and_swap keeps everything that was promised.        *)
LEMMA SwapKeepsPromises ==
  ASSUME Inductive, NEW r \in Replicas, vr[r].pc = "verify",
         Refusal(r) = "none", Expected(r),
         NEW STATE mine, mine \in VaultProcs,
         WriteRatchet(r, vr[r].id, Remembers(vr[r].version), mine),
         UNCHANGED lost,
         \/ mine.pc = "status" /\ ~mine.next.ready
         \/ /\ mine.pc = "status" /\ mine.next.identity = vr[r].id
            /\ mine.next.revision = vr[r].version
         \/ /\ mine.pc = "consume" /\ mine.id = vr[r].id
            /\ mine.version = vr[r].version
  PROVE  /\ \A q \in Replicas : Good(vr[q])'
         /\ (\A i \in Ids : ratchet[i].kind = "tampered" => i \in lost)'
         /\ \A j \in Ids, n \in Versions : Held(j, n) => Held(j, n)'
<1> DEFINE i == vr[r].id
<1>t. Objects
  BY DEF Inductive
<1>1. /\ i \in Ids /\ vr[r].version \in 1..MaxVersion
      /\ Remembers(vr[r].version) \in RatchetObjects
  BY <1>t, VerifiedType
<1>2. ratchet' = [ratchet EXCEPT ![i] = Remembers(vr[r].version)]
  BY DEF WriteRatchet
<1>3. /\ \A j \in Ids : j # i => ratchet'[j] = ratchet[j]
      /\ ratchet'[i].kind = "ok" /\ ratchet'[i].mark = vr[r].version
  BY <1>1, <1>2, <1>t DEF Objects, Remembers
<1>4. ASSUME NEW j \in Ids, NEW n \in Versions, Held(j, n)
      PROVE  Held(j, n)'
  <2>1. CASE j # i
    BY <1>3, <1>4, <2>1 DEF Held
  <2>2. CASE j = i /\ i \notin lost
    <3>1. ratchet[i].kind = "ok" /\ ratchet[i].mark >= n
      BY <1>4, <2>2 DEF Held
    <3>2. vr[r].version >= ratchet[i].mark
      BY <2>2, <3>1, SwapRaises
    <3>3. ratchet[i].mark \in Nat /\ n \in Nat /\ vr[r].version \in Nat
      BY <1>1, <1>t, ConstantsAssumption
      DEF Objects, RatchetObjects, Versions, Unverified
    <3>4. vr[r].version >= n
      BY <3>1, <3>2, <3>3
    <3> QED
      BY <1>3, <2>2, <3>4 DEF Held
  <2>3. CASE j = i /\ i \in lost
    BY <2>3 DEF Held
  <2> QED
    BY <2>1, <2>2, <2>3
<1>5. (\A k \in Ids : ratchet[k].kind = "tampered" => k \in lost)'
  BY <1>3 DEF Inductive
<1>6. ASSUME NEW q \in Replicas
      PROVE  Good(vr[q])'
  <2>1. CASE q = r
    <3>1. vr'[q] = mine
      BY <2>1 DEF WriteRatchet
    <3>2. /\ i \in Ids /\ ratchet'[i].kind = "ok"
          /\ ratchet'[i].mark >= vr[r].version /\ vr[r].version # 0
      BY <1>1, <1>3
    <3>3. ReadyHeld(vr[q])'
      BY <3>1, <3>2 DEF ReadyHeld, Held
    <3> QED
      BY <3>1, <3>3 DEF Good, BaseCurrent, TamperedIsLost, Loaded
  <2>2. CASE q # r
    <3>0. Good(vr[q]) /\ vr[q] \in VaultProcs
      BY <1>t, FieldTypes DEF Inductive
    <3>1. vr'[q] = vr[q] \/ vr'[q] = Stale(vr[q])
      BY <2>2 DEF WriteRatchet
    <3>2. /\ vr'[q].pc = vr[q].pc /\ vr'[q].id = vr[q].id
          /\ vr'[q].base = vr[q].base /\ vr'[q].version = vr[q].version
          /\ vr'[q].next = vr[q].next
      BY <3>0, <3>1, StaleVault
    <3>3. BaseCurrent(vr[q])'
      <4>1. CASE vr[q].id = i /\ ratchet[i] # Remembers(vr[r].version)
        <5>1. vr'[q] = Stale(vr[q])
          BY <2>2, <4>1 DEF WriteRatchet
        <5>2. vr[q].pc \in Loaded => ~vr'[q].fresh
          BY <3>0, <5>1, StaleVault
        <5> QED
          BY <3>0, <3>2, <5>2 DEF Good, BaseCurrent, Loaded
      <4>2. CASE ~(vr[q].id = i /\ ratchet[i] # Remembers(vr[r].version))
        <5>1. vr'[q] = vr[q]
          BY <2>2, <4>2 DEF WriteRatchet
        <5>2. vr[q].pc = "verify" => ratchet'[vr[q].id] = ratchet[vr[q].id]
          <6>1. vr[q].pc = "verify" => vr[q].id \in Ids
            BY <1>t, FieldTypes DEF Working
          <6> QED
            BY <1>2, <1>3, <1>t, <4>2, <6>1 DEF Objects
        <5> QED
          BY <3>0, <5>1, <5>2 DEF Good, BaseCurrent
      <4> QED
        BY <4>1, <4>2
    <3>4. TamperedIsLost(vr[q])'
      BY <3>0, <3>2 DEF Good, TamperedIsLost
    <3>5. ReadyHeld(vr[q])'
      <4>1. vr[q].next.revision \in Versions /\ vr[q].version \in Versions
        <5>1. vr[q].next \in Statuses /\ vr[q].version \in Versions
          BY <1>t, FieldTypes
        <5> QED
          BY <5>1 DEF Statuses
      <4>2. ReadyHeld(vr[q])
        BY <3>0 DEF Good
      <4>3. CASE vr[q].pc = "status" /\ vr[q].next.ready
        <5>1. /\ Held(vr[q].next.identity, vr[q].next.revision)
              /\ vr[q].next.identity \in Ids /\ vr[q].next.revision # 0
          BY <4>2, <4>3 DEF ReadyHeld, Held
        <5>2. \A j \in Ids, n \in Versions :
                Held(j, n) => (j \notin lost => ratchet'[j].kind = "ok"
                                                /\ ratchet'[j].mark >= n)
          BY <1>4 DEF Held
        <5> QED
          BY <3>2, <4>1, <4>3, <5>1, <5>2 DEF ReadyHeld, Held
      <4>4. CASE vr[q].pc \in {"consume", "consumed"}
        <5>1. /\ Held(vr[q].id, vr[q].version)
              /\ vr[q].id \in Ids /\ vr[q].version # 0
          BY <4>2, <4>4 DEF ReadyHeld, Held
        <5>2. \A j \in Ids, n \in Versions :
                Held(j, n) => (j \notin lost => ratchet'[j].kind = "ok"
                                                /\ ratchet'[j].mark >= n)
          BY <1>4 DEF Held
        <5> QED
          BY <3>2, <4>1, <4>4, <5>1, <5>2 DEF ReadyHeld, Held
      <4> QED
        BY <3>2, <4>3, <4>4 DEF ReadyHeld
    <3> QED
      BY <3>3, <3>4, <3>5 DEF Good
  <2> QED
    BY <2>1, <2>2
<1> QED
  BY <1>4, <1>5, <1>6

LEMMA StatusHeld ==
  ASSUME Inductive, UNCHANGED <<lost, status>>,
         \A j \in Ids, n \in Versions : Held(j, n) => Held(j, n)'
  PROVE  (status.ready => Held(status.identity, status.revision))'
<1>1. \A j \in Ids, n \in Versions :
        Held(j, n) => (j \notin lost => ratchet'[j].kind = "ok"
                                        /\ ratchet'[j].mark >= n)
  BY DEF Held
<1>2. status.revision \in Versions
  BY DEF Inductive, Objects, Statuses
<1>3. status.ready => /\ Held(status.identity, status.revision)
                      /\ status.identity \in Ids
  BY DEF Inductive, Held
<1> QED
  BY <1>1, <1>2, <1>3 DEF Held

(* Losing a rollback state releases the promises about its identity only.   *)
LEMMA LossKeepsPromises ==
  ASSUME Inductive, LoseRatchet
  PROVE  /\ \A q \in Replicas : Good(vr[q])'
         /\ (\A i \in Ids : ratchet[i].kind = "tampered" => i \in lost)'
         /\ (status.ready => Held(status.identity, status.revision))'
<1>t. Objects
  BY DEF Inductive
<1>1. PICK i \in Ids, left \in {NoRatchet, Tampered} :
        /\ ratchet[i].kind = "ok"
        /\ WriteRatchet(NoId, i, left, VaultIdle)
        /\ lost' = lost \union {i} /\ UNCHANGED status
  BY DEF LoseRatchet
<1>2. ratchet[i] # left
  BY <1>1 DEF NoRatchet, Tampered
<1>3. /\ \A j \in Ids : j # i => ratchet'[j] = ratchet[j]
      /\ lost \subseteq lost' /\ i \in lost'
  BY <1>1, <1>t DEF WriteRatchet, Objects
<1>4. ASSUME NEW q \in Replicas
      PROVE  Good(vr[q])'
  <2>0. Good(vr[q]) /\ vr[q] \in VaultProcs /\ Working(vr[q])
    BY <1>t, FieldTypes DEF Inductive
  <2>1. /\ vr[q].id = i => vr'[q] = Stale(vr[q])
        /\ vr[q].id # i => vr'[q] = vr[q]
    BY <1>1, <1>2, ConstantsAssumption DEF WriteRatchet
  <2>2. /\ vr'[q].pc = vr[q].pc /\ vr'[q].id = vr[q].id
        /\ vr'[q].base = vr[q].base /\ vr'[q].version = vr[q].version
        /\ vr'[q].next = vr[q].next
        /\ vr[q].id = i /\ vr[q].pc \in Loaded => ~vr'[q].fresh
    BY <2>0, <2>1, StaleVault
  <2>3. BaseCurrent(vr[q])'
    BY <1>3, <2>0, <2>1, <2>2 DEF Good, BaseCurrent, Loaded, Working
  <2>4. TamperedIsLost(vr[q])'
    BY <1>3, <2>0, <2>2 DEF Good, TamperedIsLost
  <2>5. ReadyHeld(vr[q])'
    BY <1>3, <2>0, <2>2 DEF Good, ReadyHeld, Held
  <2> QED
    BY <2>3, <2>4, <2>5 DEF Good
<1>5. (\A k \in Ids : ratchet[k].kind = "tampered" => k \in lost)'
  BY <1>3 DEF Inductive
<1>6. (status.ready => Held(status.identity, status.revision))'
  BY <1>1, <1>3 DEF Inductive, Held
<1> QED
  BY <1>4, <1>5, <1>6

(* Before it has loaded anything, a reconciler relies on nothing.            *)
Early(p) == p.pc \in {"idle", "source", "identity", "generate", "ratchet"}

LEMMA EarlyGood ==
  ASSUME Inductive, NEW r \in Replicas, NEW STATE p, Early(p),
         vr' = [vr EXCEPT ![r] = p], UNCHANGED <<ratchet, lost>>
  PROVE  \A q \in Replicas : Good(vr[q])'
<1>1. Good(p)
  BY DEF Early, Good, BaseCurrent, TamperedIsLost, ReadyHeld, Loaded
<1> QED
  BY <1>1, OwnGood

(* Every other step of a reconciler of ThoraxVault.                         *)
LEMMA VaultKeepsPromises ==
  ASSUME Inductive, NEW r \in Replicas,
         \/ VaultStart(r) \/ VaultStep(r) \/ VaultCallFails(r)
         \/ VaultAnswerLost(r)
  PROVE  /\ \A q \in Replicas : Good(vr[q])'
         /\ (\A i \in Ids : ratchet[i].kind = "tampered" => i \in lost)'
         /\ (status.ready => Held(status.identity, status.revision))'
<1>t. Objects
  BY DEF Inductive
<1>f. /\ vr[r] \in VaultProcs
      /\ vr[r].version \in Versions /\ vr[r].id \in Ids \union {NoId}
      /\ vr[r].base \in RatchetObjects
      /\ vr[r].seen.revision \in Versions
      /\ vr[r].seen.identity \in Ids \union {NoId}
      /\ vr[r].next \in Statuses
      /\ Working(vr[r])
  BY <1>t, FieldTypes
<1>g. Good(vr[r])
  BY DEF Inductive
<1>1. ASSUME \A q \in Replicas : Good(vr[q])', UNCHANGED <<ratchet, lost, status>>
      PROVE  /\ \A q \in Replicas : Good(vr[q])'
             /\ (\A i \in Ids : ratchet[i].kind = "tampered" => i \in lost)'
             /\ (status.ready => Held(status.identity, status.revision))'
  BY <1>1 DEF Inductive, Held
<1>3. CASE VaultStart(r)
  <2> DEFINE p == [vr[r] EXCEPT !.pc = "source", !.seen = cache[r]]
  <2>p. Early(p)
    BY <1>f DEF VaultProcs, Early
  <2>1. vr' = [vr EXCEPT ![r] = p]
    BY <1>3 DEF VaultStart
  <2> HIDE DEF p
  <2> QED
    BY <1>1, <1>3, <2>p, <2>1, EarlyGood DEF VaultStart, cluster
<1>4. CASE VaultSource(r)
  <2>0. UNCHANGED <<ratchet, lost, status>>
    BY <1>4 DEF VaultSource, cluster
  <2>1. CASE Report(r, FALSE, "SourceUnavailable", 0, NoId)
    BY <1>1, <2>0, <2>1, VersionTypes, NotReadyReported DEF Reasons
  <2>2. CASE Report(r, FALSE, "VaultUnverified",
                    vr[r].seen.revision, vr[r].seen.identity)
    BY <1>1, <1>f, <2>0, <2>2, NotReadyReported DEF Reasons
  <2>3. CASE vr' = [vr EXCEPT ![r].pc = "identity", ![r].version = source]
    <3> DEFINE p == [vr[r] EXCEPT !.pc = "identity", !.version = source]
    <3>p. Early(p)
      BY <1>f DEF VaultProcs, Early
    <3>1. vr' = [vr EXCEPT ![r] = p]
      BY <2>3
    <3> HIDE DEF p
    <3> QED
      BY <1>1, <2>0, <3>p, <3>1, EarlyGood
  <2> QED
    BY <1>4, <2>1, <2>2, <2>3 DEF VaultSource
<1>5. CASE VaultIdentity(r)
  <2>0. UNCHANGED <<ratchet, lost, status>>
    BY <1>5 DEF VaultIdentity, cluster
  <2>1. CASE Report(r, FALSE, "RecoveryRequired", vr[r].version,
                    vr[r].seen.identity)
    BY <1>1, <1>f, <2>0, <2>1, NotReadyReported DEF Reasons
  <2>2. CASE VGoto(r, "generate")
    <3> DEFINE p == [vr[r] EXCEPT !.pc = "generate"]
    <3>p. Early(p)
      BY <1>f DEF VaultProcs, Early
    <3>1. vr' = [vr EXCEPT ![r] = p]
      BY <2>2 DEF VGoto
    <3> HIDE DEF p
    <3> QED
      BY <1>1, <2>0, <3>p, <3>1, EarlyGood
  <2>3. CASE vr' = [vr EXCEPT ![r].pc = "ratchet", ![r].id = identity]
    <3> DEFINE p == [vr[r] EXCEPT !.pc = "ratchet", !.id = identity]
    <3>p. Early(p)
      BY <1>f DEF VaultProcs, Early
    <3>1. vr' = [vr EXCEPT ![r] = p]
      BY <2>3
    <3> HIDE DEF p
    <3> QED
      BY <1>1, <2>0, <3>p, <3>1, EarlyGood
  <2> QED
    BY <1>5, <2>1, <2>2, <2>3 DEF VaultIdentity
<1>6. CASE VaultGenerate(r)
  <2>0. UNCHANGED <<ratchet, lost, status>>
    BY <1>6 DEF VaultGenerate
  <2>1. CASE Report(r, FALSE, "IdentityUnavailable", vr[r].version, NoId)
    BY <1>1, <1>f, <2>0, <2>1, NotReadyReported DEF Reasons
  <2>2. ASSUME NEW i \in Ids,
               vr' = [vr EXCEPT ![r].pc = "ratchet", ![r].id = i]
        PROVE  \A q \in Replicas : Good(vr[q])'
    <3> DEFINE p == [vr[r] EXCEPT !.pc = "ratchet", !.id = i]
    <3>p. Early(p)
      BY <1>f DEF VaultProcs, Early
    <3>1. vr' = [vr EXCEPT ![r] = p]
      BY <2>2
    <3> HIDE DEF p
    <3> QED
      BY <2>0, <3>p, <3>1, EarlyGood
  <2> QED
    BY <1>1, <1>6, <2>0, <2>1, <2>2 DEF VaultGenerate
<1>7. CASE VaultRatchet(r)
  <2>0. UNCHANGED <<ratchet, lost, status>>
    BY <1>7 DEF VaultRatchet, cluster
  <2> DEFINE found == ratchet[vr[r].id]
  <2>1. CASE Report(r, FALSE, "TrustStateTampered", vr[r].version, vr[r].id)
    BY <1>1, <1>f, <2>0, <2>1, NotReadyReported DEF Reasons
  <2>2. CASE vr' = [vr EXCEPT
                   ![r].pc = IF found.kind = "ok" THEN "verify" ELSE "request",
                   ![r].base = found, ![r].fresh = TRUE]
    <3> DEFINE p == [vr[r] EXCEPT
                       !.pc = IF found.kind = "ok" THEN "verify" ELSE "request",
                       !.base = found, !.fresh = TRUE]
    <3>1. /\ p.pc = IF found.kind = "ok" THEN "verify" ELSE "request"
          /\ p.base = found /\ p.id = vr[r].id
      BY <1>f DEF VaultProcs
    <3>v. vr' = [vr EXCEPT ![r] = p]
      BY <2>2
    <3>2. vr[r].id \in Ids /\ (found.kind = "tampered" => vr[r].id \in lost)
      BY <1>f, <1>7 DEF VaultRatchet, Working, Inductive
    <3>3. Good(p)
      BY <3>1, <3>2 DEF Good, BaseCurrent, TamperedIsLost, ReadyHeld, Loaded
    <3> HIDE DEF p
    <3> QED
      BY <1>1, <2>0, <3>v, <3>3, OwnGood
  <2> QED
    BY <1>7, <2>1, <2>2 DEF VaultRatchet
<1>8. CASE VaultFindRequest(r) \/ VaultCreateRequest(r)
  <2>0. UNCHANGED <<ratchet, lost, status>> /\ vr[r].pc \in {"request", "create"}
    BY <1>8 DEF VaultFindRequest, VaultCreateRequest, cluster
  <2>1. ASSUME NEW STATE p, p.pc \in {"create", "approval"},
               p.base = vr[r].base, p.id = vr[r].id
        PROVE  Good(p)
    BY <1>g, <2>0, <2>1
    DEF Good, BaseCurrent, TamperedIsLost, ReadyHeld, Loaded
  <2>2. CASE Report(r, FALSE, "ReconcileUnavailable",
                    vr[r].seen.revision, vr[r].seen.identity)
    BY <1>1, <1>f, <2>0, <2>2, NotReadyReported DEF Reasons
  <2>3. CASE VGoto(r, "create")
    <3> DEFINE p == [vr[r] EXCEPT !.pc = "create"]
    <3>1. p.pc = "create" /\ p.base = vr[r].base /\ p.id = vr[r].id
      BY <1>f DEF VaultProcs
    <3>2. vr' = [vr EXCEPT ![r] = p]
      BY <2>3 DEF VGoto
    <3> HIDE DEF p
    <3>3. Good(p)
      BY <3>1, <2>1
    <3> QED
      BY <1>1, <2>0, <3>2, <3>3, OwnGood
  <2>4. ASSUME NEW STATE q,
               vr' = [vr EXCEPT ![r].pc = "approval", ![r].request = q]
        PROVE  \A k \in Replicas : Good(vr[k])'
    <3> DEFINE p == [vr[r] EXCEPT !.pc = "approval", !.request = q]
    <3>1. p.pc = "approval" /\ p.base = vr[r].base /\ p.id = vr[r].id
      BY <1>f DEF VaultProcs
    <3>2. vr' = [vr EXCEPT ![r] = p]
      BY <2>4
    <3> HIDE DEF p
    <3>3. Good(p)
      BY <3>1, <2>1
    <3> QED
      BY <2>0, <3>2, <3>3, OwnGood
  <2>5. CASE VaultFindRequest(r)
    BY <1>1, <2>0, <2>3, <2>4, <2>5 DEF VaultFindRequest
  <2>6. CASE VaultCreateRequest(r)
    BY <1>1, <2>0, <2>2, <2>4, <2>6 DEF VaultCreateRequest
  <2> QED
    BY <1>8, <2>5, <2>6
<1>9. CASE VaultApproval(r)
  <2>0. UNCHANGED <<ratchet, lost, status>> /\ vr[r].pc = "approval"
    BY <1>9 DEF VaultApproval, cluster
  <2>1. ASSUME NEW STATE reason, reason \in Reasons,
               Report(r, FALSE, reason, vr[r].version, vr[r].id)
        PROVE  \A q \in Replicas : Good(vr[q])'
    BY <1>f, <2>0, <2>1, NotReadyReported
  <2>2. (IF Purpose(r) = "Enroll" THEN "PendingApproval"
         ELSE IF vr[r].base = Tampered THEN "TrustStateTampered"
         ELSE "RecoveryRequired") \in Reasons
    BY DEF Reasons
  <2>3. ASSUME NEW a \in approvals,
               vr' = [vr EXCEPT ![r].pc = IF vr[r].base = Tampered
                                          THEN "revision" ELSE "verify",
                                ![r].base.mark = a.base]
        PROVE  \A q \in Replicas : Good(vr[q])'
    <3> DEFINE b == [vr[r].base EXCEPT !.mark = a.base]
               pc == IF vr[r].base = Tampered THEN "revision" ELSE "verify"
               p == [vr[r] EXCEPT !.pc = pc, !.base = b]
    <3>1. b.kind = vr[r].base.kind
      BY <1>f DEF RatchetObjects
    <3>2. p.pc = pc /\ p.base = b /\ p.id = vr[r].id
      BY <1>f DEF VaultProcs
    <3>3. pc = "revision" => b.kind = "tampered"
      BY <3>1 DEF Tampered
    <3>4. vr' = [vr EXCEPT ![r] = p]
      <4> DEFINE e == [vr EXCEPT ![r].pc = pc, ![r].base.mark = a.base]
      <4>1. vr' = e
        BY <2>3
      <4>2. e[r] = p
        BY <1>f, <1>t DEF VaultProcs, Objects
      <4>3. e = [vr EXCEPT ![r] = p]
        BY <4>2
      <4> QED
        BY <4>1, <4>3
    <3>5. pc \in {"revision", "verify"}
      OBVIOUS
    <3> HIDE DEF p, b, pc
    <3>6. Good(p)
      BY <1>g, <2>0, <3>1, <3>2, <3>3, <3>5
      DEF Good, BaseCurrent, TamperedIsLost, ReadyHeld, Loaded
    <3> QED
      BY <2>0, <3>4, <3>6, OwnGood
  <2> QED
    BY <1>1, <1>9, <2>0, <2>1, <2>2, <2>3 DEF VaultApproval
<1>10. CASE VaultRevision(r)
  <2>0. UNCHANGED <<ratchet, lost, status>> /\ vr[r].pc = "revision"
    BY <1>10 DEF VaultRevision, cluster
  <2> DEFINE k == IF ratchet[vr[r].id] = NoRatchet THEN "none" ELSE "tampered"
             b == [vr[r].base EXCEPT !.kind = k]
             p == [vr[r] EXCEPT !.pc = "verify", !.fresh = TRUE, !.base = b]
  <2>1. p.pc = "verify" /\ p.base = b /\ p.id = vr[r].id
    BY <1>f DEF VaultProcs
  <2>2. b.kind # "ok"
    BY <1>f DEF RatchetObjects
  <2>3. vr[r].id \in lost
    BY <1>g, <2>0 DEF Good, TamperedIsLost, Loaded
  <2>4. vr' = [vr EXCEPT ![r] = p]
    <3> DEFINE e == [vr EXCEPT ![r].pc = "verify", ![r].fresh = TRUE,
                               ![r].base.kind = k]
    <3>1. vr' = e
      BY <1>10 DEF VaultRevision
    <3>2. e[r] = p
      BY <1>f, <1>t DEF VaultProcs, Objects
    <3>3. e = [vr EXCEPT ![r] = p]
      BY <3>2
    <3> QED
      BY <3>1, <3>3
  <2> HIDE DEF p, b
  <2>5. Good(p)
    BY <2>1, <2>2, <2>3
    DEF Good, BaseCurrent, TamperedIsLost, ReadyHeld, Loaded
  <2> QED
    BY <1>1, <2>0, <2>4, <2>5, OwnGood
<1>11. CASE VaultVerify(r)
  <2>0. UNCHANGED <<lost, status>> /\ vr[r].pc = "verify"
    BY <1>11 DEF VaultVerify
  <2>1. ASSUME NEW STATE reason, reason \in Reasons, UNCHANGED ratchet,
               Report(r, FALSE, reason, vr[r].version, vr[r].id)
        PROVE  \A q \in Replicas : Good(vr[q])'
    BY <1>f, <2>0, <2>1, NotReadyReported
  <2>2. CASE Refusal(r) # "none"
    BY <1>1, <1>11, <2>0, <2>1, <2>2, RefusalType DEF VaultVerify
  <2>3. CASE Refusal(r) = "none" /\ ~Expected(r)
    <3>1. /\ Report(r, FALSE, "TrustStateUnavailable", vr[r].version, vr[r].id)
          /\ UNCHANGED ratchet
      BY <1>11, <2>3 DEF VaultVerify, compare_and_swap
    <3> QED
      BY <1>1, <2>0, <2>1, <3>1 DEF Reasons
  <2>4. CASE Refusal(r) = "none" /\ Expected(r)
    <3> DEFINE ready == ReadyReport(r, vr[r].version, vr[r].id)
               restoring == [vr[r] EXCEPT !.pc = "consume"]
               mine == IF vr[r].request.purpose = "RestoreTrust"
                       THEN restoring ELSE ready
    <3>1. /\ ready \in VaultProcs /\ ready.pc = "status"
          /\ ready.next.identity = vr[r].id
          /\ ready.next.revision = vr[r].version
      BY <1>f, <1>t, ReadyFields
    <3>2. /\ restoring \in VaultProcs /\ restoring.pc = "consume"
          /\ restoring.id = vr[r].id /\ restoring.version = vr[r].version
      BY <1>f DEF VaultProcs
    <3>3. WriteRatchet(r, vr[r].id, Remembers(vr[r].version), mine)
      BY <1>11, <2>4 DEF VaultVerify, compare_and_swap, ReadyReport
    <3> HIDE DEF ready, restoring
    <3>4. mine = ready \/ mine = restoring
      OBVIOUS
    <3> HIDE DEF mine
    <3>5. /\ \A q \in Replicas : Good(vr[q])'
          /\ (\A i \in Ids : ratchet[i].kind = "tampered" => i \in lost)'
          /\ \A j \in Ids, n \in Versions : Held(j, n) => Held(j, n)'
      BY <2>0, <2>4, <3>1, <3>2, <3>3, <3>4, SwapKeepsPromises
    <3> QED
      BY <2>0, <3>5, StatusHeld
  <2> QED
    BY <2>2, <2>3, <2>4
<1>12. CASE VaultAnswerLost(r)
  <2>0. /\ UNCHANGED <<lost, status>> /\ vr[r].pc = "verify"
        /\ Refusal(r) = "none" /\ Expected(r)
    BY <1>12 DEF VaultAnswerLost
  <2>1. PICK reason \in {"TrustStateUnavailable", "ReconcileUnavailable"} :
          WriteRatchet(r, vr[r].id, Remembers(vr[r].version),
            Reporting(r, FALSE, reason,
                      vr[r].seen.revision, vr[r].seen.identity))
    BY <1>12 DEF VaultAnswerLost
  <2> DEFINE mine == OtherReport(r, reason,
                                 vr[r].seen.revision, vr[r].seen.identity)
  <2>2. reason \in Reasons
    BY DEF Reasons
  <2>3. mine \in VaultProcs /\ mine.pc = "status" /\ mine.next.ready = FALSE
    BY <1>f, <1>t, <2>2, OtherFields
  <2>4. WriteRatchet(r, vr[r].id, Remembers(vr[r].version), mine)
    BY <2>1 DEF OtherReport
  <2> HIDE DEF mine
  <2>5. /\ \A q \in Replicas : Good(vr[q])'
        /\ (\A i \in Ids : ratchet[i].kind = "tampered" => i \in lost)'
        /\ \A j \in Ids, n \in Versions : Held(j, n) => Held(j, n)'
    BY <2>0, <2>3, <2>4, SwapKeepsPromises
  <2> QED
    BY <2>0, <2>5, StatusHeld
<1>13. ASSUME Report(r, FALSE, "ReconcileUnavailable",
                     vr[r].seen.revision, vr[r].seen.identity),
              UNCHANGED <<ratchet, lost>>
       PROVE  \A q \in Replicas : Good(vr[q])'
  BY <1>f, <1>13, NotReadyReported DEF Reasons
<1>14. CASE VaultConsumeApproval(r)
  <2>0. UNCHANGED <<ratchet, lost, status>> /\ vr[r].pc = "consume"
    BY <1>14 DEF VaultConsumeApproval
  <2>1. CASE VGoto(r, "consumed")
    <3> DEFINE p == [vr[r] EXCEPT !.pc = "consumed"]
    <3>1. p.pc = "consumed" /\ p.id = vr[r].id /\ p.version = vr[r].version
      BY <1>f DEF VaultProcs
    <3>2. vr' = [vr EXCEPT ![r] = p]
      BY <2>1 DEF VGoto
    <3> HIDE DEF p
    <3>3. Good(p)
      BY <1>g, <2>0, <3>1
      DEF Good, BaseCurrent, TamperedIsLost, ReadyHeld, Loaded
    <3> QED
      BY <1>1, <2>0, <3>2, <3>3, OwnGood
  <2> QED
    BY <1>1, <1>13, <1>14, <2>0, <2>1 DEF VaultConsumeApproval
<1>15. CASE VaultConsumeRequest(r)
  <2>0. UNCHANGED <<ratchet, lost, status>> /\ vr[r].pc = "consumed"
    BY <1>15 DEF VaultConsumeRequest
  <2>1. CASE Report(r, TRUE, "Verified", vr[r].version, vr[r].id)
    <3> DEFINE p == ReadyReport(r, vr[r].version, vr[r].id)
    <3>1. /\ p.pc = "status" /\ p.next.identity = vr[r].id
          /\ p.next.revision = vr[r].version
      BY <1>f, <1>t, ReadyFields
    <3>2. vr' = [vr EXCEPT ![r] = p]
      BY <2>1 DEF Report, ReadyReport
    <3> HIDE DEF p
    <3>3. Good(p)
      BY <1>g, <2>0, <3>1
      DEF Good, BaseCurrent, TamperedIsLost, ReadyHeld, Loaded
    <3> QED
      BY <1>1, <2>0, <3>2, <3>3, OwnGood
  <2> QED
    BY <1>1, <1>13, <1>15, <2>0, <2>1 DEF VaultConsumeRequest
<1>16. Early(VaultIdle)
  BY DEF Early, VaultIdle
<1>17. CASE VaultStatus(r)
  <2>0. /\ UNCHANGED <<ratchet, lost>> /\ vr[r].pc = "status"
        /\ vr' = [vr EXCEPT ![r] = VaultIdle]
        /\ status' = status \/ status' = MergePatch(status, vr[r].next)
    BY <1>17 DEF VaultStatus
  <2>1. \A q \in Replicas : Good(vr[q])'
    BY <1>16, <2>0, EarlyGood
  <2>2. CASE status' = status
    BY <1>1, <2>0, <2>1, <2>2
  <2>3. CASE status' = MergePatch(status, vr[r].next)
    <3>1. status'.ready = vr[r].next.ready
      BY <1>f, <2>3 DEF MergePatch, Statuses
    <3>2. CASE vr[r].next.ready
      <4>1. /\ Held(vr[r].next.identity, vr[r].next.revision)
            /\ vr[r].next.revision # 0
        BY <1>g, <2>0, <3>2 DEF Good, ReadyHeld
      <4>2. vr[r].next.identity # NoId
        BY <4>1, ConstantsAssumption DEF Held
      <4>3. /\ status'.identity = vr[r].next.identity
            /\ status'.revision = vr[r].next.revision
        BY <1>f, <2>3, <4>1, <4>2 DEF MergePatch, Statuses
      <4>4. (status.ready => Held(status.identity, status.revision))'
        BY <2>0, <4>1, <4>3 DEF Held
      <4> QED
        BY <2>0, <2>1, <4>4 DEF Inductive
    <3> QED
      BY <2>0, <2>1, <3>1, <3>2 DEF Inductive
  <2> QED
    BY <2>0, <2>2, <2>3
<1>18. CASE VaultCallFails(r)
  <2>0. UNCHANGED <<ratchet, lost, status>>
    BY <1>18 DEF VaultCallFails, cluster
  <2>1. CASE vr' = [vr EXCEPT ![r] = VaultIdle]
    BY <1>1, <1>16, <2>0, <2>1, EarlyGood
  <2>2. CASE Report(r, FALSE, "TrustStateUnavailable", vr[r].version, vr[r].id)
    BY <1>1, <1>f, <2>0, <2>2, NotReadyReported DEF Reasons
  <2>3. CASE Report(r, FALSE, "TrustStateUnavailable",
                    vr[r].seen.revision, vr[r].seen.identity)
    BY <1>1, <1>f, <2>0, <2>3, NotReadyReported DEF Reasons
  <2> QED
    BY <1>1, <1>13, <1>18, <2>0, <2>1, <2>2, <2>3 DEF VaultCallFails
<1> QED
  BY <1>3, <1>4, <1>5, <1>6, <1>7, <1>8, <1>9, <1>10, <1>11, <1>12, <1>14,
     <1>15, <1>17, <1>18 DEF VaultStep

----------------------------------------------------------------------------
(* The projected Secret *)

(* Writes of the projection see no foreign owner while they can succeed.    *)
LEMMA WritesStayOwn ==
  ASSUME Inductive, [Next]_vars
  PROVE  WriteIsOwn'
<1>t. Objects /\ WriteIsOwn
  BY DEF Inductive
<1>1. ASSUME UNCHANGED <<sr, output>> PROVE WriteIsOwn'
  BY <1>1, <1>t DEF WriteIsOwn
<1>2. ASSUME NEW r \in Replicas, NEW STATE p, sr' = [sr EXCEPT ![r] = p],
             UNCHANGED output,
             p.pc \in {"put", "delete"} => output # Foreign
      PROVE  WriteIsOwn'
  BY <1>2, <1>t DEF WriteIsOwn, Objects
<1>3. ASSUME NEW by, NEW STATE value, WriteOutput(by, value, SecretIdle),
             value = Foreign => output # Foreign
      PROVE  WriteIsOwn'
  <2> SUFFICES ASSUME NEW q \in Replicas, sr'[q].pc \in {"put", "delete"},
                      sr'[q].fresh
               PROVE  value # Foreign
    BY <1>3 DEF WriteIsOwn, WriteOutput
  <2>1. SecretIdle.pc = "idle"
    BY DEF SecretIdle
  <2>2. q # by
    BY <1>3, <2>1 DEF WriteOutput
  <2>3. sr[q] \in SecretProcs
    BY <1>t, FieldTypes
  <2>4. output # value => sr'[q] = Stale(sr[q])
    BY <1>3, <2>2 DEF WriteOutput
  <2>5. output = value
    BY <2>3, <2>4, StaleSecret
  <2> QED
    BY <1>3, <2>5
<1>4. ASSUME NEW r \in Replicas, NEW pc, SGoto(r, pc), UNCHANGED output,
             pc \notin {"put", "delete"}
      PROVE  WriteIsOwn'
  <2> DEFINE p == [sr[r] EXCEPT !.pc = pc]
  <2>1. p.pc = pc
    BY <1>t, FieldTypes DEF SecretProcs
  <2>2. sr' = [sr EXCEPT ![r] = p]
    BY <1>4 DEF SGoto
  <2> HIDE DEF p
  <2> QED
    BY <1>2, <1>4, <2>1, <2>2
<1>5. ASSUME NEW r \in Replicas, NEW pc,
             sr' = [sr EXCEPT ![r] = [SecretIdle EXCEPT !.pc = pc]],
             UNCHANGED output, pc \notin {"put", "delete"}
      PROVE  WriteIsOwn'
  <2> DEFINE p == [SecretIdle EXCEPT !.pc = pc]
  <2>1. p.pc = pc
    BY DEF SecretIdle
  <2>2. sr' = [sr EXCEPT ![r] = p]
    BY <1>5
  <2> HIDE DEF p
  <2> QED
    BY <1>2, <1>5, <2>1, <2>2
<1>w. ASSUME NEW r \in Replicas, UNCHANGED output,
             sr' = [sr EXCEPT ![r] = [SecretIdle EXCEPT !.pc = "withdraw"]]
      PROVE  WriteIsOwn'
  <2> DEFINE p == [SecretIdle EXCEPT !.pc = "withdraw"]
  <2>1. p.pc = "withdraw"
    BY DEF SecretIdle
  <2>2. sr' = [sr EXCEPT ![r] = p]
    BY <1>w
  <2> HIDE DEF p
  <2> QED
    BY <1>2, <1>w, <2>1, <2>2
<1>6. ASSUME NEW r \in Replicas, sr' = [sr EXCEPT ![r] = SecretIdle],
             UNCHANGED output
      PROVE  WriteIsOwn'
  <2>1. SecretIdle.pc \notin {"put", "delete"}
    BY DEF SecretIdle
  <2> QED
    BY <1>2, <1>6, <2>1
<1>7. ASSUME NEW r \in Replicas, SecretStart(r) \/ SecretDerive(r)
      PROVE  WriteIsOwn'
  <2>1. UNCHANGED output
    BY <1>7 DEF SecretStart, SecretDerive, cluster
  <2>2. \E pc \in {"load", "withdraw", "write"} : SGoto(r, pc)
    BY <1>7 DEF SecretStart, SecretDerive
  <2> QED
    BY <1>4, <2>1, <2>2
<1>8. ASSUME NEW r \in Replicas, SecretSource(r) PROVE WriteIsOwn'
  <2>0. UNCHANGED output
    BY <1>8 DEF SecretSource, cluster
  <2>1. CASE SGoto(r, "withdraw")
    BY <1>4, <2>0, <2>1
  <2>2. CASE sr' = [sr EXCEPT ![r].pc = "derive", ![r].version = source]
    <3> DEFINE p == [sr[r] EXCEPT !.pc = "derive", !.version = source]
    <3>1. p.pc = "derive"
      BY <1>t, FieldTypes DEF SecretProcs
    <3>2. sr' = [sr EXCEPT ![r] = p]
      BY <2>2
    <3> HIDE DEF p
    <3> QED
      BY <1>2, <2>0, <3>1, <3>2
  <2> QED
    BY <1>8, <2>1, <2>2 DEF SecretSource
<1>9. ASSUME NEW r \in Replicas, SecretMetadata(r) PROVE WriteIsOwn'
  <2> DEFINE there == [sr[r] EXCEPT !.pc = IF output = NoOutput
                                           THEN "post" ELSE "put",
                                    !.fresh = TRUE]
  <2>0. UNCHANGED output
    BY <1>9 DEF SecretMetadata, cluster
  <2>1. CASE output = Foreign
    <3>1. sr' = [sr EXCEPT ![r] = SecretIdle]
      BY <1>9, <2>1 DEF SecretMetadata
    <3> QED
      BY <1>6, <2>0, <3>1
  <2>2. CASE output # Foreign
    <3>1. sr' = [sr EXCEPT ![r] = there]
      BY <1>9, <2>2 DEF SecretMetadata
    <3> HIDE DEF there
    <3> QED
      BY <1>2, <2>0, <2>2, <3>1
  <2> QED
    BY <2>1, <2>2
<1>10. ASSUME NEW r \in Replicas, SecretPut(r) PROVE WriteIsOwn'
  <2>1. Projected(sr[r].version) # Foreign
    BY DEF Projected, Foreign
  <2>2. CASE WriteOutput(r, Projected(sr[r].version), SecretIdle)
    BY <1>3, <2>1, <2>2
  <2>3. CASE /\ sr' = [sr EXCEPT ![r] = [SecretIdle EXCEPT !.pc = "withdraw"]]
             /\ UNCHANGED output
    BY <1>w, <2>3
  <2> QED
    BY <1>10, <2>2, <2>3 DEF SecretPut
<1>11. ASSUME NEW r \in Replicas, SecretWithdraw(r) PROVE WriteIsOwn'
  <2>0. UNCHANGED output
    BY <1>11 DEF SecretWithdraw, cluster
  <2> DEFINE p == [SecretIdle EXCEPT !.pc = "delete"]
  <2>1. CASE output.owner = "thorax"
    <3>1. output # Foreign
      BY <2>1 DEF Foreign
    <3>2. sr' = [sr EXCEPT ![r] = p]
      BY <1>11, <2>1 DEF SecretWithdraw
    <3> HIDE DEF p
    <3> QED
      BY <1>2, <2>0, <3>1, <3>2
  <2>2. CASE output.owner # "thorax"
    <3>1. sr' = [sr EXCEPT ![r] = SecretIdle]
      BY <1>11, <2>2 DEF SecretWithdraw
    <3> QED
      BY <1>6, <2>0, <3>1
  <2> QED
    BY <2>1, <2>2
<1>12. ASSUME NEW r \in Replicas, WithdrawalFails(r), UNCHANGED output
       PROVE  WriteIsOwn'
  BY <1>5, <1>12 DEF WithdrawalFails
<1>13. ASSUME NEW r \in Replicas, SecretDelete(r) PROVE WriteIsOwn'
  <2>1. NoOutput # Foreign
    BY DEF NoOutput, Foreign
  <2>2. CASE WriteOutput(r, NoOutput, SecretIdle)
    BY <1>3, <2>1, <2>2
  <2> QED
    BY <1>12, <1>13, <2>2 DEF SecretDelete
<1>14. ASSUME NEW r \in Replicas, SecretCallFails(r) PROVE WriteIsOwn'
  <2>0. UNCHANGED output
    BY <1>14 DEF SecretCallFails, cluster
  <2>1. CASE sr' = [sr EXCEPT ![r] = [SecretIdle EXCEPT !.pc = "withdraw"]]
    BY <1>w, <2>0, <2>1
  <2> QED
    BY <1>12, <1>14, <2>0, <2>1 DEF SecretCallFails
<1>15. CASE OthersWriteOutput
  <2> DEFINE value == IF output = NoOutput THEN Foreign ELSE NoOutput
  <2>1. WriteOutput(NoId, value, SecretIdle)
    BY <1>15 DEF OthersWriteOutput
  <2>2. value = Foreign => output # Foreign
    BY DEF NoOutput, Foreign
  <2> HIDE DEF value
  <2> QED
    BY <1>3, <2>1, <2>2
<1>16. ASSUME NEW r \in Replicas, Stop(r) PROVE WriteIsOwn'
  BY <1>6, <1>16 DEF Stop, cluster
<1>17. ASSUME NEW r \in Replicas,
              \/ VaultStart(r) \/ VaultStep(r) \/ VaultCallFails(r)
              \/ VaultAnswerLost(r) \/ Watch(r) \/ Lead(r)
       PROVE  UNCHANGED <<sr, output>>
  BY <1>17
  DEF VaultStart, VaultStep, VaultCallFails, VaultAnswerLost, Watch, Lead,
      VaultSource, VaultIdentity, VaultGenerate, VaultRatchet,
      VaultFindRequest, VaultCreateRequest, VaultApproval, VaultRevision,
      VaultVerify, VaultConsumeApproval, VaultConsumeRequest, VaultStatus,
      cluster
<1>18. ASSUME \/ EditVault \/ Publish \/ Approve \/ CommitApproval
              \/ ApproveRestoration \/ LoseRatchet \/ LoseIdentity
       PROVE  UNCHANGED <<sr, output>>
  BY <1>18 DEF EditVault, Publish, Approve, CommitApproval,
               ApproveRestoration, LoseRatchet, LoseIdentity
<1>19. CASE UNCHANGED vars
  BY <1>1, <1>19 DEF vars, moving, cluster
<1>20. ASSUME NEW r \in Replicas, Replica(r) PROVE WriteIsOwn'
  BY <1>1, <1>7, <1>8, <1>9, <1>10, <1>11, <1>13, <1>14, <1>16, <1>17, <1>20
  DEF Replica, SecretStep
<1>21. CASE Environment
  BY <1>1, <1>15, <1>18, <1>21 DEF Environment
<1> QED
  BY <1>19, <1>20, <1>21 DEF Next

----------------------------------------------------------------------------
(* The invariant and the theorems *)

(* Who changes the rollback states: a loss and a compare_and_swap.          *)
LEMMA RatchetSteps ==
  ASSUME [Next]_vars
  PROVE  \/ UNCHANGED ratchet
         \/ LoseRatchet
         \/ \E r \in Replicas :
              /\ vr[r].pc = "verify" /\ Refusal(r) = "none" /\ Expected(r)
              /\ ratchet' = [ratchet EXCEPT
                               ![vr[r].id] = Remembers(vr[r].version)]
<1>1. ASSUME NEW r \in Replicas, VaultVerify(r)
      PROVE  \/ UNCHANGED ratchet
             \/ /\ vr[r].pc = "verify" /\ Refusal(r) = "none" /\ Expected(r)
                /\ ratchet' = [ratchet EXCEPT
                                 ![vr[r].id] = Remembers(vr[r].version)]
  BY <1>1 DEF VaultVerify, compare_and_swap, WriteRatchet
<1>2. ASSUME NEW r \in Replicas, VaultAnswerLost(r)
      PROVE  /\ vr[r].pc = "verify" /\ Refusal(r) = "none" /\ Expected(r)
             /\ ratchet' = [ratchet EXCEPT
                              ![vr[r].id] = Remembers(vr[r].version)]
  BY <1>2 DEF VaultAnswerLost, WriteRatchet
<1>3. ASSUME NEW r \in Replicas,
             \/ VaultStart(r) \/ VaultCallFails(r) \/ Watch(r) \/ Lead(r)
             \/ Stop(r) \/ VaultSource(r) \/ VaultIdentity(r)
             \/ VaultGenerate(r) \/ VaultRatchet(r) \/ VaultFindRequest(r)
             \/ VaultCreateRequest(r) \/ VaultApproval(r)
             \/ VaultRevision(r) \/ VaultConsumeApproval(r)
             \/ VaultConsumeRequest(r) \/ VaultStatus(r)
      PROVE  UNCHANGED ratchet
  BY <1>3
  DEF VaultStart, VaultCallFails, Watch, Lead, Stop,
      VaultSource, VaultIdentity, VaultGenerate, VaultRatchet,
      VaultFindRequest, VaultCreateRequest, VaultApproval, VaultRevision,
      VaultConsumeApproval, VaultConsumeRequest, VaultStatus, cluster
<1>4. ASSUME NEW r \in Replicas,
             SecretStart(r) \/ SecretStep(r) \/ SecretCallFails(r)
      PROVE  UNCHANGED ratchet
  BY <1>4
  DEF SecretStart, SecretStep, SecretCallFails, SecretSource, SecretDerive,
      SecretMetadata, SecretPut, SecretWithdraw, SecretDelete, cluster
<1>5. ASSUME \/ EditVault \/ Publish \/ Approve \/ CommitApproval
             \/ ApproveRestoration \/ OthersWriteOutput \/ LoseIdentity
      PROVE  UNCHANGED ratchet
  BY <1>5 DEF EditVault, Publish, Approve, CommitApproval,
              ApproveRestoration, OthersWriteOutput, LoseIdentity
<1>6. CASE UNCHANGED vars
  BY <1>6 DEF vars, moving, cluster
<1>7. CASE \E r \in Replicas : Replica(r)
  BY <1>1, <1>2, <1>3, <1>4, <1>7 DEF Replica, VaultStep
<1>8. CASE Environment
  BY <1>5, <1>8 DEF Environment
<1> QED
  BY <1>6, <1>7, <1>8 DEF Next

(* Steps that neither load nor write a rollback state nor report.           *)
LEMMA OtherSteps ==
  ASSUME Inductive,
         \/ UNCHANGED vars
         \/ \E r \in Replicas : \/ SecretStart(r) \/ SecretStep(r)
                                \/ SecretCallFails(r) \/ Watch(r)
                                \/ Lead(r) \/ Stop(r)
         \/ EditVault \/ Publish \/ Approve \/ CommitApproval
         \/ ApproveRestoration \/ OthersWriteOutput \/ LoseIdentity
  PROVE  /\ \A q \in Replicas : Good(vr[q])'
         /\ (\A i \in Ids : ratchet[i].kind = "tampered" => i \in lost)'
         /\ (status.ready => Held(status.identity, status.revision))'
<1>1. ASSUME UNCHANGED <<ratchet, lost, status, vr>>
      PROVE  /\ \A q \in Replicas : Good(vr[q])'
             /\ (\A i \in Ids : ratchet[i].kind = "tampered" => i \in lost)'
             /\ (status.ready => Held(status.identity, status.revision))'
  BY <1>1
  DEF Inductive, Good, BaseCurrent, TamperedIsLost, ReadyHeld, Held
<1>2. ASSUME NEW r \in Replicas, Stop(r)
      PROVE  /\ \A q \in Replicas : Good(vr[q])'
             /\ (\A i \in Ids : ratchet[i].kind = "tampered" => i \in lost)'
             /\ (status.ready => Held(status.identity, status.revision))'
  <2>1. Early(VaultIdle)
    BY DEF Early, VaultIdle
  <2>2. vr' = [vr EXCEPT ![r] = VaultIdle] /\ UNCHANGED <<ratchet, lost, status>>
    BY <1>2 DEF Stop, cluster
  <2>3. \A q \in Replicas : Good(vr[q])'
    BY <2>1, <2>2, EarlyGood
  <2> QED
    BY <2>2, <2>3 DEF Inductive, Held
<1>3. ASSUME NEW r \in Replicas,
             \/ SecretStart(r) \/ SecretStep(r) \/ SecretCallFails(r)
             \/ Watch(r) \/ Lead(r)
      PROVE  UNCHANGED <<ratchet, lost, status, vr>>
  BY <1>3
  DEF SecretStart, SecretStep, SecretCallFails, SecretSource, SecretDerive,
      SecretMetadata, SecretPut, SecretWithdraw, SecretDelete, Watch, Lead,
      cluster
<1>4. ASSUME \/ EditVault \/ Publish \/ Approve \/ CommitApproval
             \/ ApproveRestoration \/ OthersWriteOutput \/ LoseIdentity
      PROVE  UNCHANGED <<ratchet, lost, status, vr>>
  BY <1>4 DEF EditVault, Publish, Approve, CommitApproval,
              ApproveRestoration, OthersWriteOutput, LoseIdentity
<1>5. CASE UNCHANGED vars
  BY <1>1, <1>5 DEF vars, moving, cluster
<1> QED
  BY <1>1, <1>2, <1>3, <1>4, <1>5

LEMMA InitInductive == Init => Inductive
<1> SUFFICES ASSUME Init PROVE Inductive
  OBVIOUS
<1>1. Objects
  BY InitTypes
<1>2. \A r \in Replicas : vr[r] = VaultIdle /\ sr[r] = SecretIdle
  BY DEF Init
<1>3. \A r \in Replicas : Good(vr[r])
  BY <1>2 DEF Good, BaseCurrent, TamperedIsLost, ReadyHeld, Loaded, VaultIdle
<1>4. WriteIsOwn
  BY <1>2 DEF WriteIsOwn, SecretIdle
<1>5. InitFresh \/ InitEnrolled
  BY DEF Init
<1>6. first \in Ids
  BY ConstantsAssumption DEF first
<1>7. CASE InitFresh
  <2>1. \A i \in Ids : ratchet[i].kind = "none"
    BY <1>7 DEF InitFresh, NoRatchet
  <2>2. status.ready = FALSE
    BY <1>7 DEF InitFresh, NoStatus
  <2> QED
    BY <1>1, <1>3, <1>4, <2>1, <2>2 DEF Inductive
<1>8. CASE InitEnrolled
  <2>1. \A i \in Ids : ratchet[i] = IF i = first THEN Remembers(2) ELSE NoRatchet
    BY <1>8 DEF InitEnrolled
  <2>2. \A i \in Ids : ratchet[i].kind # "tampered"
    BY <2>1 DEF NoRatchet, Remembers
  <2>3. ratchet[first].kind = "ok" /\ ratchet[first].mark = 2
    BY <1>6, <2>1 DEF Remembers
  <2>4. status.identity = first /\ status.revision = 2
    BY <1>8 DEF InitEnrolled
  <2>5. Held(status.identity, status.revision)
    BY <1>6, <2>3, <2>4 DEF Held
  <2> QED
    BY <1>1, <1>3, <1>4, <2>2, <2>5 DEF Inductive
<1> QED
  BY <1>5, <1>7, <1>8

LEMMA NextInductive == Inductive /\ [Next]_vars => Inductive'
<1> SUFFICES ASSUME Inductive, [Next]_vars PROVE Inductive'
  OBVIOUS
<1>1. Objects' /\ WriteIsOwn'
  BY NextTypes, WritesStayOwn DEF Inductive
<1>2. /\ \A q \in Replicas : Good(vr[q])'
      /\ (\A i \in Ids : ratchet[i].kind = "tampered" => i \in lost)'
      /\ (status.ready => Held(status.identity, status.revision))'
  <2>1. CASE UNCHANGED vars
    BY <2>1, OtherSteps
  <2>2. ASSUME NEW r \in Replicas, Replica(r)
        PROVE  /\ \A q \in Replicas : Good(vr[q])'
               /\ (\A i \in Ids : ratchet[i].kind = "tampered" => i \in lost)'
               /\ (status.ready => Held(status.identity, status.revision))'
    BY <2>2, VaultKeepsPromises, OtherSteps DEF Replica
  <2>3. CASE Environment
    BY <2>3, LossKeepsPromises, OtherSteps DEF Environment
  <2> QED
    BY <2>1, <2>2, <2>3 DEF Next
<1> QED
  BY <1>1, <1>2 DEF Inductive

(* Whatever replicas, people and faults do, the promises of the             *)
(* reconcilers to each other hold.                                          *)
LEMMA AlwaysInductive == Spec => []Inductive
BY InitInductive, NextInductive, PTL DEF Spec

(* set_vault_status reports Ready only of a revision that the rollback      *)
(* state of the identity remembers, for any number of overlapping replicas, *)
(* crashes and lost answers.                                                *)
THEOREM ReadyRemembered == Spec => []ReadyIsRemembered
<1>1. Inductive => ReadyIsRemembered
  BY DEF Inductive, Held, ReadyIsRemembered
<1> QED
  BY <1>1, AlwaysInductive, PTL

(* compare_and_swap never lowers an intact rollback state, except where a   *)
(* restoration replaces one that it found tampered with.                    *)
THEOREM RatchetOnlyRises == Spec => RatchetMonotone
<1>1. ASSUME Inductive, [Next]_vars, NEW i \in Ids,
             ratchet[i].kind = "ok", ratchet'[i].kind = "ok", ~Repairs(i)
      PROVE  ratchet'[i].mark >= ratchet[i].mark
  <2>t. Objects
    BY <1>1 DEF Inductive
  <2>m. ratchet[i].mark \in Nat
    BY <2>t, ConstantsAssumption DEF Objects, RatchetObjects, Versions, Unverified
  <2>1. CASE UNCHANGED ratchet
    BY <2>1, <2>m
  <2>2. CASE LoseRatchet
    <3>1. PICK k \in Ids, left \in {NoRatchet, Tampered} :
            ratchet' = [ratchet EXCEPT ![k] = left]
      BY <2>2 DEF LoseRatchet, WriteRatchet
    <3>2. left.kind # "ok"
      BY DEF NoRatchet, Tampered
    <3>3. i # k
      BY <1>1, <2>t, <3>1, <3>2 DEF Objects
    <3> QED
      BY <2>m, <2>t, <3>1, <3>3 DEF Objects
  <2>3. ASSUME NEW r \in Replicas,
               vr[r].pc = "verify", Refusal(r) = "none", Expected(r),
               ratchet' = [ratchet EXCEPT
                             ![vr[r].id] = Remembers(vr[r].version)]
        PROVE  ratchet'[i].mark >= ratchet[i].mark
    <3>1. CASE i # vr[r].id
      BY <2>m, <2>t, <2>3, <3>1 DEF Objects
    <3>2. CASE i = vr[r].id
      <4>1. vr[r].base.kind # "tampered"
        BY <1>1, <2>3, <3>2 DEF Repairs
      <4>2. vr[r].version >= ratchet[i].mark
        BY <1>1, <2>3, <3>2, <4>1, SwapRaises
      <4>3. ratchet'[i].mark = vr[r].version
        BY <2>3, <2>t, <3>2 DEF Objects, Remembers
      <4> QED
        BY <4>2, <4>3
    <3> QED
      BY <3>1, <3>2
  <2> QED
    BY <1>1, <2>1, <2>2, <2>3, RatchetSteps
<1>2. Inductive /\ [Next]_vars
        => [\A i \in Ids :
              ratchet[i].kind = "ok" /\ ratchet'[i].kind = "ok" /\ ~Repairs(i)
                => ratchet'[i].mark >= ratchet[i].mark]_vars
  BY <1>1
<1> QED
  BY <1>2, AlwaysInductive, PTL DEF Spec, RatchetMonotone

(* write_projection and delete_owned_projection leave a Secret of another   *)
(* owner alone, also one that appears after the metadata was read: a        *)
(* foreign Secret only disappears by a step of somebody else, in which no   *)
(* reconciler moves.                                                        *)
THEOREM ForeignKept == Spec => ForeignUntouched
<1>1. ASSUME Inductive, [Next]_vars, output = Foreign, output' # Foreign
      PROVE  \A r \in Replicas : sr'[r].pc = sr[r].pc
  <2>t. Objects /\ WriteIsOwn
    BY <1>1 DEF Inductive
  <2>1. ASSUME NEW r \in Replicas, SecretPut(r) PROVE FALSE
    <3>1. output # NoOutput
      BY <1>1 DEF NoOutput, Foreign
    <3>2. sr[r].pc = "put" /\ sr[r].fresh
      BY <1>1, <2>1, <3>1 DEF SecretPut
    <3> QED
      BY <1>1, <2>t, <3>2 DEF WriteIsOwn
  <2>2. ASSUME NEW r \in Replicas, SecretDelete(r) PROVE FALSE
    <3>1. sr[r].pc = "delete" /\ sr[r].fresh
      BY <1>1, <2>2 DEF SecretDelete
    <3> QED
      BY <1>1, <2>t, <3>1 DEF WriteIsOwn
  <2>3. CASE OthersWriteOutput
    <3> SUFFICES ASSUME NEW q \in Replicas PROVE sr'[q].pc = sr[q].pc
      OBVIOUS
    <3>1. q # NoId
      BY ConstantsAssumption
    <3>2. sr'[q] = sr[q] \/ sr'[q] = Stale(sr[q])
      BY <2>3, <3>1 DEF OthersWriteOutput, WriteOutput
    <3>3. sr[q] \in SecretProcs
      BY <2>t, FieldTypes
    <3> QED
      BY <3>2, <3>3, StaleSecret
  <2>4. ASSUME NEW r \in Replicas,
               \/ VaultStart(r) \/ VaultStep(r) \/ VaultCallFails(r)
               \/ VaultAnswerLost(r) \/ Watch(r) \/ Lead(r) \/ Stop(r)
        PROVE  UNCHANGED output
    BY <2>4
    DEF VaultStart, VaultStep, VaultCallFails, VaultAnswerLost, Watch, Lead,
        Stop, VaultSource, VaultIdentity, VaultGenerate, VaultRatchet,
        VaultFindRequest, VaultCreateRequest, VaultApproval, VaultRevision,
        VaultVerify, VaultConsumeApproval, VaultConsumeRequest, VaultStatus,
        cluster
  <2>5. ASSUME NEW r \in Replicas,
               \/ SecretStart(r) \/ SecretCallFails(r) \/ SecretSource(r)
               \/ SecretDerive(r) \/ SecretMetadata(r) \/ SecretWithdraw(r)
        PROVE  UNCHANGED output
    BY <2>5
    DEF SecretStart, SecretCallFails, SecretSource, SecretDerive,
        SecretMetadata, SecretWithdraw, cluster
  <2>6. ASSUME \/ EditVault \/ Publish \/ Approve \/ CommitApproval
               \/ ApproveRestoration \/ LoseRatchet \/ LoseIdentity
        PROVE  UNCHANGED output
    BY <2>6 DEF EditVault, Publish, Approve, CommitApproval,
                ApproveRestoration, LoseRatchet, LoseIdentity
  <2>7. ~ UNCHANGED vars
    BY <1>1 DEF vars, moving, cluster
  <2>8. ASSUME NEW r \in Replicas, Replica(r) PROVE FALSE
    BY <1>1, <2>1, <2>2, <2>4, <2>5, <2>8 DEF Replica, SecretStep
  <2>9. Environment
    BY <1>1, <2>7, <2>8 DEF Next
  <2> QED
    BY <1>1, <2>3, <2>6, <2>9 DEF Environment
<1>2. Inductive /\ [Next]_vars
        => [output = Foreign /\ output' # Foreign
              => \A r \in Replicas : sr'[r].pc = sr[r].pc]_vars
  BY <1>1
<1> QED
  BY <1>2, AlwaysInductive, PTL DEF Spec, ForeignUntouched
=============================================================================
