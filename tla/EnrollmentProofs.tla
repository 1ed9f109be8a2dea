-------------------------- MODULE EnrollmentProofs --------------------------
(* Theorems about Enrollment: however administrators interleave, die and    *)
(* recover, no member is left without the file that holds its key, no       *)
(* commit takes another one back, and the first memory of a machine is at   *)
(* least the issuer's.                                                      *)
EXTENDS Enrollment, TLAPS

(* What a prepared change is: the enrolment of its user in the vault it was *)
(* prepared against, which has room for the secret that is sealed again.    *)
Prepared(o) ==
  o.at \in {"emit", "commit"} =>
    /\ o.material.user \in Users /\ o.expected \in Vaults
    /\ o.kind = "invite" => o.material \in Invites
    /\ o.kind # "invite" => o.material \in Approvals /\ o.form = NoForm
    /\ o.kind # "RestoreTrust" =>
         \E grant \in BOOLEAN :
           /\ grant => o.expected.secret < MaxCounter
           /\ o.next = Enrolled(o.expected, o.material.user, grant)

(* What has left the administrators' machine, as a file, a string or an     *)
(* approval, and whether u is among S.                                      *)
Issued == invites \cup approvals
HandedOut(u, S) == \E i \in S : i.user = u

(* Where an invitation goes to a file, or is an approval.                   *)
Filed(o) == o.kind = "invite" => "file" \in o.form.sinks

(* At the commit the file or the approval is out; a string is still to be   *)
(* shown.                                                                   *)
Emitted(o, S) ==
  /\ o.at = "commit" /\ Filed(o) => HandedOut(o.material.user, S)
  /\ o.at = "print" => o.material \in Invites

(* The journal of an older version: its approval is out, and it leads from  *)
(* the first vault to the one with that user.                               *)
FromFirst(j, S) ==
  /\ j \in Journals
  /\ \E u \in Users :
       /\ j.expected = First /\ j.next = Enrolled(First, u, TRUE)
       /\ HandedOut(u, S)

Recovered(o, S) == o.at = "recover" => FromFirst(o.next, S)

Sound(o, S) == Prepared(o) /\ Emitted(o, S) /\ Recovered(o, S)

(* A claim in flight has its user, and the vault it read.                   *)
InFlight(c) == c.at # "idle" => c.user \in Users /\ c.vault \in Ratchets

Inductive ==
  /\ TypeOK
  /\ \A p \in Admins : Sound(op[p], Issued)
  /\ journal # NoJournal => FromFirst(journal, Issued)
  /\ \A m \in Machines : InFlight(claim[m])
  /\ MemberHasInvite

----------------------------------------------------------------------------
(* The operators *)

LEMMA ApplyUpdateFacts ==
  ASSUME NEW r \in Ratchets, NEW v,
         v.secret \in 0..MaxCounter, v.members \subseteq Users, v.deleted \subseteq Users
  PROVE  /\ apply_update(r, v) \in Ratchets
         /\ Covers(apply_update(r, v), r)
<1>1. /\ Larger(r.secret, v.secret) \in 0..MaxCounter
      /\ r.secret <= Larger(r.secret, v.secret)
  BY EnrollmentAssumption DEF Larger, Ratchets
<1> QED
  BY <1>1 DEF apply_update, Covers, Ratchets

LEMMA SeenType ==
  ASSUME NEW v \in Vaults
  PROVE  Seen(v) \in Ratchets
BY DEF Seen, Vaults, Ratchets

LEMMA FirstTypes == First \in Vaults /\ Fresh \in Ratchets /\ First.secret = 0
BY EnrollmentAssumption DEF First, Fresh, Vaults, Ratchets

LEMMA ResealFacts ==
  ASSUME NEW v \in Vaults, v.secret < MaxCounter
  PROVE  /\ Reseal(v) \in Vaults /\ Reseal(v).secret = v.secret + 1
         /\ Reseal(v).members = v.members /\ Reseal(v).deleted = v.deleted
<1>1. v.secret + 1 \in 0..MaxCounter
  BY EnrollmentAssumption DEF Vaults
<1> QED
  BY <1>1 DEF Reseal, Vaults

(* An enrolment adds its user and takes nothing back.                       *)
LEMMA EnrolledFacts ==
  ASSUME NEW v \in Vaults, NEW u \in Users, NEW grant \in BOOLEAN,
         grant => v.secret < MaxCounter
  PROVE  /\ Enrolled(v, u, grant) \in Vaults
         /\ Enrolled(v, u, grant).members = v.members \cup {u}
         /\ Enrolled(v, u, grant).deleted = v.deleted
         /\ Enrolled(v, u, grant).secret >= v.secret
<1> DEFINE joined == [v EXCEPT !.members = @ \cup {u}]
           wider == [joined EXCEPT !.granted = @ \cup {u}]
<1>1. /\ joined \in Vaults /\ joined.members = v.members \cup {u}
      /\ joined.deleted = v.deleted /\ joined.secret = v.secret
      /\ wider \in Vaults /\ wider.members = v.members \cup {u}
      /\ wider.deleted = v.deleted /\ wider.secret = v.secret
  BY DEF Vaults
<1>2. v.secret \in Nat
  BY EnrollmentAssumption DEF Vaults
<1>3. Enrolled(v, u, grant) = IF grant THEN Reseal(wider) ELSE joined
  BY DEF Enrolled
<1> HIDE DEF joined, wider
<1>4. CASE grant
  <2>1. /\ Reseal(wider) \in Vaults /\ Reseal(wider).secret = wider.secret + 1
        /\ Reseal(wider).members = wider.members /\ Reseal(wider).deleted = wider.deleted
    BY <1>1, <1>4, ResealFacts
  <2> QED
    BY <1>1, <1>2, <1>3, <1>4, <2>1
<1>5. CASE ~grant
  BY <1>1, <1>2, <1>3, <1>5
<1> QED
  BY <1>4, <1>5

LEMMA DeletedFacts ==
  ASSUME NEW v \in Vaults, NEW u \in Users
  PROVE  /\ Deleted(v, u) \in Vaults /\ Deleted(v, u).secret = v.secret
         /\ Deleted(v, u).members = v.members \ {u}
         /\ Deleted(v, u).deleted = v.deleted \cup {u}
BY DEF Deleted, Vaults

(* What a commit leaves.                                                    *)
LEMMA CommitTypes ==
  ASSUME TypeOK, NEW STATE v, v \in Vaults, Commit(v)
  PROVE  vault' = v /\ vault' \in Vaults /\ ratchet' \in Ratchets /\ history' \subseteq Ratchets
<1>1. v.secret \in 0..MaxCounter /\ v.members \subseteq Users /\ v.deleted \subseteq Users
  BY DEF Vaults
<1>2. ratchet \in Ratchets /\ history \subseteq Ratchets
  BY DEF TypeOK
<1>3. apply_update(ratchet, v) \in Ratchets
  BY <1>1, <1>2, ApplyUpdateFacts
<1>4. Seen(v) \in Ratchets
  BY SeenType
<1> QED
  BY <1>2, <1>3, <1>4 DEF Commit

(* A valid candidate names a user and a deployment.                         *)
LEMMA CandidateFields ==
  ASSUME NEW c \in Candidates
  PROVE  c.purpose \in JoinPurposeV1 /\ c.deployment \in Machines /\ c.user \in Users
<1>1. PICK m \in Machines, n \in Machines, u \in Users, purpose \in JoinPurposeV1,
           other \in JoinPurposeV1 :
        c = Altered(create_join_candidate(m, u, purpose), n, other)
  BY DEF Candidates
<1> DEFINE d == [purpose |-> purpose, deployment |-> m, user |-> u,
                 entry_point |-> IF purpose = "Enroll" THEN u ELSE NoUser]
           b == [f \in DOMAIN d \cup {"proof"} |-> IF f = "proof" THEN d ELSE d[f]]
<1>2. b = create_join_candidate(m, u, purpose)
  BY DEF create_join_candidate
<1>3. DOMAIN d = {"purpose", "deployment", "user", "entry_point"}
  OBVIOUS
<1>4. DOMAIN b = {"purpose", "deployment", "user", "entry_point", "proof"}
  BY <1>3
<1>5. b["user"] = u
  BY <1>3
<1> HIDE DEF b
<1>6. c = [[b EXCEPT !["deployment"] = n] EXCEPT !["purpose"] = other]
  BY <1>1, <1>2 DEF Altered
<1>7. c["user"] = u /\ c["deployment"] = n /\ c["purpose"] = other
  BY <1>4, <1>5, <1>6
<1> QED
  BY <1>7

----------------------------------------------------------------------------
(* The initial state *)

LEMMA NoOpType ==
  /\ NoOp \in Operations /\ NoOp.at = "idle"
  /\ \A S : Sound(NoOp, S)
BY DEF NoOp, NoForm, Forms, Operations, JoinPurposeV1, NoMaterial, Sound, Prepared, Emitted,
       Recovered

LEMMA NoClaimType == NoClaim \in Claims /\ NoClaim.at = "idle"
BY DEF NoClaim, Claims

LEMMA InitInductive ==
  ASSUME Init
  PROVE  Inductive
<1>1. PICK u \in Users, m \in Machines, left \in BOOLEAN, done \in 0..2 :
        LET next == Enrolled(First, u, TRUE)
        IN  /\ journal = IF left
                         THEN [expected |-> First, memory |-> Fresh, next |-> next,
                               ratchet |-> apply_update(Fresh, next)]
                         ELSE NoJournal
            /\ done # 0 => left
            /\ ratchet = IF done >= 1 THEN apply_update(Fresh, next) ELSE Fresh
            /\ vault = IF done = 2 THEN next ELSE First
            /\ approvals = IF left THEN {JoinApprovalV1(
                               create_join_candidate(m, u, "Enroll"), TRUE, Fresh)} ELSE {}
  BY DEF Init
<1> DEFINE next == Enrolled(First, u, TRUE)
           cand == create_join_candidate(m, u, "Enroll")
           a == JoinApprovalV1(cand, TRUE, Fresh)
<1>2. /\ next \in Vaults /\ next.members = {u}
  <2>1. First \in Vaults /\ First.secret < MaxCounter /\ First.members = {}
    BY FirstTypes, EnrollmentAssumption DEF First
  <2> QED
    BY <2>1, EnrolledFacts
<1>3. apply_update(Fresh, next) \in Ratchets
  <2> HIDE DEF next
  <2> QED
    BY <1>2, FirstTypes, ApplyUpdateFacts DEF Vaults
<1>4. a \in Approvals /\ a.user = u
  <2> DEFINE d == [purpose |-> "Enroll", deployment |-> m, user |-> u, entry_point |-> u]
  <2>1. cand = [f \in DOMAIN d \cup {"proof"} |-> IF f = "proof" THEN d ELSE d[f]]
    BY DEF create_join_candidate
  <2>2. DOMAIN d = {"purpose", "deployment", "user", "entry_point"}
    OBVIOUS
  <2>3. cand["purpose"] = "Enroll" /\ cand["deployment"] = m /\ cand["user"] = u
    BY <2>1, <2>2
  <2> HIDE DEF cand
  <2> QED
    BY <2>3, FirstTypes DEF JoinApprovalV1, Approvals, JoinPurposeV1
<1> HIDE DEF next, a
<1>5. /\ journal = IF left THEN [expected |-> First, memory |-> Fresh, next |-> next,
                                 ratchet |-> apply_update(Fresh, next)]
                   ELSE NoJournal
      /\ done # 0 => left
      /\ ratchet = IF done >= 1 THEN apply_update(Fresh, next) ELSE Fresh
      /\ vault = IF done = 2 THEN next ELSE First
      /\ approvals = IF left THEN {a} ELSE {}
  BY <1>1 DEF next, a
<1>6. vault \in Vaults /\ ratchet \in Ratchets /\ approvals \subseteq Approvals
  BY <1>2, <1>3, <1>4, <1>5, FirstTypes
<1>7. journal \in Journals \cup {NoJournal}
  BY <1>2, <1>3, <1>5, FirstTypes DEF Journals
<1>8. history \subseteq Ratchets
  BY <1>6, SeenType DEF Init
<1>9. TypeOK
  <2>1. op \in [Admins -> Operations] /\ claim \in [Machines -> Claims]
    BY NoOpType, NoClaimType DEF Init
  <2>2. /\ checkout \in [Machines -> Ratchets \cup {NoVault}]
        /\ memory \in [Machines -> Ratchets \cup {NoRatchet}]
        /\ identity \in [Machines -> SUBSET Users]
    BY DEF Init
  <2>3. invites \subseteq Invites /\ unfiled \subseteq Users /\ crashes \in 0..MaxCrashes
    BY EnrollmentAssumption DEF Init
  <2> QED
    BY <1>6, <1>7, <1>8, <2>1, <2>2, <2>3 DEF TypeOK
<1>10. \A p \in Admins : Sound(op[p], Issued)
  BY NoOpType DEF Init
<1>11. left => HandedOut(u, Issued)
  BY <1>4, <1>5 DEF HandedOut, Issued
<1>12. journal # NoJournal => FromFirst(journal, Issued)
  BY <1>5, <1>7, <1>11 DEF FromFirst, next
<1>13. \A n \in Machines : InFlight(claim[n])
  BY NoClaimType DEF Init, InFlight
<1>14. MemberHasInvite
  <2>1. vault.members \subseteq {u} /\ (vault.members # {} => left)
    BY <1>2, <1>5 DEF First
  <2> QED
    BY <1>11, <2>1 DEF MemberHasInvite, HandedOut, Issued
<1> QED
  BY <1>9, <1>10, <1>12, <1>13, <1>14 DEF Inductive

----------------------------------------------------------------------------
(* The administrators *)

(* What has been handed out stays out, and all that rests on it.            *)
LEMMA StaysSound ==
  ASSUME NEW S, NEW T, S \subseteq T
  PROVE  /\ \A u : HandedOut(u, S) => HandedOut(u, T)
         /\ \A j : FromFirst(j, S) => FromFirst(j, T)
         /\ \A o : Sound(o, S) => Sound(o, T)
<1>1. \A u : HandedOut(u, S) => HandedOut(u, T)
  BY DEF HandedOut
<1>2. \A j : FromFirst(j, S) => FromFirst(j, T)
  BY <1>1 DEF FromFirst
<1>3. \A o : Emitted(o, S) => Emitted(o, T)
  BY <1>1 DEF Emitted
<1>4. \A o : Recovered(o, S) => Recovered(o, T)
  BY <1>2 DEF Recovered
<1> QED
  BY <1>1, <1>2, <1>3, <1>4 DEF Sound

(* A step of p: the others stay, and a new member can be let in or was      *)
(* invited without a file.                                                  *)
LEMMA AdminKeeps ==
  ASSUME Inductive, NEW p \in Admins, TypeOK',
         Issued \subseteq Issued', unfiled \subseteq unfiled',
         \A q \in Admins \ {p} : op'[q] = op[q],
         journal' \in {journal, NoJournal}, UNCHANGED claim,
         Sound(op'[p], Issued'),
         \A u \in vault'.members \ vault.members : HandedOut(u, Issued') \/ u \in unfiled'
  PROVE  Inductive'
<1>1. ASSUME NEW q \in Admins
      PROVE  Sound(op'[q], Issued')
  <2>1. CASE q # p
    BY <2>1, StaysSound DEF Inductive
  <2> QED
    BY <2>1
<1>2. journal' # NoJournal => FromFirst(journal', Issued')
  BY StaysSound DEF Inductive
<1>3. \A m \in Machines : InFlight(claim'[m])
  BY DEF Inductive
<1>4. MemberHasInvite'
  <2>1. ASSUME NEW u \in vault'.members
        PROVE  HandedOut(u, Issued') \/ u \in unfiled'
    <3>1. CASE u \notin vault.members
      BY <2>1, <3>1
    <3>2. CASE u \in vault.members
      <4>1. HandedOut(u, Issued) \/ u \in unfiled
        BY <3>2 DEF Inductive, MemberHasInvite, HandedOut, Issued
      <4> QED
        BY <4>1, StaysSound
    <3> QED
      BY <3>1, <3>2
  <2> QED
    BY <2>1 DEF MemberHasInvite, HandedOut, Issued
<1> QED
  BY <1>1, <1>2, <1>3, <1>4 DEF Inductive

LEMMA OpRecord ==
  ASSUME TypeOK, NEW p \in Admins, NEW STATE o, o \in Operations,
         op' = [op EXCEPT ![p] = o]
  PROVE  /\ op' \in [Admins -> Operations] /\ op'[p] = o
         /\ \A q \in Admins \ {p} : op'[q] = op[q]
BY DEF TypeOK

LEMMA SetSecretStep ==
  ASSUME Inductive, NEW p \in Admins, set_secret(p)
  PROVE  Inductive'
<1>1. TypeOK /\ vault \in Vaults /\ vault.secret < MaxCounter
  BY DEF Inductive, TypeOK, set_secret, Room
<1>2. /\ Commit(Reseal(vault)) /\ op[p].at = "idle"
      /\ UNCHANGED <<journal, op, invites, approvals, machine_vars, crashes, unfiled>>
  BY DEF set_secret
<1>3. Reseal(vault) \in Vaults /\ Reseal(vault).members = vault.members
  BY <1>1, ResealFacts
<1>4. /\ vault' = Reseal(vault) /\ vault' \in Vaults /\ ratchet' \in Ratchets
      /\ history' \subseteq Ratchets
  BY <1>1, <1>2, <1>3, CommitTypes
<1>5. TypeOK'
  BY <1>1, <1>2, <1>4 DEF TypeOK, machine_vars
<1>6. Issued' = Issued
  BY <1>2 DEF Issued
<1>7. Sound(op'[p], Issued')
  BY <1>2, <1>6 DEF Inductive
<1> QED
  BY <1>2, <1>3, <1>4, <1>5, <1>6, <1>7, AdminKeeps DEF machine_vars

LEMMA DeleteUserStep ==
  ASSUME Inductive, NEW p \in Admins, NEW u \in Users, delete_user(p, u)
  PROVE  Inductive'
<1>1. TypeOK /\ vault \in Vaults
  BY DEF Inductive, TypeOK
<1>2. /\ Commit(Deleted(vault, u)) /\ op[p].at = "idle"
      /\ UNCHANGED <<journal, op, invites, approvals, machine_vars, crashes, unfiled>>
  BY DEF delete_user
<1>3. Deleted(vault, u) \in Vaults /\ Deleted(vault, u).members \subseteq vault.members
  BY <1>1, DeletedFacts
<1>4. /\ vault' = Deleted(vault, u) /\ vault' \in Vaults /\ ratchet' \in Ratchets
      /\ history' \subseteq Ratchets
  BY <1>1, <1>2, <1>3, CommitTypes
<1>5. TypeOK'
  BY <1>1, <1>2, <1>4 DEF TypeOK, machine_vars
<1>6. Issued' = Issued
  BY <1>2 DEF Issued
<1>7. Sound(op'[p], Issued')
  BY <1>2, <1>6 DEF Inductive
<1> QED
  BY <1>2, <1>3, <1>4, <1>5, <1>6, <1>7, AdminKeeps DEF machine_vars

(* A step of p that changes nothing but its own record.                     *)
LEMMA OwnStep ==
  ASSUME Inductive, NEW p \in Admins, NEW STATE o, o \in Operations,
         op' = [op EXCEPT ![p] = o], Sound(o, Issued),
         UNCHANGED <<vault, ratchet, journal, history, invites, approvals, machine_vars,
                     unfiled>>,
         crashes' \in 0..MaxCrashes
  PROVE  Inductive'
<1>1. TypeOK
  BY DEF Inductive
<1>2. /\ op' \in [Admins -> Operations] /\ op'[p] = o
      /\ \A q \in Admins \ {p} : op'[q] = op[q]
  BY <1>1, OpRecord
<1>3. TypeOK'
  BY <1>1, <1>2 DEF TypeOK, machine_vars
<1>4. Issued' = Issued
  BY DEF Issued
<1> QED
  BY <1>2, <1>3, <1>4, AdminKeeps DEF machine_vars

LEMMA PrepareInviteStep ==
  ASSUME Inductive, NEW p \in Admins, NEW u \in Users, NEW form \in InviteForms,
         prepare_invite_user(p, u, form)
  PROVE  Inductive'
<1> DEFINE next == Enrolled(vault, u, form.grant)
           o == [at |-> "emit", kind |-> "invite", form |-> form,
                 material |-> [user |-> u, baseline |-> ratchet],
                 expected |-> vault, memory |-> ratchet, next |-> next]
<1>1. /\ TypeOK /\ vault \in Vaults /\ ratchet \in Ratchets /\ crashes \in 0..MaxCrashes
      /\ form \in Forms /\ form.grant \in BOOLEAN
      /\ (form.grant => vault.secret < MaxCounter)
  BY EnrollmentAssumption DEF Inductive, TypeOK, prepare_invite_user, Room, Forms
<1>2. next \in Vaults
  BY <1>1, EnrolledFacts
<1>3. op' = [op EXCEPT ![p] = o] /\ op[p].at = "idle"
  BY DEF prepare_invite_user
<1>4. [user |-> u, baseline |-> ratchet] \in Invites
  BY <1>1 DEF Invites
<1>5. o \in Operations
  BY <1>1, <1>2, <1>4 DEF Operations
<1>6. Sound(o, Issued)
  BY <1>1, <1>4 DEF Sound, Prepared, Emitted, Recovered
<1> HIDE DEF o
<1> QED
  BY <1>1, <1>3, <1>5, <1>6, OwnStep DEF prepare_invite_user

LEMMA PlanJoinStep ==
  ASSUME Inductive, NEW p \in Admins, NEW c \in Candidates, NEW grant \in BOOLEAN,
         plan_join_approval(p, c, grant)
  PROVE  Inductive'
<1> DEFINE next == IF c.purpose = "RestoreTrust" THEN vault ELSE Enrolled(vault, c.user, grant)
           a == JoinApprovalV1(c, grant, ratchet)
           o == [at |-> "emit", kind |-> c.purpose, form |-> NoForm,
                 material |-> a, expected |-> vault, memory |-> ratchet, next |-> next]
<1>1. /\ TypeOK /\ vault \in Vaults /\ ratchet \in Ratchets /\ crashes \in 0..MaxCrashes
      /\ (grant => vault.secret < MaxCounter)
  BY DEF Inductive, TypeOK, plan_join_approval, Room
<1>2. c.purpose \in JoinPurposeV1 /\ c.deployment \in Machines /\ c.user \in Users
  BY CandidateFields
<1>3. next \in Vaults
  BY <1>1, <1>2, EnrolledFacts
<1>4. op' = [op EXCEPT ![p] = o] /\ op[p].at = "idle"
  BY DEF plan_join_approval
<1>5. a \in Approvals /\ a.user = c.user
  BY <1>1, <1>2 DEF JoinApprovalV1, Approvals
<1> HIDE DEF a
<1>f. NoForm \in Forms
  BY DEF NoForm, Forms
<1>6. o \in Operations
  BY <1>1, <1>2, <1>3, <1>5, <1>f DEF Operations
<1>7. Sound(o, Issued)
  BY <1>1, <1>2, <1>5 DEF Sound, Prepared, Emitted, Recovered, JoinPurposeV1
<1> HIDE DEF o
<1> QED
  BY <1>1, <1>4, <1>6, <1>7, OwnStep DEF plan_join_approval

LEMMA ReadJournalStep ==
  ASSUME Inductive, NEW p \in Admins, ReadJournal(p)
  PROVE  Inductive'
<1> DEFINE o == [op[p] EXCEPT !.at = "recover", !.next = journal]
<1>1. /\ TypeOK /\ op[p] \in Operations /\ FromFirst(journal, Issued)
      /\ journal \in Journals /\ crashes \in 0..MaxCrashes
  BY DEF Inductive, TypeOK, ReadJournal, join_commit_present
<1>2. op' = [op EXCEPT ![p] = o] /\ op[p].at = "idle"
  BY DEF ReadJournal
<1>3. o \in Operations /\ o.at = "recover" /\ o.next = journal
  BY <1>1 DEF Operations
<1> HIDE DEF o
<1>4. Sound(o, Issued)
  BY <1>1, <1>3 DEF Sound, Prepared, Emitted, Recovered
<1> QED
  BY <1>1, <1>2, <1>3, <1>4, OwnStep DEF ReadJournal

LEMMA WireInvite ==
  ASSUME NEW i \in Invites, NEW include
  PROVE  wire_invite(i, include) \in Invites /\ wire_invite(i, include).user = i.user
BY DEF wire_invite, Invites

LEMMA EmitStep ==
  ASSUME Inductive, NEW p \in Admins, Emit(p)
  PROVE  Inductive'
<1> DEFINE o == [op[p] EXCEPT !.at = "commit"]
           u == op[p].material.user
<1>1. /\ TypeOK /\ op[p] \in Operations /\ op[p].at = "emit"
      /\ Prepared(op[p]) /\ Sound(op[p], Issued)
  BY DEF Inductive, TypeOK, Emit, Sound
<1>2. /\ o \in Operations /\ o.at = "commit" /\ o.kind = op[p].kind /\ o.form = op[p].form
      /\ o.material = op[p].material /\ o.expected = op[p].expected /\ o.next = op[p].next
  BY <1>1 DEF Operations
<1>3. op' = [op EXCEPT ![p] = o]
  BY DEF Emit
<1> HIDE DEF o
<1>4. /\ op' \in [Admins -> Operations] /\ op'[p] = o
      /\ \A q \in Admins \ {p} : op'[q] = op[q]
  BY <1>1, <1>2, <1>3, OpRecord
<1>5. /\ op[p].kind = "invite" => op[p].material \in Invites
      /\ op[p].kind # "invite" => op[p].material \in Approvals /\ "file" \notin op[p].form.sinks
  BY <1>1 DEF Prepared, NoForm
<1>6. op[p].kind = "invite" => invite_bytes(p) \in Invites /\ invite_bytes(p).user = u
  BY <1>5, WireInvite DEF invite_bytes
<1>7. invites \subseteq Invites /\ approvals \subseteq Approvals
  BY <1>1 DEF TypeOK
<1>8. invites \subseteq invites' /\ invites' \subseteq Invites
  BY <1>5, <1>6, <1>7 DEF Emit
<1>9. approvals \subseteq approvals' /\ approvals' \subseteq Approvals
  BY <1>5, <1>7 DEF Emit
<1>10. Issued \subseteq Issued'
  BY <1>8, <1>9 DEF Issued
<1>11. UNCHANGED <<vault, ratchet, journal, history, machine_vars, crashes, unfiled>>
  BY DEF Emit
<1>12. TypeOK'
  BY <1>1, <1>4, <1>8, <1>9, <1>11 DEF TypeOK, machine_vars
<1>13. Filed(op[p]) => HandedOut(u, Issued')
  <2>1. CASE op[p].kind = "invite"
    BY <1>6, <2>1 DEF HandedOut, Issued, Emit, Filed
  <2>2. CASE op[p].kind # "invite"
    BY <2>2 DEF HandedOut, Issued, Emit
  <2> QED
    BY <2>1, <2>2
<1>14. Prepared(o)
  BY <1>1, <1>2 DEF Prepared
<1>15. Emitted(o, Issued') /\ Recovered(o, Issued')
  BY <1>2, <1>13 DEF Emitted, Recovered, Filed
<1> QED
  BY <1>1, <1>4, <1>10, <1>11, <1>12, <1>14, <1>15, AdminKeeps DEF Sound, machine_vars

(* What is prepared takes effect on the vault it was prepared against.      *)
LEMMA PreparedTakesEffect ==
  ASSUME Inductive, NEW p \in Admins, op[p].at = "commit", ~Stale(p),
         op[p].kind # "RestoreTrust"
  PROVE  /\ op[p].next \in Vaults
         /\ op[p].next.members = vault.members \cup {op[p].material.user}
         /\ op[p].next.deleted = vault.deleted
         /\ op[p].next.secret >= vault.secret
<1>1. Prepared(op[p]) /\ vault = op[p].expected
  BY DEF Inductive, Sound, Stale
<1>2. PICK grant \in BOOLEAN :
        /\ grant => vault.secret < MaxCounter
        /\ op[p].next = Enrolled(vault, op[p].material.user, grant)
  BY <1>1 DEF Prepared
<1>3. op[p].material.user \in Users /\ vault \in Vaults
  BY <1>1 DEF Prepared
<1> QED
  BY <1>2, <1>3, EnrolledFacts

LEMMA CommitPreparedStep ==
  ASSUME Inductive, NEW p \in Admins, CommitPrepared(p)
  PROVE  Inductive'
<1> DEFINE u == op[p].material.user
           o == IF op[p].kind = "invite" THEN [op[p] EXCEPT !.at = "print"] ELSE NoOp
<1>1. /\ TypeOK /\ op[p] \in Operations /\ op[p].at = "commit" /\ crashes \in 0..MaxCrashes
      /\ Prepared(op[p]) /\ Emitted(op[p], Issued)
      /\ UNCHANGED <<journal, invites, approvals, machine_vars, crashes>>
  BY DEF Inductive, TypeOK, CommitPrepared, Sound
<1>2. CASE Stale(p)
  <2>1. op' = [op EXCEPT ![p] = NoOp] /\ UNCHANGED <<vault, ratchet, history, unfiled>>
    BY <1>2 DEF CommitPrepared
  <2> QED
    BY <1>1, <2>1, NoOpType, OwnStep DEF machine_vars
<1>3. CASE ~Stale(p)
  <2>1. /\ op' = [op EXCEPT ![p] = o]
        /\ IF op[p].kind = "RestoreTrust" THEN UNCHANGED <<vault, ratchet, history>>
                                          ELSE Commit(op[p].next)
        /\ unfiled' = IF op[p].kind = "invite" /\ "file" \notin op[p].form.sinks
                      THEN unfiled \cup {u} ELSE unfiled
    BY <1>3 DEF CommitPrepared
  <2>2. op[p].kind = "invite" => op[p].material \in Invites
    BY <1>1 DEF Prepared
  <2>3. o \in Operations /\ Sound(o, Issued)
    <3>1. CASE op[p].kind = "invite"
      <4>1. o \in Operations /\ o.at = "print" /\ o.material = op[p].material
        BY <1>1, <3>1 DEF Operations
      <4> HIDE DEF o
      <4> QED
        BY <2>2, <3>1, <4>1 DEF Sound, Prepared, Emitted, Recovered
    <3>2. CASE op[p].kind # "invite"
      BY <3>2, NoOpType
    <3> QED
      BY <3>1, <3>2
  <2> HIDE DEF o
  <2>4. /\ op' \in [Admins -> Operations] /\ op'[p] = o
        /\ \A q \in Admins \ {p} : op'[q] = op[q]
    BY <1>1, <2>1, <2>3, OpRecord
  <2>5. Issued' = Issued
    BY <1>1 DEF Issued
  <2>6. CASE op[p].kind = "RestoreTrust"
    BY <1>1, <2>1, <2>3, <2>6, OwnStep DEF machine_vars
  <2>7. CASE op[p].kind # "RestoreTrust"
    <3>1. /\ op[p].next \in Vaults /\ op[p].next.members = vault.members \cup {u}
      BY <1>1, <1>3, <2>7, PreparedTakesEffect
    <3>2. /\ vault' = op[p].next /\ vault' \in Vaults /\ ratchet' \in Ratchets
          /\ history' \subseteq Ratchets
      BY <1>1, <2>1, <2>7, <3>1, CommitTypes
    <3>4. u \in Users /\ unfiled' \subseteq unfiled \cup {u} /\ unfiled \subseteq unfiled'
      BY <1>1, <2>1 DEF Prepared
    <3>3. TypeOK'
      BY <1>1, <2>4, <3>2, <3>4 DEF TypeOK, machine_vars
    <3>5. HandedOut(u, Issued') \/ u \in unfiled'
      BY <1>1, <2>1, <2>5 DEF Emitted, Filed
    <3>6. Sound(op'[p], Issued')
      BY <2>3, <2>4, <2>5
    <3>7. \A w \in vault'.members \ vault.members : w = u
      BY <3>1, <3>2
    <3> QED
      BY <1>1, <2>4, <2>5, <3>3, <3>4, <3>5, <3>6, <3>7, AdminKeeps DEF machine_vars
  <2> QED
    BY <2>6, <2>7
<1> QED
  BY <1>2, <1>3

LEMMA PrintInviteStep ==
  ASSUME Inductive, NEW p \in Admins, PrintInvite(p)
  PROVE  Inductive'
<1> DEFINE i == encode_invite(p)
<1>1. TypeOK /\ op[p].at = "print" /\ op[p].material \in Invites
  BY DEF Inductive, PrintInvite, Sound, Emitted
<1>2. i \in Invites
  BY <1>1, WireInvite DEF encode_invite
<1>3. /\ invites' \in {invites, invites \cup {i}} /\ op' = [op EXCEPT ![p] = NoOp]
      /\ UNCHANGED <<vault, ratchet, journal, history, approvals, machine_vars, crashes, unfiled>>
  BY DEF PrintInvite
<1> HIDE DEF i
<1>4. /\ op' \in [Admins -> Operations] /\ op'[p] = NoOp
      /\ \A q \in Admins \ {p} : op'[q] = op[q]
  BY <1>1, <1>3, NoOpType, OpRecord
<1>5. TypeOK'
  BY <1>1, <1>2, <1>3, <1>4 DEF TypeOK, machine_vars
<1>6. Issued \subseteq Issued'
  BY <1>3 DEF Issued
<1>7. Sound(op'[p], Issued')
  BY <1>4, NoOpType
<1> QED
  BY <1>3, <1>4, <1>5, <1>6, <1>7, AdminKeeps DEF machine_vars

(* A recovery finds the first vault or the one its journal leads to.        *)
LEMMA RecoveryLeads ==
  ASSUME Inductive, NEW p \in Admins, op[p].at = "recover",
         vault \in {op[p].next.expected, op[p].next.next}
  PROVE  /\ op[p].next \in Journals
         /\ op[p].next.next.secret >= vault.secret
         /\ vault.members \subseteq op[p].next.next.members
         /\ vault.deleted \subseteq op[p].next.next.deleted
         /\ \A u \in op[p].next.next.members : HandedOut(u, Issued)
<1>1. FromFirst(op[p].next, Issued)
  BY DEF Inductive, Sound, Recovered
<1>2. PICK u \in Users : /\ op[p].next.expected = First
                         /\ op[p].next.next = Enrolled(First, u, TRUE)
                         /\ HandedOut(u, Issued)
  BY <1>1 DEF FromFirst
<1>3. First \in Vaults /\ First.secret < MaxCounter /\ First.members = {} /\ First.deleted = {}
  BY FirstTypes, EnrollmentAssumption DEF First
<1> DEFINE next == Enrolled(First, u, TRUE)
<1>4. /\ next \in Vaults /\ next.members = {u} /\ next.deleted = {}
      /\ next.secret >= First.secret
  BY <1>3, EnrolledFacts
<1> HIDE DEF next
<1>5. next.secret \in Nat
  BY <1>4, EnrollmentAssumption DEF Vaults
<1>6. op[p].next.expected = First /\ op[p].next.next = next
  BY <1>2 DEF next
<1>7. vault \in {First, next}
  BY <1>6
<1>8. next.secret >= vault.secret
  BY <1>4, <1>5, <1>7
<1>9. vault.members \subseteq next.members /\ vault.deleted \subseteq next.deleted
  BY <1>3, <1>4, <1>7
<1>10. \A w \in next.members : HandedOut(w, Issued)
  BY <1>2, <1>4
<1> QED
  BY <1>1, <1>6, <1>8, <1>9, <1>10 DEF FromFirst

LEMMA CompleteJoinStep ==
  ASSUME Inductive, NEW p \in Admins, complete_join_commit(p)
  PROVE  Inductive'
<1> DEFINE j == op[p].next
<1>1. /\ TypeOK /\ op[p].at = "recover" /\ op' = [op EXCEPT ![p] = NoOp]
      /\ UNCHANGED <<invites, approvals, machine_vars, crashes, unfiled>>
      /\ crashes \in 0..MaxCrashes
  BY DEF Inductive, TypeOK, complete_join_commit
<1>2. CASE UNCHANGED <<vault, ratchet, history, journal>>
  BY <1>1, <1>2, NoOpType, OwnStep DEF machine_vars
<1>3. CASE /\ vault \in {j.expected, j.next}
           /\ vault' = j.next /\ ratchet' = j.ratchet
           /\ history' = history \cup {Seen(j.next)}
           /\ journal' = NoJournal
  <2>1. j \in Journals /\ \A u \in j.next.members : HandedOut(u, Issued)
    BY <1>1, <1>3, RecoveryLeads
  <2>2. j.next \in Vaults /\ j.ratchet \in Ratchets
    BY <2>1 DEF Journals
  <2>3. Seen(j.next) \in Ratchets
    BY <2>2, SeenType
  <2>4. /\ op' \in [Admins -> Operations] /\ op'[p] = NoOp
        /\ \A q \in Admins \ {p} : op'[q] = op[q]
    BY <1>1, NoOpType, OpRecord
  <2>5. TypeOK'
    BY <1>1, <1>3, <2>2, <2>3, <2>4 DEF TypeOK, machine_vars
  <2>6. Issued' = Issued
    BY <1>1 DEF Issued
  <2>7. Sound(op'[p], Issued')
    BY <2>4, NoOpType
  <2> QED
    BY <1>1, <1>3, <2>1, <2>4, <2>5, <2>6, <2>7, AdminKeeps DEF machine_vars
<1> QED
  BY <1>2, <1>3 DEF complete_join_commit

LEMMA CrashStep ==
  ASSUME Inductive, NEW p \in Admins, Crash(p)
  PROVE  Inductive'
<1>1. /\ TypeOK /\ op' = [op EXCEPT ![p] = NoOp]
      /\ UNCHANGED <<vault, ratchet, journal, history, invites, approvals, machine_vars, unfiled>>
  BY DEF Inductive, Crash
<1>2. crashes' \in 0..MaxCrashes
  BY <1>1, EnrollmentAssumption DEF TypeOK, Crash
<1> QED
  BY <1>1, <1>2, NoOpType, OwnStep

----------------------------------------------------------------------------
(* The machines: their steps leave the administrators alone. *)

LEMMA MachineKeeps ==
  ASSUME Inductive, UNCHANGED <<admin_vars, crashes, unfiled>>,
         checkout' \in [Machines -> Ratchets \cup {NoVault}],
         memory' \in [Machines -> Ratchets \cup {NoRatchet}],
         identity' \in [Machines -> SUBSET Users],
         claim' \in [Machines -> Claims],
         \A m \in Machines : InFlight(claim'[m])
  PROVE  Inductive'
<1>1. TypeOK'
  BY DEF Inductive, TypeOK, admin_vars
<1>2. Issued' = Issued
  BY DEF Issued, admin_vars
<1>3. /\ \A p \in Admins : Sound(op'[p], Issued')
      /\ journal' # NoJournal => FromFirst(journal', Issued')
  BY <1>2 DEF Inductive, admin_vars
<1>4. MemberHasInvite'
  BY DEF Inductive, MemberHasInvite, admin_vars
<1> QED
  BY <1>1, <1>3, <1>4 DEF Inductive

LEMMA EndClaimFacts ==
  ASSUME Inductive, NEW m \in Machines, EndClaim(m)
  PROVE  /\ claim' \in [Machines -> Claims]
         /\ \A n \in Machines : InFlight(claim'[n])
BY NoClaimType DEF Inductive, TypeOK, EndClaim, InFlight

(* What a claim remembers covers what it was held against.                  *)
LEMMA ClaimedMemory ==
  ASSUME Inductive, NEW m \in Machines, claim[m].at # "idle"
  PROVE  /\ apply_update(ClaimRatchet(m), claim[m].vault) \in Ratchets
         /\ Covers(apply_update(ClaimRatchet(m), claim[m].vault), ClaimRatchet(m))
<1>1. claim[m].vault \in Ratchets /\ claim[m] \in Claims
  BY DEF Inductive, TypeOK, InFlight
<1>2. claim[m].baseline \in Ratchets \cup {NoBaseline}
  BY <1>1 DEF Claims
<1>3. memory[m] \in Ratchets \cup {NoRatchet}
  BY DEF Inductive, TypeOK
<1>4. ClaimRatchet(m) \in Ratchets
  BY <1>2, <1>3, FirstTypes DEF ClaimRatchet, seed_ratchet_from_optional_baseline
<1>5. /\ claim[m].vault.secret \in 0..MaxCounter
      /\ claim[m].vault.members \subseteq Users /\ claim[m].vault.deleted \subseteq Users
  BY <1>1 DEF Ratchets
<1> QED
  BY <1>4, <1>5, ApplyUpdateFacts

LEMMA DeliverStep ==
  ASSUME Inductive, NEW m \in Machines, NEW v \in history, NEW w \in history, Deliver(m, v, w)
  PROVE  Inductive'
<1>1. v \in Ratchets /\ w \in Ratchets /\ TypeOK
  BY DEF Inductive, TypeOK
<1>2. [v EXCEPT !.secret = w.secret] \in Ratchets
  BY <1>1 DEF Ratchets
<1>3. checkout' \in [Machines -> Ratchets \cup {NoVault}]
  BY <1>1, <1>2 DEF Deliver, TypeOK
<1>4. UNCHANGED <<admin_vars, memory, identity, claim, crashes, unfiled>>
  BY DEF Deliver
<1>5. \A n \in Machines : InFlight(claim[n])
  BY DEF Inductive
<1> QED
  BY <1>1, <1>3, <1>4, <1>5, MachineKeeps DEF TypeOK

LEMMA LoadStep ==
  ASSUME Inductive, NEW m \in Machines, load(m)
  PROVE  Inductive'
<1>1. TypeOK /\ memory[m] \in Ratchets /\ checkout[m] \in Ratchets
  BY DEF Inductive, TypeOK, load
<1>2. apply_update(memory[m], checkout[m]) \in Ratchets
  <2>1. /\ checkout[m].secret \in 0..MaxCounter
        /\ checkout[m].members \subseteq Users /\ checkout[m].deleted \subseteq Users
    BY <1>1 DEF Ratchets
  <2> QED
    BY <1>1, <2>1, ApplyUpdateFacts
<1>3. memory' \in [Machines -> Ratchets \cup {NoRatchet}]
  BY <1>1, <1>2 DEF load, TypeOK
<1>4. UNCHANGED <<admin_vars, checkout, identity, claim, crashes, unfiled>>
  BY DEF load
<1>5. \A n \in Machines : InFlight(claim[n])
  BY DEF Inductive
<1> QED
  BY <1>1, <1>3, <1>4, <1>5, MachineKeeps DEF TypeOK

LEMMA BeginStep ==
  ASSUME Inductive, NEW m \in Machines, NEW at \in {"claim", "bootstrap", "join"},
         NEW user \in Users, NEW baseline \in Ratchets \cup {NoBaseline},
         Begin(m, at, user, baseline)
  PROVE  Inductive'
<1> DEFINE c == [at |-> at, user |-> user, baseline |-> baseline, vault |-> checkout[m]]
<1>1. TypeOK /\ checkout[m] \in Ratchets
  BY DEF Inductive, TypeOK, Begin
<1>2. c \in Claims /\ InFlight(c)
  BY <1>1 DEF Claims, InFlight
<1>3. /\ claim' = [claim EXCEPT ![m] = c]
      /\ UNCHANGED <<admin_vars, checkout, memory, identity, crashes, unfiled>>
  BY DEF Begin
<1> HIDE DEF c
<1>4. claim' \in [Machines -> Claims]
  BY <1>1, <1>2, <1>3 DEF TypeOK
<1>5. \A n \in Machines : InFlight(claim'[n])
  BY <1>1, <1>2, <1>3 DEF Inductive, TypeOK
<1> QED
  BY <1>1, <1>3, <1>4, <1>5, MachineKeeps DEF TypeOK

LEMMA ClaimInviteStep ==
  ASSUME Inductive, NEW m \in Machines, claim_invite_with_keychain(m)
  PROVE  Inductive'
<1>1. /\ TypeOK /\ claim[m].at = "claim"
      /\ UNCHANGED <<admin_vars, checkout, identity, crashes, unfiled>>
  BY DEF Inductive, claim_invite_with_keychain
<1>2. CASE EndClaim(m) /\ UNCHANGED memory
  BY <1>1, <1>2, EndClaimFacts, MachineKeeps DEF TypeOK
<1>3. CASE /\ memory' = [memory EXCEPT ![m] = apply_update(ClaimRatchet(m), claim[m].vault)]
           /\ claim' = [claim EXCEPT ![m].at = "store"]
  <2>1. memory' \in [Machines -> Ratchets \cup {NoRatchet}]
    BY <1>1, <1>3, ClaimedMemory DEF TypeOK
  <2>2. claim[m] \in Claims /\ claim[m].user \in Users /\ claim[m].vault \in Ratchets
    BY <1>1 DEF TypeOK, Inductive, InFlight
  <2>3. /\ [claim[m] EXCEPT !.at = "store"] \in Claims
        /\ InFlight([claim[m] EXCEPT !.at = "store"])
    BY <2>2 DEF Claims, InFlight
  <2>4. claim' = [claim EXCEPT ![m] = [claim[m] EXCEPT !.at = "store"]]
    BY <1>3
  <2>5. claim' \in [Machines -> Claims]
    BY <1>1, <2>3, <2>4 DEF TypeOK
  <2>6. \A n \in Machines : InFlight(claim'[n])
    BY <1>1, <2>3, <2>4 DEF TypeOK, Inductive
  <2> QED
    BY <1>1, <2>1, <2>5, <2>6, MachineKeeps DEF TypeOK
<1> QED
  BY <1>2, <1>3 DEF claim_invite_with_keychain

LEMMA SaveIdentityStep ==
  ASSUME Inductive, NEW m \in Machines, save_identity_with_keychain(m)
  PROVE  Inductive'
<1>1. /\ TypeOK /\ claim[m].at = "store" /\ EndClaim(m)
      /\ UNCHANGED <<admin_vars, checkout, memory, crashes, unfiled>>
  BY DEF Inductive, save_identity_with_keychain
<1>2. claim[m].user \in Users /\ claim[m].at # "idle"
  BY <1>1 DEF Inductive, InFlight
<1>3. identity' \in [Machines -> SUBSET Users]
  BY <1>1, <1>2 DEF TypeOK, save_identity_with_keychain
<1> QED
  BY <1>1, <1>3, EndClaimFacts, MachineKeeps DEF TypeOK

(* The claims of a controller and of CI: a memory is written or not, and    *)
(* the claim is over.                                                       *)
LEMMA TrustStep ==
  ASSUME Inductive, NEW m \in Machines, claim[m].at # "idle", EndClaim(m),
         UNCHANGED <<admin_vars, checkout, identity, crashes, unfiled>>,
         \/ UNCHANGED memory
         \/ memory' = [memory EXCEPT ![m] = apply_update(ClaimRatchet(m), claim[m].vault)]
  PROVE  Inductive'
<1>1. TypeOK
  BY DEF Inductive
<1>2. memory' \in [Machines -> Ratchets \cup {NoRatchet}]
  BY <1>1, ClaimedMemory DEF TypeOK
<1> QED
  BY <1>1, <1>2, EndClaimFacts, MachineKeeps DEF TypeOK

----------------------------------------------------------------------------
(* Every step, and the theorems *)

LEMMA AdministerStep ==
  ASSUME Inductive, NEW p \in Admins, Administer(p)
  PROVE  Inductive'
<1>1. CASE \E u \in Users : \/ delete_user(p, u)
                            \/ \E form \in InviteForms : prepare_invite_user(p, u, form)
  BY <1>1, DeleteUserStep, PrepareInviteStep
<1>2. CASE \E c \in Candidates, grant \in BOOLEAN : plan_join_approval(p, c, grant)
  BY <1>2, PlanJoinStep
<1>3. CASE set_secret(p) \/ Emit(p) \/ CommitPrepared(p) \/ PrintInvite(p)
  BY <1>3, SetSecretStep, EmitStep, CommitPreparedStep, PrintInviteStep
<1>4. CASE ReadJournal(p) \/ complete_join_commit(p) \/ Crash(p)
  BY <1>4, ReadJournalStep, CompleteJoinStep, CrashStep
<1> QED
  BY <1>1, <1>2, <1>3, <1>4 DEF Administer

LEMMA JoinStep ==
  ASSUME Inductive, NEW m \in Machines, Join(m)
  PROVE  Inductive'
<1>1. CASE \E v, w \in history : Deliver(m, v, w)
  BY <1>1, DeliverStep
<1>2. CASE load(m)
  BY <1>2, LoadStep
<1>3. ASSUME NEW i \in invites, read_invite(m, i) \/ maybe_bootstrap_ci_trust(m, i)
      PROVE  Inductive'
  <2>1. i.user \in Users /\ i.baseline \in Ratchets \cup {NoBaseline}
    BY DEF Inductive, TypeOK, Invites
  <2> QED
    BY <1>3, <2>1, BeginStep DEF read_invite, maybe_bootstrap_ci_trust
<1>4. ASSUME NEW a \in approvals, open_join_baseline(m, a)
      PROVE  Inductive'
  <2>1. a.user \in Users /\ a.baseline \in Ratchets \cup {NoBaseline}
    BY DEF Inductive, TypeOK, Approvals
  <2> QED
    BY <1>4, <2>1, BeginStep DEF open_join_baseline
<1>5. CASE claim_invite_with_keychain(m) \/ save_identity_with_keychain(m)
  BY <1>5, ClaimInviteStep, SaveIdentityStep
<1>6. CASE ensure_ratchet_from_invite(m)
  BY <1>6, TrustStep DEF ensure_ratchet_from_invite
<1>7. CASE JoinTrust(m)
  BY <1>7, TrustStep DEF JoinTrust
<1> QED
  BY <1>1, <1>2, <1>3, <1>4, <1>5, <1>6, <1>7 DEF Join

LEMMA NextInductive ==
  ASSUME Inductive, [Next]_vars
  PROVE  Inductive'
<1>1. CASE UNCHANGED vars
  <2>1. UNCHANGED <<admin_vars, machine_vars, crashes, unfiled>>
    BY <1>1 DEF vars
  <2> QED
    BY <2>1, MachineKeeps DEF machine_vars, Inductive, TypeOK
<1> QED
  BY <1>1, AdministerStep, JoinStep DEF Next

(* The inductive invariant holds in every state: a prepared invitation or   *)
(* approval enrols its user in the vault it was prepared against, its file  *)
(* is out by the commit, and the journal of an older version leads from the *)
(* first vault to the one its approval is for.                              *)
THEOREM Invariance == Spec => []Inductive
BY InitInductive, NextInductive, PTL DEF Spec

(* The type invariant: the counters stay within the bounds, and whatever is *)
(* handed out or remembered is an invitation, an approval or a ratchet.     *)
THEOREM TypesCorrect == Spec => []TypeOK
<1>1. Inductive => TypeOK
  BY DEF Inductive
<1> QED
  BY <1>1, Invariance, PTL

(* A member that was invited to a file, or approved, has the file or the    *)
(* approval, whatever dies, fails or is refused in between                  *)
(* (prepare_invite_user, commit_invite_user, recover_join_commit).          *)
THEOREM NobodyLockedOut == Spec => []MemberHasInvite
<1>1. Inductive => MemberHasInvite
  BY DEF Inductive
<1> QED
  BY <1>1, Invariance, PTL

LEMMA VaultGrows ==
  ASSUME Inductive, [Next]_vars
  PROVE  /\ vault'.secret >= vault.secret
         /\ vault.members \subseteq vault'.members \cup vault'.deleted
         /\ vault.deleted \subseteq vault'.deleted
<1>1. TypeOK /\ vault \in Vaults /\ vault.secret \in Nat
  BY EnrollmentAssumption DEF Inductive, TypeOK, Vaults
<1>2. CASE vault' = vault
  BY <1>1, <1>2
<1>3. ASSUME NEW p \in Admins, set_secret(p)
      PROVE  /\ vault'.secret >= vault.secret
             /\ vault'.members = vault.members /\ vault'.deleted = vault.deleted
  <2>1. vault' = Reseal(vault) /\ vault.secret < MaxCounter
    BY <1>3 DEF set_secret, Commit, Room
  <2> QED
    BY <1>1, <2>1, ResealFacts
<1>4. ASSUME NEW p \in Admins, NEW u \in Users, delete_user(p, u)
      PROVE  /\ vault'.secret >= vault.secret
             /\ vault.members \subseteq vault'.members \cup vault'.deleted
             /\ vault.deleted \subseteq vault'.deleted
  <2>1. vault' = Deleted(vault, u)
    BY <1>4 DEF delete_user, Commit
  <2> QED
    BY <1>1, <2>1, DeletedFacts
<1>5. ASSUME NEW p \in Admins, CommitPrepared(p)
      PROVE  \/ vault' = vault
             \/ /\ vault'.secret >= vault.secret
                /\ vault.members \subseteq vault'.members /\ vault'.deleted = vault.deleted
  <2>1. CASE Stale(p) \/ op[p].kind = "RestoreTrust"
    BY <1>5, <2>1 DEF CommitPrepared
  <2>2. CASE ~Stale(p) /\ op[p].kind # "RestoreTrust"
    <3>1. vault' = op[p].next /\ op[p].at = "commit"
      BY <1>5, <2>2 DEF CommitPrepared, Commit
    <3> QED
      BY <2>2, <3>1, PreparedTakesEffect
  <2> QED
    BY <2>1, <2>2
<1>6. ASSUME NEW p \in Admins, complete_join_commit(p)
      PROVE  \/ vault' = vault
             \/ /\ vault'.secret >= vault.secret
                /\ vault.members \subseteq vault'.members
                /\ vault.deleted \subseteq vault'.deleted
  <2>1. \/ vault' = vault
        \/ /\ op[p].at = "recover" /\ vault' = op[p].next.next
           /\ vault \in {op[p].next.expected, op[p].next.next}
    BY <1>6 DEF complete_join_commit
  <2> QED
    BY <2>1, RecoveryLeads
<1>7. ASSUME NEW p \in Admins, Administer(p)
      PROVE  \/ vault' = vault
             \/ set_secret(p) \/ (\E u \in Users : delete_user(p, u))
             \/ CommitPrepared(p) \/ complete_join_commit(p)
  BY <1>7 DEF Administer, prepare_invite_user, plan_join_approval, Emit, PrintInvite,
              ReadJournal, Crash
<1>8. ASSUME NEW m \in Machines, Join(m)
      PROVE  vault' = vault
  BY <1>8 DEF Join, Deliver, load, Begin, read_invite, maybe_bootstrap_ci_trust,
              open_join_baseline, claim_invite_with_keychain, save_identity_with_keychain,
              ensure_ratchet_from_invite, JoinTrust, admin_vars
<1>9. CASE UNCHANGED vars
  BY <1>2, <1>9 DEF vars, admin_vars
<1> QED
  BY <1>2, <1>3, <1>4, <1>5, <1>6, <1>7, <1>8, <1>9 DEF Next

(* No commit, recovery or retry takes back what another one had committed:  *)
(* a stale preparation is refused, a recovery finds the vault before or     *)
(* after its own change (commit_if_unchanged, recover_join_commit).         *)
THEOREM NothingTakenBack == Spec => NoLostWrite
<1>1. Inductive /\ [Next]_vars =>
        [/\ vault'.secret >= vault.secret
         /\ vault.members \subseteq vault'.members \cup vault'.deleted
         /\ vault.deleted \subseteq vault'.deleted]_vars
  BY VaultGrows
<1> QED
  BY <1>1, Invariance, PTL DEF Spec, NoLostWrite

(* What a vault has that is not behind a ratchet is not behind it once the  *)
(* ratchet has taken it in.                                                 *)
LEMMA AcceptedIsRemembered ==
  ASSUME NEW r \in Ratchets, NEW v \in Ratchets, ~has_suspected_rollback(v, r)
  PROVE  ~has_suspected_rollback(v, apply_update(r, v))
<1>1. r.secret \in Nat /\ v.secret \in Nat /\ Larger(r.secret, v.secret) = v.secret
  BY EnrollmentAssumption DEF Ratchets, has_suspected_rollback, Larger
<1>2. /\ apply_update(r, v).secret = v.secret
      /\ apply_update(r, v).members = r.members \cup v.members
      /\ apply_update(r, v).deleted = r.deleted \cup v.deleted
  BY <1>1 DEF apply_update
<1> QED
  BY <1>1, <1>2 DEF has_suspected_rollback

LEMMA FirstMemory ==
  ASSUME Inductive, [Next]_vars, NEW m \in Machines, Accepts(m)
  PROVE  /\ ~has_suspected_rollback(claim[m].vault, memory'[m])
         /\ (memory[m] = NoRatchet /\ claim[m].baseline # NoBaseline) =>
               Covers(memory'[m], claim[m].baseline)
<1>1. /\ memory \in [Machines -> Ratchets \cup {NoRatchet}] /\ claim \in [Machines -> Claims]
      /\ claim' # claim
  BY DEF Inductive, TypeOK, Accepts
<1>2. (memory[m] = NoRatchet /\ claim[m].baseline # NoBaseline) =>
        ClaimRatchet(m) = claim[m].baseline
  BY DEF ClaimRatchet, seed_ratchet_from_optional_baseline
<1>3. PICK n \in Machines : Join(n)
  BY <1>1 DEF Next, vars, machine_vars, Administer, set_secret, delete_user,
              prepare_invite_user, plan_join_approval, Emit, CommitPrepared, PrintInvite,
              ReadJournal, complete_join_commit, Crash
<1>4. \/ UNCHANGED memory /\ EndClaim(n)
      \/ UNCHANGED memory /\ claim[n].at = "idle"
           /\ \E c : c.at # "store" /\ claim' = [claim EXCEPT ![n] = c]
      \/ /\ claim[n].at # "idle" /\ ~Refused(n)
         /\ memory' = [memory EXCEPT ![n] = apply_update(ClaimRatchet(n), claim[n].vault)]
         /\ \E c : claim' = [claim EXCEPT ![n] = c]
  <2>1. CASE \/ \E i \in invites : read_invite(n, i) \/ maybe_bootstrap_ci_trust(n, i)
             \/ \E a \in approvals : open_join_baseline(n, a)
    BY <2>1 DEF Begin, read_invite, maybe_bootstrap_ci_trust, open_join_baseline
  <2>2. CASE claim_invite_with_keychain(n)
    BY <2>2 DEF claim_invite_with_keychain
  <2>3. CASE save_identity_with_keychain(n)
    BY <2>3 DEF save_identity_with_keychain
  <2>4. CASE JoinTrust(n)
    BY <2>4 DEF JoinTrust, EndClaim
  <2>5. CASE ensure_ratchet_from_invite(n)
    BY <2>5 DEF ensure_ratchet_from_invite, EndClaim
  <2> QED
    BY <1>1, <1>3, <2>1, <2>2, <2>3, <2>4, <2>5 DEF Join, Deliver, load
<1>5. n = m
  BY <1>1, <1>4 DEF Accepts, EndClaim
<1>6. /\ claim[m].at # "idle" /\ ~Refused(m)
      /\ memory'[m] = apply_update(ClaimRatchet(m), claim[m].vault)
  BY <1>1, <1>4, <1>5, NoClaimType DEF Accepts, EndClaim
<1>7. claim[m].vault \in Ratchets /\ ClaimRatchet(m) \in Ratchets
  <2>1. claim[m].baseline \in Ratchets \cup {NoBaseline}
    BY <1>1 DEF Claims
  <2> QED
    BY <1>1, <1>6, <2>1, FirstTypes
       DEF Inductive, InFlight, ClaimRatchet, seed_ratchet_from_optional_baseline
<1>8. ~has_suspected_rollback(claim[m].vault, memory'[m])
  BY <1>6, <1>7, AcceptedIsRemembered DEF Refused
<1> QED
  BY <1>2, <1>6, <1>8, ClaimedMemory

(* A claim, a CI bootstrap and a join accept no vault that is behind what   *)
(* the machine remembers afterwards, and its first memory is at least what  *)
(* the issuer had seen (claim_invite_with_keychain,                         *)
(* ensure_ratchet_from_invite, seed_ratchet_from_optional_baseline).        *)
THEOREM TrustStartsAtIssuer == Spec => FirstMemoryFromIssuer
<1>1. Inductive /\ [Next]_vars =>
        [\A m \in Machines : Accepts(m) =>
           /\ ~has_suspected_rollback(claim[m].vault, memory'[m])
           /\ (memory[m] = NoRatchet /\ claim[m].baseline # NoBaseline) =>
                 Covers(memory'[m], claim[m].baseline)]_vars
  BY FirstMemory
<1> QED
  BY <1>1, Invariance, PTL DEF Spec, FirstMemoryFromIssuer
=============================================================================
