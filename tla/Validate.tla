------------------------------ MODULE Validate ------------------------------
(***************************************************************************)
(* What a vault means to a machine (crates/thorax-core/src/validate): the  *)
(* two resolution passes of validate_v1, rollback detection against the    *)
(* machine's ratchet, last-writer-wins with ties left contested, and the   *)
(* queries on the result.                                                  *)
(*                                                                         *)
(* A vault is a set of signed records.  Records here are secret values,    *)
(* secret deletions, grants and grant deletions.  Only the root issues     *)
(* grants, each of write (which implies read) over every secret, so the    *)
(* authority fixpoint is reached in one round; chains of delegation are    *)
(* the subject of module Delegation.  Signatures and structure are valid,  *)
(* and users, entry points and the root record are the genesis of every    *)
(* vault: counters are counted from the genesis maximum, so no record here *)
(* sits at 0 and a watermark of 0 is one that was never raised.            *)
(***************************************************************************)
EXTENDS Naturals, FiniteSets, FiniteSetsExt

CONSTANTS
    Users,        \* the members of the vault
    root,         \* the user holding the root key
    Secrets,      \* secret selectors; a selector is a secret's identity
    Grants,       \* grant ids
    Subject,      \* the user each grant id is issued to
    Values,       \* plaintexts
    MaxCounter    \* MAX_LWW_COUNTER

ASSUME ValidateAssumption ==
    /\ root \in Users
    /\ Subject \in [Grants -> Users]
    /\ MaxCounter \in Nat
    /\ Secrets \cap Grants = {}
    /\ Values \cap {"granted", "deleted"} = {}

Keys == Secrets \cup Grants

\* One signed record: its key, Lamport counter, content, the recipient slots
\* of a sealed value, and its signer.
Records ==
    [key : Secrets, counter : 1 .. MaxCounter, content : Values,
     slots : SUBSET Users, signer : Users]
    \cup [key : Secrets, counter : 1 .. MaxCounter, content : {"deleted"},
          slots : {{}}, signer : Users]
    \cup [key : Grants, counter : 1 .. MaxCounter, content : {"granted", "deleted"},
          slots : {{}}, signer : {root}]

Ratchets == [Keys -> 0 .. MaxCounter]

\* Two seals of a value never have the same ciphertext; two deletions, or two
\* copies of a grant, have the same body whoever signed them.
same_body(r, s) == r = s \/ (r.content = s.content /\ r.content \notin Values)

Highest(S) == IF S = {} THEN 0 ELSE Max(S)
Counters(R) == {r.counter : r \in R}
AtKey(R, k) == {r \in R : r.key = k}

(* ------------------------------ resolution ----------------------------- *)

\* The records of a set that sit at its maximum counter.
Leaders(R) == {r \in R : r.counter = Highest(Counters(R))}

\* lww_resolution: a set of competing records has a winner only when the
\* leaders all carry the same body.
Diverging(R) == \E r, s \in Leaders(R) : ~ same_body(r, s)
Winners(R)   == IF Diverging(R) THEN {} ELSE Leaders(R)

\* The keys at which a grant is effective.
LiveGrants(R, rolledBack) ==
    {g \in Grants \ rolledBack : \E r \in Winners(AtKey(R, g)) : r.content = "granted"}

\* The users who can_write (and so can_read) the secrets.
Writers(R, rolledBack) == {root} \cup {Subject[g] : g \in LiveGrants(R, rolledBack)}

\* Records their signer was authorized to issue.
Admitted(R, writers) == {r \in R : r.key \in Grants \/ r.signer \in writers}

\* admitted_watermarks: the highest admitted counter of each key, under the
\* authority resolved without rollback exclusions.
admitted_watermarks(R) ==
    LET A == Admitted(R, Writers(R, {}))
    IN  [k \in Keys |-> Highest(Counters(AtKey(A, k)))]

\* Rollback detection: the admitted counter fell below the remembered one.
rollback_keys(marks, ratchet) == {k \in Keys : marks[k] < ratchet[k]}

\* One above everything remembered at a key under suspicion of rollback.
rollback_counter_floor(rolled, ratchet) == Highest({ratchet[k] + 1 : k \in rolled})

\* Mutant: conflicted secrets still have a winner.
secret_index_blind(A, conflicted) == UNION {Winners(AtKey(A, k)) : k \in Secrets}

\* secret_index behind its conflict gate: the winning value or deletion of
\* every secret that is not conflicted.
secret_index(A, conflicted) ==
    UNION {Winners(AtKey(A, k)) : k \in Secrets \ conflicted}

\* The ValidationReport of a vault against a ratchet, as far as the
\* operations read it.
validate_v1(R, ratchet) ==
    LET marks   == admitted_watermarks(R)
        rolled  == rollback_keys(marks, ratchet)
        writers == Writers(R, rolled)
        A       == Admitted(R, writers)
        ties    == {k \in Keys \ rolled : Diverging(AtKey(A, k))}
    IN  [rolled     |-> rolled,
         writers    |-> writers,
         grants     |-> LiveGrants(R, rolled),
         conflicted |-> rolled \cup ties,
         current    |-> secret_index(A, rolled \cup ties),
         marks      |-> marks,
         floor      |-> rollback_counter_floor(rolled, ratchet)]

\* The live value of a secret: none when it is conflicted, missing or deleted.
secret_record(report, k) ==
    {r \in report.current : r.key = k /\ r.content \in Values}

\* The records offered at a conflict: the diverging leaders of a tie, or
\* whatever still sits at the admitted counter of a rolled-back key.
candidates(R, report, k) ==
    IF k \in report.rolled
    THEN {r \in AtKey(R, k) : r.counter = report.marks[k]}
    ELSE IF k \in report.conflicted THEN Leaders(AtKey(Admitted(R, report.writers), k))
                                    ELSE {}

(* -------------------------------- counters ----------------------------- *)

next_counter(report) == 1 + Highest({report.marks[k] : k \in Keys})

\* Mutant: every key is raised to the highest counter of the vault.
apply_update_global(ratchet, R) ==
    LET high == Highest({admitted_watermarks(R)[k] : k \in Keys})
    IN  [k \in Keys |-> IF high > ratchet[k] THEN high ELSE ratchet[k]]

\* Watermarks are monotone maxima (Ratchet::apply_update).
apply_update(ratchet, R) ==
    LET marks == admitted_watermarks(R)
    IN  [k \in Keys |-> IF marks[k] > ratchet[k] THEN marks[k] ELSE ratchet[k]]

\* secret_missing_reader: the live value lacks a slot of a current reader.
missing_reader_candidates(report) ==
    {r \in report.current : r.content \in Values /\ ~ (report.writers \subseteq r.slots)}

=============================================================================
