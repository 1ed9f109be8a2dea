-------------------------- MODULE VaultLogProofs --------------------------
(* Theorems about VaultLog, and about the validation of Validate it rests   *)
(* on: what a session shows is never older than what the machine has        *)
(* verified, a member with authority can always make its write effective, a *)
(* commit is above the memory and remembered, and it leaves the other       *)
(* secrets alone.                                                           *)
EXTENDS VaultLog, WellFoundedInduction, TLAPS

(* What the validation computes on the way, by its stages. *)
Rolled(R, t) == rollback_keys(admitted_watermarks(R), t)
Ties(R, t) ==
  {k \in Keys \ Rolled(R, t) : Diverging(AtKey(Admitted(R, Writers(R, Rolled(R, t))), k))}

----------------------------------------------------------------------------
(* Highest *)

(* A bounded set of naturals has a largest member, and Max finds it.        *)
LEMMA MaxOfBounded ==
  ASSUME NEW S, S # {}, NEW B \in Nat, S \subseteq 0..B
  PROVE  Max(S) \in S /\ \A e \in S : e <= Max(S)
<1> DEFINE T == {B - e : e \in S}
           L == OpToRel(<, Nat)
<1>1. T \subseteq Nat /\ T # {}
  OBVIOUS
<1>2. PICK x \in T : \A y \in T : ~(<<y, x>> \in L)
  BY <1>1, WFMin, NatLessThanWellFounded
<1>3. PICK m \in S : x = B - m
  BY <1>2
<1>4. ASSUME NEW e \in S
      PROVE  m >= e
  <2>1. B - e \in T /\ B - e \in Nat /\ x \in Nat
    BY <1>1
  <2>2. ~(B - e < x)
    BY <1>2, <2>1 DEF OpToRel
  <2> QED
    BY <1>3, <2>1, <2>2
<1>5. \E k \in S : \A e \in S : k >= e
  BY <1>4
<1> QED
  BY <1>5 DEF Max

LEMMA HighestFacts ==
  ASSUME NEW B \in Nat, NEW S, S \subseteq 0..B
  PROVE  /\ Highest(S) \in 0..B
         /\ \A e \in S : e <= Highest(S)
         /\ S # {} => Highest(S) \in S
<1>1. CASE S = {}
  BY <1>1 DEF Highest
<1>2. CASE S # {}
  BY <1>2, MaxOfBounded DEF Highest
<1> QED
  BY <1>1, <1>2

(* A member that nothing exceeds is the highest.                            *)
LEMMA HighestIs ==
  ASSUME NEW B \in Nat, NEW S, S \subseteq 0..B, NEW e \in S, \A d \in S : d <= e
  PROVE  Highest(S) = e
<1>1. Highest(S) \in S /\ e <= Highest(S) /\ Highest(S) \in 0..B /\ e \in 0..B
  BY HighestFacts
<1>2. Highest(S) <= e
  BY <1>1
<1> QED
  BY <1>1, <1>2

----------------------------------------------------------------------------
(* What a record set means *)

LEMMA RecordFields ==
  ASSUME NEW r \in Records
  PROVE  /\ r.key \in Keys /\ r.counter \in 1..MaxCounter /\ r.signer \in Users
         /\ r.key \in Secrets \/ (r.key \in Grants /\ r.signer = root)
         /\ r.content \in Values => r.key \in Secrets
         /\ r.slots \subseteq Users
BY ValidateAssumption DEF Records, Keys

LEMMA CountersBounded ==
  ASSUME NEW R, R \subseteq Records
  PROVE  Counters(R) \subseteq 0..MaxCounter /\ \A r \in R : r.counter \in Counters(R)
BY RecordFields, ValidateAssumption DEF Counters

(* The leaders have the highest counter, and winners are leaders.           *)
LEMMA LeaderFacts ==
  ASSUME NEW R, R \subseteq Records
  PROVE  /\ Leaders(R) \subseteq R
         /\ \A r \in Leaders(R) : r.counter = Highest(Counters(R))
         /\ Winners(R) \subseteq Leaders(R)
BY DEF Leaders, Winners

LEMMA WritersFacts ==
  ASSUME NEW R, NEW X
  PROVE  Writers(R, X) \subseteq Users /\ Writers(R, X) \subseteq Writers(R, {})
BY ValidateAssumption DEF Writers, LiveGrants

(* Only the suspected grants matter for who may write.                      *)
LEMMA WritersBySuspectedGrants ==
  ASSUME NEW R, NEW X, NEW Y, X \cap Grants = Y \cap Grants
  PROVE  Writers(R, X) = Writers(R, Y) /\ LiveGrants(R, X) = LiveGrants(R, Y)
<1>1. LiveGrants(R, X) = LiveGrants(R, Y)
  BY DEF LiveGrants
<1> QED
  BY <1>1 DEF Writers

LEMMA MarksType ==
  ASSUME NEW R, R \subseteq Records
  PROVE  /\ admitted_watermarks(R) \in [Keys -> 0..MaxCounter]
         /\ \A k \in Keys : admitted_watermarks(R)[k] =
                Highest(Counters(AtKey(Admitted(R, Writers(R, {})), k)))
         /\ \A r \in Admitted(R, Writers(R, {})) : r.counter <= admitted_watermarks(R)[r.key]
<1> DEFINE A == Admitted(R, Writers(R, {}))
<1>1. A \subseteq Records /\ \A k \in Keys : AtKey(A, k) \subseteq Records
  BY DEF Admitted, AtKey
<1>2. admitted_watermarks(R) = [k \in Keys |-> Highest(Counters(AtKey(A, k)))]
  BY DEF admitted_watermarks
<1> HIDE DEF A
<1>3. \A k \in Keys : Highest(Counters(AtKey(A, k))) \in 0..MaxCounter
  BY <1>1, CountersBounded, HighestFacts, ValidateAssumption
<1>4. ASSUME NEW r \in A
      PROVE  r.counter <= Highest(Counters(AtKey(A, r.key))) /\ r.key \in Keys
  <2>1. r \in AtKey(A, r.key) /\ r.key \in Keys
    BY <1>1, RecordFields DEF AtKey
  <2>2. r.counter \in Counters(AtKey(A, r.key)) /\ Counters(AtKey(A, r.key)) \subseteq 0..MaxCounter
    BY <1>1, <2>1, CountersBounded
  <2> QED
    BY <2>1, <2>2, HighestFacts, ValidateAssumption
<1> QED
  BY <1>2, <1>3, <1>4 DEF A

LEMMA ApplyUpdateFacts ==
  ASSUME NEW t \in Ratchets, NEW R, R \subseteq Records
  PROVE  /\ apply_update(t, R) \in Ratchets
         /\ \A k \in Keys : apply_update(t, R)[k] =
              IF admitted_watermarks(R)[k] > t[k] THEN admitted_watermarks(R)[k] ELSE t[k]
<1>1. admitted_watermarks(R) \in [Keys -> 0..MaxCounter]
  BY MarksType
<1> QED
  BY <1>1 DEF apply_update, Ratchets

LEMMA Report ==
  ASSUME NEW R, NEW t
  PROVE  /\ validate_v1(R, t).rolled = Rolled(R, t)
         /\ validate_v1(R, t).writers = Writers(R, Rolled(R, t))
         /\ validate_v1(R, t).grants = LiveGrants(R, Rolled(R, t))
         /\ validate_v1(R, t).conflicted = Rolled(R, t) \cup Ties(R, t)
         /\ validate_v1(R, t).current =
              secret_index(Admitted(R, Writers(R, Rolled(R, t))), Rolled(R, t) \cup Ties(R, t))
         /\ validate_v1(R, t).marks = admitted_watermarks(R)
         /\ validate_v1(R, t).floor = rollback_counter_floor(Rolled(R, t), t)
BY DEF validate_v1, Rolled, Ties

(* The secrets a report shows: admitted, at the highest counter of their    *)
(* key, and not at a conflicted one.                                        *)
LEMMA CurrentFacts ==
  ASSUME NEW R, R \subseteq Records, NEW t, NEW r \in validate_v1(R, t).current
  PROVE  LET A == Admitted(R, Writers(R, Rolled(R, t)))
         IN  /\ r \in A /\ r \in Records
             /\ r.key \in Secrets /\ r.key \notin Rolled(R, t)
             /\ r.counter = Highest(Counters(AtKey(A, r.key)))
<1> DEFINE A == Admitted(R, Writers(R, Rolled(R, t)))
<1>1. A \subseteq R /\ \A k : AtKey(A, k) \subseteq A /\ \A x \in AtKey(A, k) : x.key = k
  BY DEF Admitted, AtKey
<1>2. r \in secret_index(A, Rolled(R, t) \cup Ties(R, t))
  BY Report
<1> HIDE DEF A
<1>3. PICK k \in Secrets \ (Rolled(R, t) \cup Ties(R, t)) : r \in Winners(AtKey(A, k))
  BY <1>2 DEF secret_index
<1>4. AtKey(A, k) \subseteq Records
  BY <1>1
<1>5. r \in AtKey(A, k) /\ r.counter = Highest(Counters(AtKey(A, k)))
  BY <1>3, <1>4, LeaderFacts
<1>6. r.key = k /\ r \in A /\ r \in Records
  BY <1>1, <1>4, <1>5
<1> QED
  BY <1>3, <1>5, <1>6 DEF A

(* As long as no grant is under suspicion, what is shown at a key is what   *)
(* the watermarks count there, and that is not below the memory.            *)
LEMMA CurrentNotBelow ==
  ASSUME NEW R, R \subseteq Records, NEW t \in Ratchets, Rolled(R, t) \cap Grants = {},
         NEW r \in validate_v1(R, t).current
  PROVE  r.counter >= t[r.key]
<1>1. Writers(R, Rolled(R, t)) = Writers(R, {})
  BY WritersBySuspectedGrants
<1>2. /\ r.key \in Keys /\ r.key \notin Rolled(R, t)
      /\ r.counter = Highest(Counters(AtKey(Admitted(R, Writers(R, {})), r.key)))
  BY <1>1, CurrentFacts DEF Keys
<1>3. r.counter = admitted_watermarks(R)[r.key] /\ admitted_watermarks(R)[r.key] \in Nat
  BY <1>2, MarksType
<1>4. ~(admitted_watermarks(R)[r.key] < t[r.key]) /\ t[r.key] \in Nat
  BY <1>2 DEF Rolled, rollback_keys, Ratchets
<1> QED
  BY <1>3, <1>4

----------------------------------------------------------------------------
(* What more records change *)

LEMMA AdmittedFacts ==
  ASSUME NEW R, NEW W
  PROVE  /\ Admitted(R, W) \subseteq R
         /\ \A k : AtKey(Admitted(R, W), k) \subseteq R
         /\ \A Z : W \subseteq Z => Admitted(R, W) \subseteq Admitted(R, Z)
BY DEF Admitted, AtKey

(* Records of secrets change nothing about the grants.                      *)
LEMMA SecretsGrantNothing ==
  ASSUME NEW V, NEW N, \A r \in N : r.key \notin Grants, NEW X
  PROVE  Writers(V \cup N, X) = Writers(V, X) /\ LiveGrants(V \cup N, X) = LiveGrants(V, X)
<1>1. \A g \in Grants : AtKey(V \cup N, g) = AtKey(V, g)
  BY DEF AtKey
<1>2. LiveGrants(V \cup N, X) = LiveGrants(V, X)
  BY <1>1 DEF LiveGrants
<1> QED
  BY <1>2 DEF Writers

LEMMA MarksElsewhere ==
  ASSUME NEW V, V \subseteq Records, NEW N, N \subseteq Records,
         \A r \in N : r.key \notin Grants, NEW k \in Keys, \A r \in N : r.key # k
  PROVE  admitted_watermarks(V \cup N)[k] = admitted_watermarks(V)[k]
<1>1. Writers(V \cup N, {}) = Writers(V, {})
  BY SecretsGrantNothing
<1>2. V \cup N \subseteq Records
  OBVIOUS
<1>3. AtKey(Admitted(V \cup N, Writers(V, {})), k) = AtKey(Admitted(V, Writers(V, {})), k)
  BY DEF AtKey, Admitted
<1>4. /\ admitted_watermarks(V)[k] = Highest(Counters(AtKey(Admitted(V, Writers(V, {})), k)))
      /\ admitted_watermarks(V \cup N)[k] =
           Highest(Counters(AtKey(Admitted(V \cup N, Writers(V \cup N, {})), k)))
  BY <1>2, MarksType
<1> QED
  BY <1>1, <1>3, <1>4

(* An admitted record above its key's watermark becomes that watermark.     *)
LEMMA MarkOfNew ==
  ASSUME NEW V, V \subseteq Records, NEW r \in Records,
         r \in Admitted(V \cup {r}, Writers(V \cup {r}, {})),
         r.counter > admitted_watermarks(V)[r.key]
  PROVE  admitted_watermarks(V \cup {r})[r.key] = r.counter
<1> DEFINE k == r.key
           was == AtKey(Admitted(V, Writers(V, {})), k)
           now == AtKey(Admitted(V \cup {r}, Writers(V \cup {r}, {})), k)
<1>1. k \in Keys /\ r.counter \in 1..MaxCounter /\ MaxCounter \in Nat
  BY RecordFields, ValidateAssumption
<1>2. now = was \cup {r}
  <2>1. CASE k \in Grants
    BY <2>1 DEF AtKey, Admitted
  <2>2. CASE k \notin Grants
    <3>1. Writers(V \cup {r}, {}) = Writers(V, {})
      BY <2>2, SecretsGrantNothing
    <3> QED
      BY <3>1 DEF AtKey, Admitted
  <2> QED
    BY <2>1, <2>2
<1>3. \A x \in was : x \in Records /\ x.counter <= admitted_watermarks(V)[k]
  BY MarksType DEF AtKey, Admitted
<1>4. admitted_watermarks(V)[k] \in Nat
  BY <1>1, MarksType
<1> HIDE DEF was, now
<1>5. \A x \in now : x \in Records /\ x.counter <= r.counter
  <2>1. \A x \in was : x.counter \in Nat
    BY <1>3, RecordFields
  <2> QED
    BY <1>1, <1>2, <1>3, <1>4, <2>1
<1>6. now \subseteq Records
  BY <1>5
<1>7. Counters(now) \subseteq 0..MaxCounter /\ r.counter \in Counters(now)
  BY <1>2, <1>6, CountersBounded
<1>8. \A d \in Counters(now) : d <= r.counter
  BY <1>5 DEF Counters
<1>9. Highest(Counters(now)) = r.counter
  BY <1>1, <1>7, <1>8, HighestIs
<1>10. V \cup {r} \subseteq Records
  OBVIOUS
<1> QED
  BY <1>1, <1>9, <1>10, MarksType DEF now

----------------------------------------------------------------------------
(* Fresh counters *)

LEMMA LargerOfTwo ==
  ASSUME NEW a \in Nat, NEW b \in Nat
  PROVE  /\ Max({a, b}) \in {a, b} /\ a <= Max({a, b}) /\ b <= Max({a, b})
<1>1. PICK x \in {a, b} : \A y \in {a, b} : x >= y
  OBVIOUS
<1>2. Max({a, b}) \in {a, b} /\ \A y \in {a, b} : Max({a, b}) >= y
  BY <1>1 DEF Max
<1> QED
  BY <1>2

(* A counter above every watermark, and above whatever is remembered at a   *)
(* key that fell behind, is above all that is remembered.                   *)
LEMMA FreshFacts ==
  ASSUME NEW V, V \subseteq Records, NEW t \in Ratchets,
         NEW now, now = validate_v1(V, t),
         NEW c, c = Max({next_counter(now), now.floor})
  PROVE  /\ c \in Nat /\ c >= 1
         /\ \A k \in Keys : admitted_watermarks(V)[k] < c /\ t[k] < c
         /\ (/\ MaxCounter > 0
             /\ \A k \in Keys : admitted_watermarks(V)[k] < MaxCounter /\ t[k] < MaxCounter)
               => c <= MaxCounter
<1> DEFINE marks == admitted_watermarks(V)
           M == {marks[k] : k \in Keys}
           F == {t[k] + 1 : k \in Rolled(V, t)}
<1>1. /\ now.marks = marks /\ now.floor = Highest(F)
  BY Report DEF rollback_counter_floor
<1>2. next_counter(now) = 1 + Highest(M)
  BY <1>1 DEF next_counter
<1>3. marks \in [Keys -> 0..MaxCounter] /\ t \in [Keys -> 0..MaxCounter] /\ MaxCounter \in Nat
  BY MarksType, ValidateAssumption DEF Ratchets
<1>4. Rolled(V, t) = {k \in Keys : marks[k] < t[k]}
  BY DEF Rolled, rollback_keys
<1> HIDE DEF marks
<1>5. M \subseteq 0..MaxCounter /\ F \subseteq 0..(MaxCounter + 1) /\ MaxCounter + 1 \in Nat
  BY <1>3, <1>4
<1>6. /\ Highest(M) \in 0..MaxCounter /\ (\A e \in M : e <= Highest(M))
      /\ M # {} => Highest(M) \in M
  BY <1>3, <1>5, HighestFacts
<1>7. /\ Highest(F) \in 0..(MaxCounter + 1) /\ (\A e \in F : e <= Highest(F))
      /\ F # {} => Highest(F) \in F
  BY <1>5, HighestFacts
<1> DEFINE a == 1 + Highest(M)
           b == Highest(F)
<1>8. a \in Nat /\ b \in Nat
  BY <1>6, <1>7
<1>9. c \in {a, b} /\ a <= c /\ b <= c
  BY <1>1, <1>2, <1>8, LargerOfTwo
<1>10. c \in Nat /\ c >= 1
  BY <1>6, <1>8, <1>9
<1>11. ASSUME NEW k \in Keys
       PROVE  marks[k] < c /\ t[k] < c
  <2>1. marks[k] \in M /\ marks[k] \in Nat /\ t[k] \in Nat
    BY <1>3
  <2>2. marks[k] <= Highest(M)
    BY <1>6, <2>1
  <2>3. marks[k] < c
    BY <1>6, <1>9, <1>10, <2>1, <2>2
  <2>4. CASE marks[k] < t[k]
    <3>1. t[k] + 1 \in F
      BY <1>4, <2>4
    <3>2. t[k] + 1 <= b
      BY <1>7, <3>1
    <3> QED
      BY <1>8, <1>9, <1>10, <2>1, <2>3, <3>2
  <2>5. CASE ~(marks[k] < t[k])
    BY <1>10, <2>1, <2>3, <2>5
  <2> QED
    BY <2>4, <2>5
<1>12. ASSUME MaxCounter > 0, \A k \in Keys : marks[k] < MaxCounter /\ t[k] < MaxCounter
       PROVE  c <= MaxCounter
  <2>1. a <= MaxCounter
    <3>1. CASE M = {}
      BY <1>3, <1>12, <3>1 DEF Highest
    <3>2. CASE M # {}
      <4>1. PICK k \in Keys : Highest(M) = marks[k]
        BY <1>6, <3>2
      <4> QED
        BY <1>3, <1>12, <4>1
    <3> QED
      BY <3>1, <3>2
  <2>2. b <= MaxCounter
    <3>1. CASE F = {}
      BY <1>3, <3>1 DEF Highest
    <3>2. CASE F # {}
      <4>1. PICK k \in Keys : Highest(F) = t[k] + 1
        BY <1>4, <1>7, <3>2
      <4> QED
        BY <1>3, <1>12, <4>1
    <3> QED
      BY <3>1, <3>2
  <2> QED
    BY <1>9, <2>1, <2>2
<1> QED
  BY <1>10, <1>11, <1>12 DEF marks

----------------------------------------------------------------------------
(* A write takes effect *)

(* Which keys are behind the memory once the commit has raised it: those    *)
(* that were, but for the one that was written.                             *)
LEMMA RolledAfter ==
  ASSUME NEW V, V \subseteq Records, NEW t \in Ratchets, NEW N, N \subseteq Records,
         \A r \in N : r.key \notin Grants
  PROVE  LET was == Rolled(V, t)
             now == Rolled(V \cup N, apply_update(t, V))
         IN  \A k \in Keys : (\A r \in N : r.key # k) => (k \in now <=> k \in was)
<1> DEFINE t2 == apply_update(t, V)
<1> SUFFICES ASSUME NEW k \in Keys, \A r \in N : r.key # k
             PROVE  k \in Rolled(V \cup N, t2) <=> k \in Rolled(V, t)
  OBVIOUS
<1>1. admitted_watermarks(V \cup N)[k] = admitted_watermarks(V)[k]
  BY MarksElsewhere
<1>2. admitted_watermarks(V)[k] \in Nat /\ t[k] \in Nat
  BY MarksType DEF Ratchets
<1>3. t2[k] = IF admitted_watermarks(V)[k] > t[k] THEN admitted_watermarks(V)[k] ELSE t[k]
  BY ApplyUpdateFacts
<1> HIDE DEF t2
<1> QED
  BY <1>1, <1>2, <1>3 DEF Rolled, rollback_keys

(* A record of a writer at a fresh counter is what its secret then shows.   *)
LEMMA FreshIsCurrent ==
  ASSUME NEW V, V \subseteq Records, NEW t \in Ratchets, NEW r \in Records,
         r.key \in Secrets, r.signer \in Writers(V, Rolled(V, t)),
         \A k \in Keys : admitted_watermarks(V)[k] < r.counter /\ t[k] < r.counter
  PROVE  r \in validate_v1(V \cup {r}, apply_update(t, V)).current
<1> DEFINE k == r.key
           V2 == V \cup {r}
           t2 == apply_update(t, V)
           X == Rolled(V, t)
           X2 == Rolled(V2, t2)
           W == Writers(V, X)
           A2 == Admitted(V2, W)
<1>1. k \in Keys /\ k \notin Grants /\ r.counter \in Nat /\ V2 \subseteq Records
  BY RecordFields, ValidateAssumption DEF Keys
<1>2. \A Y : Writers(V2, Y) = Writers(V, Y)
  BY <1>1, SecretsGrantNothing
<1>3. W \subseteq Writers(V, {})
  BY WritersFacts
<1>4. r \in Admitted(V2, Writers(V2, {}))
  BY <1>2, <1>3 DEF Admitted
<1>5. admitted_watermarks(V2)[k] = r.counter
  BY <1>1, <1>4, MarkOfNew
<1>6. k \notin X2
  <2>1. t2[k] = IF admitted_watermarks(V)[k] > t[k] THEN admitted_watermarks(V)[k] ELSE t[k]
    BY <1>1, ApplyUpdateFacts
  <2>2. admitted_watermarks(V)[k] \in Nat /\ t[k] \in Nat
    BY <1>1, MarksType DEF Ratchets
  <2> HIDE DEF t2
  <2> QED
    BY <1>1, <1>5, <2>1, <2>2 DEF Rolled, rollback_keys
<1>7. X2 \cap Grants = X \cap Grants
  <2>1. \A g \in Grants : g \in Keys /\ g # k
    BY <1>1 DEF Keys
  <2>2. \A g \in Grants : g \in X2 <=> g \in X
    BY <1>1, <2>1, RolledAfter
  <2> QED
    BY <2>2
<1>8. Writers(V2, X2) = W
  BY <1>2, <1>7, WritersBySuspectedGrants
<1>9. r \in AtKey(A2, k) /\ AtKey(A2, k) \subseteq Records
  BY <1>1 DEF AtKey, Admitted
<1>10. \A x \in AtKey(A2, k) : x # r => x.counter < r.counter
  <2>1. ASSUME NEW x \in AtKey(A2, k), x # r
        PROVE  x.counter < r.counter
    <3>1. x \in Admitted(V, Writers(V, {})) /\ x.key = k /\ x \in Records
      BY <1>3, <2>1 DEF AtKey, Admitted
    <3>2. x.counter <= admitted_watermarks(V)[k]
      BY <3>1, MarksType
    <3>3. x.counter \in Nat /\ admitted_watermarks(V)[k] \in Nat
      BY <1>1, <3>1, RecordFields, MarksType
    <3> QED
      BY <1>1, <3>2, <3>3
  <2> QED
    BY <2>1
<1> DEFINE S == AtKey(A2, k)
<1>11. r \in S /\ S \subseteq Records /\ \A x \in S : x # r => x.counter < r.counter
  BY <1>9, <1>10
<1> HIDE DEF S
<1>12. Highest(Counters(S)) = r.counter
  <2>1. Counters(S) \subseteq 0..MaxCounter /\ r.counter \in Counters(S)
    BY <1>11, CountersBounded
  <2>2. \A x \in S : x.counter <= r.counter
    BY <1>1, <1>11, RecordFields
  <2>3. \A d \in Counters(S) : d <= r.counter
    BY <2>2 DEF Counters
  <2> QED
    BY <2>1, <2>3, HighestIs, ValidateAssumption
<1>13. Leaders(S) = {r}
  <2>1. \A x \in S : x # r => x.counter # r.counter
    BY <1>1, <1>11, RecordFields
  <2> QED
    BY <1>11, <1>12, <2>1 DEF Leaders
<1>14. ~Diverging(S) /\ Winners(S) = {r}
  BY <1>13 DEF Diverging, Winners, same_body
<1>15. k \notin Ties(V2, t2)
  BY <1>8, <1>14 DEF Ties, S
<1>16. validate_v1(V2, t2).current = secret_index(A2, X2 \cup Ties(V2, t2))
  BY <1>8, Report
<1>17. k \in Secrets \ (X2 \cup Ties(V2, t2))
  BY <1>6, <1>15
<1> QED
  BY <1>14, <1>16, <1>17 DEF secret_index, S

(* What a member with authority deletes is deleted.                         *)
LEMMA WriteLands ==
  ASSUME TypeOK
  PROVE  WriteTakesEffect
<1> SUFFICES ASSUME NEW u \in Workers, NEW k \in Secrets,
                    u \in current(u).writers,
                    \A x \in Admitted(vault[u], Writers(vault[u], {})) : x.counter < MaxCounter,
                    \A j \in Keys : ratchet[u][j] < MaxCounter
             PROVE  LET r == tombstone(u, k, fresh_counter(u))
                    IN  r.counter <= MaxCounter /\ is_current(u, r)
  BY DEF WriteTakesEffect
<1> DEFINE V == vault[u]
           t == ratchet[u]
           c == fresh_counter(u)
           r == tombstone(u, k, c)
<1>1. V \subseteq Records /\ t \in Ratchets /\ u \in Users /\ k \in Keys /\ MaxCounter \in Nat
  BY VaultLogAssumption, ValidateAssumption DEF TypeOK, Keys
<1>2. c = Max({next_counter(validate_v1(V, t)), validate_v1(V, t).floor})
  BY DEF fresh_counter, current
<1>3. MaxCounter > 0
  BY <1>1 DEF Ratchets
<1>4. \A j \in Keys : admitted_watermarks(V)[j] < MaxCounter
  <2> DEFINE A == Admitted(V, Writers(V, {}))
  <2>1. ASSUME NEW j \in Keys
        PROVE  Highest(Counters(AtKey(A, j))) < MaxCounter
    <3>1. AtKey(A, j) \subseteq Records /\ AtKey(A, j) \subseteq A
      BY <1>1 DEF AtKey, Admitted
    <3>2. Counters(AtKey(A, j)) \subseteq 0..MaxCounter
      BY <3>1, CountersBounded
    <3>3. \A d \in Counters(AtKey(A, j)) : d < MaxCounter
      BY <3>1 DEF Counters
    <3>4. CASE Counters(AtKey(A, j)) = {}
      BY <1>3, <3>4 DEF Highest
    <3>5. CASE Counters(AtKey(A, j)) # {}
      BY <1>1, <3>2, <3>3, <3>5, HighestFacts
    <3> QED
      BY <3>4, <3>5
  <2> QED
    BY <1>1, <2>1, MarksType
<1> HIDE DEF c
<1>5. /\ c \in Nat /\ c >= 1 /\ c <= MaxCounter
      /\ \A j \in Keys : admitted_watermarks(V)[j] < c /\ t[j] < c
  BY <1>1, <1>2, <1>3, <1>4, FreshFacts
<1>6. r \in Records /\ r.key = k /\ r.counter = c /\ r.signer = u
  BY <1>1, <1>5 DEF tombstone, Records
<1>7. r.signer \in Writers(V, Rolled(V, t))
  BY <1>6, Report DEF current
<1> HIDE DEF r
<1>8. r \in validate_v1(V \cup {r}, apply_update(t, V)).current
  BY <1>1, <1>5, <1>6, <1>7, FreshIsCurrent
<1> QED
  BY <1>5, <1>6, <1>8 DEF is_current, post_report, r, c

----------------------------------------------------------------------------
(* Every operation on a record is a refusal, or the commit of one admitted  *)
(* record at a fresh counter.                                               *)

Admissible(u, r) ==
  /\ r \in Records /\ r.counter = fresh_counter(u)
  /\ r \in Admitted(vault[u] \cup {r}, Writers(vault[u] \cup {r}, {}))

RecordStep(u) ==
  \/ Refuse(u)
  \/ \E r \in Records, todo \in Todos : Admissible(u, r) /\ Commit(u, {r}, todo)

LEMMA SessionTypes ==
  ASSUME TypeOK, NEW u \in Workers
  PROVE  /\ u \in Users /\ vault[u] \subseteq Records /\ ratchet[u] \in Ratchets
         /\ session[u] # NoSession =>
              session[u].vault \subseteq Records /\ session[u].todo \in Todos
BY VaultLogAssumption DEF TypeOK, Sessions

LEMMA FreshType ==
  ASSUME TypeOK, NEW u \in Workers
  PROVE  /\ fresh_counter(u) \in Nat /\ fresh_counter(u) >= 1
         /\ \A k \in Keys : /\ admitted_watermarks(vault[u])[k] < fresh_counter(u)
                            /\ ratchet[u][k] < fresh_counter(u)
<1>1. fresh_counter(u) = Max({next_counter(current(u)), current(u).floor})
  BY DEF fresh_counter
<1>2. current(u) = validate_v1(vault[u], ratchet[u])
  BY DEF current
<1> QED
  BY <1>1, <1>2, SessionTypes, FreshFacts

(* A record that the post-state shows was admitted.                         *)
LEMMA CurrentIsAdmitted ==
  ASSUME TypeOK, NEW u \in Workers, NEW r \in Records, is_current(u, r)
  PROVE  r \in Admitted(vault[u] \cup {r}, Writers(vault[u] \cup {r}, {}))
<1> DEFINE V2 == vault[u] \cup {r}
           t2 == apply_update(ratchet[u], vault[u])
<1>1. V2 \subseteq Records /\ r \in validate_v1(V2, t2).current
  BY SessionTypes DEF is_current, post_report
<1> HIDE DEF V2, t2
<1>2. r \in Admitted(V2, Writers(V2, Rolled(V2, t2)))
  BY <1>1, CurrentFacts
<1>3. r \in Admitted(V2, Writers(V2, {}))
  BY <1>2, WritersFacts DEF Admitted
<1> QED
  BY <1>3 DEF V2

LEMMA CommitRecordStep ==
  ASSUME TypeOK, NEW u \in Workers, NEW STATE r, NEW STATE effective, NEW todo \in Todos,
         r.counter = fresh_counter(u),
         r.counter <= MaxCounter => r \in Records,
         r \in Records /\ effective =>
           r \in Admitted(vault[u] \cup {r}, Writers(vault[u] \cup {r}, {})),
         commit_record(u, r, effective, todo)
  PROVE  RecordStep(u)
<1>1. CASE r.counter <= MaxCounter /\ effective
  BY <1>1 DEF commit_record, RecordStep, Admissible
<1>2. CASE ~(r.counter <= MaxCounter /\ effective)
  BY <1>2 DEF commit_record, RecordStep
<1> QED
  BY <1>1, <1>2

LEMMA ReportTypes ==
  ASSUME NEW R, R \subseteq Records, NEW t \in Ratchets
  PROVE  /\ validate_v1(R, t).writers \subseteq Users
         /\ validate_v1(R, t).current \subseteq R
         /\ validate_v1(R, t).conflicted \subseteq Keys
         /\ validate_v1(R, t).rolled \subseteq Keys
         /\ validate_v1(R, t).marks \in [Keys -> 0..MaxCounter]
<1>1. validate_v1(R, t).writers \subseteq Users
  <2>1. validate_v1(R, t).writers = Writers(R, Rolled(R, t))
    BY Report
  <2> QED
    BY <2>1, WritersFacts
<1>4. validate_v1(R, t).marks \in [Keys -> 0..MaxCounter]
  <2>1. validate_v1(R, t).marks = admitted_watermarks(R)
    BY Report
  <2> QED
    BY <2>1, MarksType
<1>2. ASSUME NEW r \in validate_v1(R, t).current
      PROVE  r \in R
  BY CurrentFacts, AdmittedFacts
<1>3. Rolled(R, t) \subseteq Keys /\ Ties(R, t) \subseteq Keys
  BY DEF Rolled, rollback_keys, Ties
<1> QED
  BY <1>1, <1>2, <1>3, <1>4, Report

LEMMA SetStep ==
  ASSUME TypeOK, NEW u \in Workers, NEW k \in Secrets, NEW value \in Values,
         NEW todo \in Todos, set_secret_value(u, k, value, todo)
  PROVE  RecordStep(u)
<1> DEFINE c == fresh_counter(u)
           r == sealed(u, k, value, c)
<1>1. u \in Users /\ current(u).writers \subseteq Users
  BY SessionTypes, ReportTypes DEF current
<1>2. c \in Nat /\ c >= 1
  BY FreshType
<1>3. r.counter = c /\ (c <= MaxCounter => r \in Records)
  BY <1>1, <1>2, ValidateAssumption DEF sealed, Records
<1>4. commit_record(u, r, is_current(u, r), todo)
  BY DEF set_secret_value
<1>5. r \in Records /\ is_current(u, r) =>
        r \in Admitted(vault[u] \cup {r}, Writers(vault[u] \cup {r}, {}))
  BY CurrentIsAdmitted
<1> HIDE DEF r
<1> QED
  BY <1>3, <1>4, <1>5, CommitRecordStep

LEMMA DeleteStep ==
  ASSUME TypeOK, NEW u \in Workers, NEW k \in Secrets, delete_secret(u, k)
  PROVE  RecordStep(u)
<1> DEFINE c == fresh_counter(u)
           r == tombstone(u, k, c)
<1>1. u \in Users /\ "none" \in Todos
  BY SessionTypes DEF Todos
<1>2. c \in Nat /\ c >= 1
  BY FreshType
<1>3. r.counter = c /\ (c <= MaxCounter => r \in Records)
  BY <1>1, <1>2, ValidateAssumption DEF tombstone, Records
<1>4. commit_record(u, r, is_current(u, r), "none")
  BY DEF delete_secret
<1>5. r \in Records /\ is_current(u, r) =>
        r \in Admitted(vault[u] \cup {r}, Writers(vault[u] \cup {r}, {}))
  BY CurrentIsAdmitted
<1> HIDE DEF r
<1> QED
  BY <1>1, <1>3, <1>4, <1>5, CommitRecordStep

LEMMA GrantStep ==
  ASSUME TypeOK, NEW u \in Workers, NEW g \in Grants,
         GrantPermission(u, g) \/ DeleteGrant(u, g)
  PROVE  RecordStep(u)
<1> DEFINE c == fresh_counter(u)
<1>1. u = root /\ "none" \in Todos /\ "converge" \in Todos
  BY DEF GrantPermission, DeleteGrant, Todos
<1>2. c \in Nat /\ c >= 1
  BY FreshType
<1>3. \A r : r.key \in Grants => r \in Admitted(vault[u] \cup {r}, Writers(vault[u] \cup {r}, {}))
  BY DEF Admitted
<1>4. CASE GrantPermission(u, g)
  <2> DEFINE r == grant(u, g, c)
  <2>1. r.counter = c /\ r.key = g /\ (c <= MaxCounter => r \in Records)
    BY <1>1, <1>2, ValidateAssumption DEF grant, Records
  <2>2. commit_record(u, r, g \in post_report(u, {r}).grants, "converge")
    BY <1>4 DEF GrantPermission
  <2> HIDE DEF r
  <2> QED
    BY <1>1, <1>3, <2>1, <2>2, CommitRecordStep
<1>5. CASE DeleteGrant(u, g)
  <2> DEFINE r == tombstone(u, g, c)
  <2>1. r.counter = c /\ r.key = g /\ (c <= MaxCounter => r \in Records)
    BY <1>1, <1>2, ValidateAssumption DEF tombstone, Records
  <2>2. commit_record(u, r, g \in current(u).grants /\ g \notin post_report(u, {r}).grants,
                      "none")
    BY <1>5 DEF DeleteGrant
  <2> HIDE DEF r
  <2> QED
    BY <1>1, <1>3, <2>1, <2>2, CommitRecordStep
<1> QED
  BY <1>4, <1>5

LEMMA RelabelStep ==
  ASSUME TypeOK, NEW u \in Workers, NEW from \in Secrets, NEW to \in Secrets,
         RelabelSecret(u, from, to)
  PROVE  RecordStep(u)
<1>1. PICK r \in secret_record(report(u), from) :
        set_secret_value(u, to, r.content, IF from = to THEN "none" ELSE from)
  BY DEF RelabelSecret
<1>2. r.content \in Values
  BY DEF secret_record
<1>3. (IF from = to THEN "none" ELSE from) \in Todos
  BY DEF Todos
<1> QED
  BY <1>1, <1>2, <1>3, SetStep

(* A body signed again.                                                     *)
LEMMA Resigned ==
  ASSUME NEW K, NEW T, NEW L, NEW U, NEW Z, NEW u \in Z, NEW c \in 1..MaxCounter,
         NEW r \in [key : K, counter : 1..MaxCounter, content : T, slots : L, signer : U]
  PROVE  [r EXCEPT !.counter = c, !.signer = u] \in
           [key : K, counter : 1..MaxCounter, content : T, slots : L, signer : Z]
OBVIOUS

LEMMA ResolveStep ==
  ASSUME TypeOK, NEW u \in Workers, cmd_conflicts_resolve(u)
  PROVE  RecordStep(u)
<1>1. session[u] # NoSession
  BY DEF cmd_conflicts_resolve, Idle
<1>2. PICK r \in find_conflict_candidate(u) : resolve_conflict(u, r)
  BY DEF cmd_conflicts_resolve
<1>3. PICK k : r \in candidates(session[u].vault, report(u), k)
  BY DEF find_conflict_candidate, cmd_conflicts_list
<1>4. r \in Records
  <2>1. candidates(session[u].vault, report(u), k) \subseteq session[u].vault
    BY DEF candidates, AtKey, Leaders, Admitted
  <2> QED
    BY <1>1, <1>3, <2>1, SessionTypes
<1>5. CASE r.content \in Values
  <2>1. set_secret_value(u, r.key, r.content, "none")
    BY <1>2, <1>5 DEF resolve_conflict, resolve_secret_conflict
  <2>2. r.key \in Secrets /\ "none" \in Todos
    BY <1>4, <1>5, RecordFields DEF Todos
  <2> QED
    BY <1>5, <2>1, <2>2, SetStep
<1>6. CASE r.content \notin Values
  <2> DEFINE c == fresh_counter(u)
             s == [r EXCEPT !.counter = c, !.signer = u]
  <2>1. commit_record(u, s, ensure_resolution_effective(post_report(u, {s}), s), "none")
    BY <1>2, <1>6 DEF resolve_conflict
  <2>2. r.key \notin Secrets => u = root
    BY <1>2 DEF resolve_conflict, ensure_can_resolve_conflict
  <2>3. c \in Nat /\ c >= 1 /\ u \in Users /\ "none" \in Todos
    BY FreshType, SessionTypes DEF Todos
  <2>4. s.counter = c /\ s.key = r.key /\ (c <= MaxCounter => s \in Records)
    <3>1. CASE r.key \in Secrets
      <4>1. r \in [key : Secrets, counter : 1 .. MaxCounter, content : {"deleted"},
                   slots : {{}}, signer : Users]
        BY <1>4, <1>6, <3>1, ValidateAssumption DEF Records
      <4>2. s.counter = c /\ s.key = r.key
        BY <4>1
      <4>3. c <= MaxCounter => s \in [key : Secrets, counter : 1 .. MaxCounter,
                   content : {"deleted"}, slots : {{}}, signer : Users]
        <5>1. c <= MaxCounter => c \in 1..MaxCounter
          BY <2>3, ValidateAssumption
        <5> HIDE DEF c
        <5> QED
          BY <2>3, <4>1, <5>1, Resigned
      <4> HIDE DEF s
      <4> QED
        BY <4>2, <4>3 DEF Records
    <3>2. CASE r.key \notin Secrets
      <4>1. r \in [key : Grants, counter : 1 .. MaxCounter, content : {"granted", "deleted"},
                   slots : {{}}, signer : {root}]
        BY <1>4, <3>2 DEF Records
      <4>2. s.counter = c /\ s.key = r.key
        BY <4>1
      <4>3. c <= MaxCounter => s \in [key : Grants, counter : 1 .. MaxCounter,
                   content : {"granted", "deleted"}, slots : {{}}, signer : {root}]
        <5>1. (c <= MaxCounter => c \in 1..MaxCounter) /\ u \in {root}
          BY <2>2, <2>3, <3>2, ValidateAssumption
        <5> HIDE DEF c
        <5> QED
          BY <4>1, <5>1, Resigned
      <4> HIDE DEF s
      <4> QED
        BY <4>2, <4>3 DEF Records
    <3> QED
      BY <3>1, <3>2
  <2> HIDE DEF s
  <2>5. ASSUME s \in Records, ensure_resolution_effective(post_report(u, {s}), s)
        PROVE  s \in Admitted(vault[u] \cup {s}, Writers(vault[u] \cup {s}, {}))
    <3>1. CASE s.key \in Secrets
      BY <2>5, <3>1, CurrentIsAdmitted DEF ensure_resolution_effective, is_current
    <3>2. CASE s.key \notin Secrets
      <4>1. s.key \in Grants
        BY <2>5, <3>2, RecordFields
      <4> QED
        BY <4>1 DEF Admitted
    <3> QED
      BY <3>1, <3>2
  <2> QED
    BY <2>1, <2>3, <2>4, <2>5, CommitRecordStep
<1> QED
  BY <1>5, <1>6

----------------------------------------------------------------------------
(* Types *)

LEMMA RefuseTypes ==
  ASSUME TypeOK, NEW u \in Workers, Refuse(u)
  PROVE  TypeOK' /\ vault' = vault
<1>1. [vault |-> vault[u], todo |-> "none"] \in Sessions
  BY SessionTypes DEF Sessions, Todos
<1> QED
  BY <1>1 DEF TypeOK, Refuse

LEMMA CommitTypes ==
  ASSUME TypeOK, NEW u \in Workers, NEW N, N \subseteq Records, NEW todo \in Todos,
         Commit(u, N, todo)
  PROVE  /\ TypeOK'
         /\ vault'[u] = vault[u] \cup N
         /\ ratchet'[u] = apply_update(apply_update(ratchet[u], vault[u]), vault[u] \cup N)
         /\ \A w \in Workers \ {u} : vault'[w] = vault[w]
<1> DEFINE V2 == vault[u] \cup N
           t2 == apply_update(apply_update(ratchet[u], vault[u]), V2)
           s == [vault |-> V2, todo |-> todo]
<1>1. V2 \subseteq Records /\ ratchet[u] \in Ratchets /\ vault[u] \subseteq Records
  BY SessionTypes
<1>2. apply_update(ratchet[u], vault[u]) \in Ratchets
  BY <1>1, ApplyUpdateFacts
<1>3. t2 \in Ratchets
  <2> HIDE DEF V2
  <2> QED
    BY <1>1, <1>2, ApplyUpdateFacts
<1>4. s \in Sessions
  BY <1>1 DEF Sessions
<1>5. /\ vault' = [vault EXCEPT ![u] = V2] /\ ratchet' = [ratchet EXCEPT ![u] = t2]
      /\ session' = [session EXCEPT ![u] = s] /\ UNCHANGED commits
  BY DEF Commit
<1> HIDE DEF V2, t2, s
<1>6. TypeOK' /\ vault'[u] = V2 /\ ratchet'[u] = t2 /\ \A w \in Workers \ {u} : vault'[w] = vault[w]
  BY <1>1, <1>3, <1>4, <1>5 DEF TypeOK
<1> QED
  BY <1>6 DEF V2, t2

LEMMA RecordStepTypes ==
  ASSUME TypeOK, NEW u \in Workers, RecordStep(u)
  PROVE  TypeOK' /\ \A w \in Workers \ {u} : vault'[w] = vault[w]
<1>1. CASE Refuse(u)
  BY <1>1, RefuseTypes
<1>2. ASSUME NEW r \in Records, NEW todo \in Todos, Commit(u, {r}, todo)
      PROVE  TypeOK' /\ \A w \in Workers \ {u} : vault'[w] = vault[w]
  BY <1>2, CommitTypes
<1> QED
  BY <1>1, <1>2 DEF RecordStep

(* Convergence commits a batch of records, all of secrets.                  *)
BatchStep(u) ==
  \/ vault' = vault /\ TypeOK'
  \/ \E N \in SUBSET Records, todo \in Todos : Commit(u, N, todo)

LEMMA ConvergeStep ==
  ASSUME TypeOK, NEW u \in Workers, ConvergeReaders(u)
  PROVE  BatchStep(u)
<1> DEFINE counter == next_counter(current(u))
           opened  == {r \in missing_reader_candidates(report(u)) : u \in r.slots}
           resealed == {sealed(u, r.key, r.content, counter) : r \in opened}
<1>1. /\ session[u] # NoSession
      /\ IF opened = {}
         THEN /\ session' = [session EXCEPT ![u].todo = "none"]
              /\ UNCHANGED <<vault, ratchet, commits>>
         ELSE IF counter <= MaxCounter THEN Commit(u, resealed, "none") ELSE Refuse(u)
  BY DEF ConvergeReaders
<1>2. "none" \in Todos
  BY DEF Todos
<1>3. CASE opened = {}
  <2>1. session[u] \in Sessions
    BY <1>1 DEF TypeOK
  <2>2. [session[u] EXCEPT !.todo = "none"] \in Sessions
    BY <1>2, <2>1 DEF Sessions
  <2> QED
    BY <1>1, <1>3, <2>2 DEF BatchStep, TypeOK
<1>4. CASE opened # {} /\ ~(counter <= MaxCounter)
  BY <1>1, <1>4, RefuseTypes DEF BatchStep
<1>5. CASE opened # {} /\ counter <= MaxCounter
  <2>1. counter \in Nat /\ counter >= 1
    <3> DEFINE M == {current(u).marks[k] : k \in Keys}
    <3>1. current(u).marks \in [Keys -> 0..MaxCounter]
      BY SessionTypes, ReportTypes DEF current
    <3>2. M \subseteq 0..MaxCounter
      BY <3>1
    <3>3. Highest(M) \in 0..MaxCounter
      BY <3>2, HighestFacts, ValidateAssumption
    <3>4. counter = 1 + Highest(M)
      BY DEF next_counter
    <3> HIDE DEF M
    <3> QED
      BY <3>3, <3>4, ValidateAssumption
  <2>2. u \in Users /\ current(u).writers \subseteq Users
    BY SessionTypes, ReportTypes DEF current
  <2>3. report(u).current \subseteq Records
    <3>1. session[u].vault \subseteq Records /\ ratchet[u] \in Ratchets
      BY <1>1, SessionTypes
    <3>2. report(u).current \subseteq session[u].vault
      BY <3>1, ReportTypes DEF report
    <3> QED
      BY <3>1, <3>2
  <2>4. ASSUME NEW r \in opened
        PROVE  sealed(u, r.key, r.content, counter) \in Records
    <3>1. r.content \in Values /\ r \in Records
      BY <2>3 DEF missing_reader_candidates
    <3>2. r.key \in Secrets
      BY <3>1, RecordFields
    <3>3. counter \in 1..MaxCounter
      BY <1>5, <2>1, ValidateAssumption
    <3> HIDE DEF counter, opened
    <3> QED
      BY <2>2, <3>1, <3>2, <3>3 DEF sealed, Records
  <2>5. resealed \in SUBSET Records
    <3> HIDE DEF opened, counter
    <3> QED
      BY <2>4
  <2> QED
    BY <1>1, <1>2, <1>5, <2>5 DEF BatchStep
<1> QED
  BY <1>3, <1>4, <1>5

LEMMA InitTypes ==
  ASSUME Init
  PROVE  TypeOK
<1> DEFINE z == [k \in Keys |-> 0]
<1>1. z \in Ratchets /\ Genesis \subseteq Records
  BY ValidateAssumption, VaultLogAssumption DEF Ratchets
<1> HIDE DEF z
<1>2. apply_update(z, Genesis) \in Ratchets
  BY <1>1, ApplyUpdateFacts
<1> QED
  BY <1>1, <1>2 DEF Init, TypeOK, z

LEMMA LoadTypes ==
  ASSUME TypeOK, NEW u \in Workers, Load(u)
  PROVE  TypeOK' /\ vault' = vault
<1> DEFINE s == [vault |-> vault[u], todo |-> "none"]
<1>1. s \in Sessions /\ apply_update(ratchet[u], vault[u]) \in Ratchets
  BY SessionTypes, ApplyUpdateFacts DEF Sessions, Todos
<1>2. /\ session' = [session EXCEPT ![u] = s]
      /\ ratchet' = [ratchet EXCEPT ![u] = apply_update(ratchet[u], vault[u])]
      /\ UNCHANGED <<vault, commits>>
  BY DEF Load
<1> HIDE DEF s
<1> QED
  BY <1>1, <1>2 DEF TypeOK

LEMMA AcceptTypes ==
  ASSUME TypeOK, NEW u \in Workers, cmd_conflicts_accept(u)
  PROVE  TypeOK' /\ vault' = vault
<1>1. session[u] # NoSession
  BY DEF cmd_conflicts_accept, Idle
<1>2. PICK k \in report(u).conflicted : accept_rollback(u, k)
  BY DEF cmd_conflicts_accept, cmd_conflicts_list
<1>3. session[u].vault \subseteq Records /\ ratchet[u] \in Ratchets /\ vault[u] \subseteq Records
  BY <1>1, SessionTypes
<1>4. k \in Keys /\ report(u).marks \in [Keys -> 0..MaxCounter]
  BY <1>2, <1>3, ReportTypes DEF report
<1> DEFINE t == [ratchet[u] EXCEPT ![k] = report(u).marks[k]]
           s == [session[u] EXCEPT !.vault = vault[u]]
<1>5. t \in Ratchets
  BY <1>3, <1>4 DEF Ratchets
<1>6. session[u] \in Sessions
  BY <1>1 DEF TypeOK
<1>7. s \in Sessions
  BY <1>3, <1>6 DEF Sessions
<1>8. /\ ratchet' = [ratchet EXCEPT ![u] = t] /\ session' = [session EXCEPT ![u] = s]
      /\ UNCHANGED <<vault, commits>>
  BY <1>2 DEF accept_rollback
<1> HIDE DEF s, t
<1> QED
  BY <1>5, <1>7, <1>8 DEF TypeOK

LEMMA ResetTypes ==
  ASSUME TypeOK, NEW u \in Workers, cmd_trust_reset(u)
  PROVE  TypeOK' /\ vault' = vault
<1> DEFINE z == [k \in Keys |-> 0]
<1>1. z \in Ratchets
  BY ValidateAssumption DEF Ratchets
<1> HIDE DEF z
<1>2. apply_update(z, vault[u]) \in Ratchets
  BY <1>1, SessionTypes, ApplyUpdateFacts
<1>3. /\ ratchet' = [ratchet EXCEPT ![u] = apply_update(z, vault[u])]
      /\ UNCHANGED <<vault, session, commits>>
  BY DEF cmd_trust_reset, reset_ratchet, z
<1> QED
  BY <1>2, <1>3 DEF TypeOK

LEMMA GitTypes ==
  ASSUME TypeOK, NEW u \in Workers,
         \/ GitCommit(u)
         \/ \E version \in commits : GitCheckout(u, version)
         \/ \E base, theirs \in commits : cmd_merge_driver(u, base, theirs)
  PROVE  TypeOK' /\ session' = session
<1>1. vault[u] \subseteq Records /\ \A v \in commits : v \subseteq Records
  BY SessionTypes DEF TypeOK
<1>2. CASE GitCommit(u)
  BY <1>1, <1>2 DEF GitCommit, TypeOK
<1>3. ASSUME NEW version \in commits, GitCheckout(u, version)
      PROVE  TypeOK' /\ session' = session
  BY <1>1, <1>3 DEF GitCheckout, TypeOK
<1>4. ASSUME NEW base \in commits, NEW theirs \in commits, cmd_merge_driver(u, base, theirs)
      PROVE  TypeOK' /\ session' = session
  <2> DEFINE merged == merge_vaults(base, vault[u], theirs)
  <2>1. merged \subseteq Records
    BY <1>1 DEF merge_vaults
  <2>2. /\ vault' = [vault EXCEPT ![u] = merged]
        /\ commits' = commits \/ commits' = commits \cup {merged}
        /\ UNCHANGED <<ratchet, session>>
    BY <1>4 DEF cmd_merge_driver
  <2> HIDE DEF merged
  <2> QED
    BY <2>1, <2>2 DEF TypeOK
<1> QED
  BY <1>2, <1>3, <1>4

(* Every step is one of a record, the convergence, or changes not both the  *)
(* file and the session.                                                    *)
LEMMA StepKinds ==
  ASSUME TypeOK, [Next]_vars
  PROVE  \/ TypeOK' /\ (vault' = vault \/ session' = session)
         \/ \E u \in Workers : RecordStep(u) \/ ConvergeReaders(u)
<1>1. CASE UNCHANGED vars
  BY <1>1 DEF vars, TypeOK
<1>2. ASSUME NEW u \in Workers, Close(u)
      PROVE  TypeOK' /\ vault' = vault
  BY <1>2 DEF Close, TypeOK
<1>3. ASSUME NEW u \in Workers, Vacate(u)
      PROVE  RecordStep(u)
  BY <1>3, DeleteStep DEF Vacate
<1>4. ASSUME NEW u \in Workers, NEW k \in Secrets, NEW value \in Values, SetSecret(u, k, value)
      PROVE  RecordStep(u)
  <2>1. "none" \in Todos
    BY DEF Todos
  <2> QED
    BY <1>4, <2>1, SetStep DEF SetSecret
<1>5. ASSUME NEW u \in Workers, NEW k \in Secrets, DeleteSecret(u, k)
      PROVE  RecordStep(u)
  BY <1>5, DeleteStep DEF DeleteSecret
<1>6. ASSUME NEW version \in commits, NEW r \in Records, ForeignCommit(version, r)
      PROVE  TypeOK' /\ vault' = vault
  BY <1>6 DEF ForeignCommit, TypeOK
<1> QED
  BY <1>1, <1>2, <1>3, <1>4, <1>5, <1>6, LoadTypes, AcceptTypes, ResetTypes, GitTypes,
     GrantStep, RelabelStep, ResolveStep DEF Next

LEMMA NextTypes ==
  ASSUME TypeOK, [Next]_vars
  PROVE  TypeOK'
<1>1. ASSUME NEW u \in Workers, ConvergeReaders(u)
      PROVE  TypeOK'
  <2>1. BatchStep(u)
    BY <1>1, ConvergeStep
  <2> QED
    BY <2>1, CommitTypes DEF BatchStep
<1> QED
  BY <1>1, StepKinds, RecordStepTypes

(* The type invariant: every record a commit appends is well formed, its    *)
(* counter within the ceiling, whoever signs it and whatever it resolves.   *)
THEOREM TypesCorrect == Spec => []TypeOK
BY InitTypes, NextTypes, PTL DEF Spec

(* Whatever git checked out, merged or dropped, a session shows no secret   *)
(* older than what this machine has verified, as long as no grant is under  *)
(* suspicion (validate_v1, lww_resolution).                                 *)
THEOREM NothingStaleShown == Spec => []ShownNotBelowMemory
<1>1. TypeOK => ShownNotBelowMemory
  <2> SUFFICES ASSUME TypeOK, NEW u \in Workers, session[u] # NoSession,
                      report(u).rolled \cap Grants = {}, NEW r \in report(u).current
               PROVE  r.counter >= ratchet[u][r.key]
    BY DEF ShownNotBelowMemory, Open
  <2> DEFINE R == session[u].vault
             t == ratchet[u]
  <2>1. R \subseteq Records /\ t \in Ratchets
    BY SessionTypes
  <2>2. Rolled(R, t) \cap Grants = {} /\ r \in validate_v1(R, t).current
    BY Report DEF report
  <2> QED
    BY <2>1, <2>2, CurrentNotBelow
<1> QED
  BY <1>1, TypesCorrect, PTL

(* A member the state lets write can make its write effective, below the    *)
(* counter ceiling, at rolled-back and contested keys too (commit_record).  *)
THEOREM WritersPrevail == Spec => []WriteTakesEffect
BY WriteLands, TypesCorrect, PTL

----------------------------------------------------------------------------
(* Commits and the memory *)

LEMMA RecordAdvances ==
  ASSUME TypeOK, NEW u \in Workers, RecordStep(u), NEW r \in vault'[u] \ vault[u]
  PROVE  ratchet[u][r.key] < r.counter /\ ratchet'[u][r.key] = r.counter
<1>1. PICK x \in Records, todo \in Todos : Admissible(u, x) /\ Commit(u, {x}, todo)
  BY RefuseTypes DEF RecordStep
<1> DEFINE V == vault[u]
           V2 == V \cup {x}
           t == ratchet[u]
           t2 == apply_update(t, V)
           k == x.key
<1>2. vault'[u] = V2 /\ ratchet'[u] = apply_update(t2, V2)
  BY <1>1, CommitTypes
<1>3. r = x
  BY <1>2
<1>4. V \subseteq Records /\ t \in Ratchets /\ V2 \subseteq Records /\ k \in Keys
  BY SessionTypes, RecordFields
<1>5. x.counter \in Nat /\ admitted_watermarks(V)[k] \in Nat /\ t[k] \in Nat
  BY <1>4, RecordFields, MarksType DEF Ratchets
<1>6. admitted_watermarks(V)[k] < x.counter /\ t[k] < x.counter
  BY <1>1, <1>4, FreshType DEF Admissible
<1>7. x \in Admitted(V2, Writers(V2, {}))
  BY <1>1 DEF Admissible
<1>8. admitted_watermarks(V2)[k] = x.counter
  BY <1>4, <1>5, <1>6, <1>7, MarkOfNew
<1>9. t2 \in Ratchets /\ t2[k] \in Nat /\ t2[k] < x.counter
  <2>1. /\ t2 \in Ratchets
        /\ t2[k] = IF admitted_watermarks(V)[k] > t[k] THEN admitted_watermarks(V)[k] ELSE t[k]
    BY <1>4, ApplyUpdateFacts
  <2> HIDE DEF t2
  <2> QED
    BY <1>5, <1>6, <2>1
<1> HIDE DEF t2, V2
<1>10. apply_update(t2, V2)[k] =
         IF admitted_watermarks(V2)[k] > t2[k] THEN admitted_watermarks(V2)[k] ELSE t2[k]
  BY <1>4, <1>9, ApplyUpdateFacts
<1> QED
  BY <1>2, <1>3, <1>5, <1>6, <1>8, <1>9, <1>10

(* What an ordinary operation appends lies above everything the machine had *)
(* verified at that key, and is remembered (commit_record, apply_update).   *)
THEOREM CommitsRemembered == Spec => CommitsAdvanceMemory
<1>1. ASSUME TypeOK, [Next]_vars, NEW u \in Workers, Commits(u)
      PROVE  \/ \A r \in vault'[u] \ vault[u] :
                   ratchet[u][r.key] < r.counter /\ ratchet'[u][r.key] = r.counter
             \/ ConvergeReaders(u)
  <2>1. vault' # vault /\ session' # session /\ vault'[u] # vault[u]
    BY <1>1 DEF Commits
  <2>2. PICK w \in Workers : RecordStep(w) \/ ConvergeReaders(w)
    BY <1>1, <2>1, StepKinds
  <2>3. w = u
    <3>1. CASE RecordStep(w)
      BY <1>1, <2>1, <3>1, RecordStepTypes
    <3>2. CASE ConvergeReaders(w)
      <4>1. BatchStep(w)
        BY <1>1, <3>2, ConvergeStep
      <4> QED
        BY <1>1, <2>1, <4>1, CommitTypes DEF BatchStep
    <3> QED
      BY <2>2, <3>1, <3>2
  <2> QED
    BY <1>1, <2>2, <2>3, RecordAdvances
<1>2. TypeOK /\ [Next]_vars =>
        [\A u \in Workers : Commits(u) =>
          \/ \A r \in vault'[u] \ vault[u] :
                 ratchet[u][r.key] < r.counter /\ ratchet'[u][r.key] = r.counter
          \/ ConvergeReaders(u)]_vars
  BY <1>1
<1> QED
  BY <1>2, TypesCorrect, PTL DEF Spec, CommitsAdvanceMemory

----------------------------------------------------------------------------
(* Commits and the other secrets *)

LEMMA ShownAt ==
  ASSUME NEW R, R \subseteq Records, NEW t, NEW k \in Secrets, NEW r
  PROVE  r \in secret_record(validate_v1(R, t), k) <=>
           /\ k \notin Rolled(R, t) \cup Ties(R, t)
           /\ r \in Winners(AtKey(Admitted(R, Writers(R, Rolled(R, t))), k))
           /\ r.content \in Values
<1> DEFINE A == Admitted(R, Writers(R, Rolled(R, t)))
           C == Rolled(R, t) \cup Ties(R, t)
<1>1. validate_v1(R, t).current = secret_index(A, C)
  BY Report
<1>2. \A j, x : x \in Winners(AtKey(A, j)) => x.key = j
  BY DEF Winners, Leaders, AtKey
<1> HIDE DEF A, C
<1>3. r \in secret_index(A, C) /\ r.key = k <=> k \notin C /\ r \in Winners(AtKey(A, k))
  BY <1>2 DEF secret_index
<1> QED
  BY <1>1, <1>3 DEF secret_record, A, C

(* Once the memory has been raised by the vault and by what was appended,   *)
(* the keys that were not written are behind it or not as before.           *)
LEMMA RolledElsewhere ==
  ASSUME NEW V, V \subseteq Records, NEW t \in Ratchets, NEW N, N \subseteq Records,
         \A r \in N : r.key \notin Grants, NEW k \in Keys, \A r \in N : r.key # k
  PROVE  k \in Rolled(V \cup N, apply_update(apply_update(t, V), V \cup N))
           <=> k \in Rolled(V, t)
<1> DEFINE V2 == V \cup N
           t2 == apply_update(t, V)
           t3 == apply_update(t2, V2)
           n == admitted_watermarks(V)[k]
<1>1. admitted_watermarks(V2)[k] = n
  BY MarksElsewhere
<1>2. n \in Nat /\ t[k] \in Nat /\ V2 \subseteq Records
  BY MarksType DEF Ratchets
<1>3. t2 \in Ratchets /\ t2[k] = IF n > t[k] THEN n ELSE t[k]
  BY ApplyUpdateFacts
<1> HIDE DEF t2, V2
<1>4. t3[k] = IF admitted_watermarks(V2)[k] > t2[k] THEN admitted_watermarks(V2)[k] ELSE t2[k]
  BY <1>2, <1>3, ApplyUpdateFacts
<1> HIDE DEF t3
<1>5. t3[k] = IF n > t[k] THEN n ELSE t[k]
  BY <1>1, <1>2, <1>3, <1>4
<1>6. k \in Rolled(V2, t3) <=> k \in Rolled(V, t)
  <2> HIDE DEF n
  <2>1. k \in Rolled(V2, t3) <=> n < t3[k]
    BY <1>1 DEF Rolled, rollback_keys
  <2>2. k \in Rolled(V, t) <=> n < t[k]
    BY DEF Rolled, rollback_keys, n
  <2> QED
    BY <1>2, <1>5, <2>1, <2>2
<1> QED
  BY <1>6 DEF t3, t2, V2

LEMMA OtherSecretsKept ==
  ASSUME NEW V, V \subseteq Records, NEW t \in Ratchets, NEW V2, V2 \subseteq Records,
         V \subseteq V2, \A r \in V2 \ V : r.key \notin Grants,
         NEW k \in Secrets, \A r \in V2 \ V : r.key # k,
         NEW t3, t3 = apply_update(apply_update(t, V), V2)
  PROVE  secret_record(validate_v1(V2, t3), k) = secret_record(validate_v1(V, t), k)
<1> DEFINE N == V2 \ V
           X == Rolled(V, t)
           X3 == Rolled(V2, t3)
           W == Writers(V, X)
<1>0. /\ V2 = V \cup N /\ N \subseteq Records
      /\ (\A r \in N : r.key \notin Grants) /\ (\A r \in N : r.key # k)
  OBVIOUS
<1> HIDE DEF N
<1>1. k \in Keys /\ \A g \in Grants : g \in Keys /\ \A r \in N : r.key # g
  BY <1>0 DEF Keys
<1>2. k \in X3 <=> k \in X
  BY <1>0, <1>1, RolledElsewhere
<1>3. X3 \cap Grants = X \cap Grants
  <2>1. \A g \in Grants : g \in X3 <=> g \in X
    BY <1>0, <1>1, RolledElsewhere
  <2> QED
    BY <2>1
<1>5. Writers(V2, X3) = W
  <2>1. Writers(V2, X3) = Writers(V, X3)
    BY <1>0, SecretsGrantNothing
  <2> QED
    BY <1>3, <2>1, WritersBySuspectedGrants
<1>6. AtKey(Admitted(V2, W), k) = AtKey(Admitted(V, W), k)
  BY <1>0 DEF AtKey, Admitted
<1>7. k \in Ties(V2, t3) <=> k \in Ties(V, t)
  BY <1>2, <1>5, <1>6 DEF Ties
<1>8. \A r : r \in secret_record(validate_v1(V2, t3), k)
               <=> r \in secret_record(validate_v1(V, t), k)
  <2> SUFFICES ASSUME NEW r
               PROVE  r \in secret_record(validate_v1(V2, t3), k)
                        <=> r \in secret_record(validate_v1(V, t), k)
    OBVIOUS
  <2>1. r \in secret_record(validate_v1(V2, t3), k) <=>
           /\ k \notin X3 \cup Ties(V2, t3)
           /\ r \in Winners(AtKey(Admitted(V2, Writers(V2, X3)), k))
           /\ r.content \in Values
    BY ShownAt
  <2>2. r \in secret_record(validate_v1(V, t), k) <=>
           /\ k \notin X \cup Ties(V, t)
           /\ r \in Winners(AtKey(Admitted(V, W), k))
           /\ r.content \in Values
    BY ShownAt
  <2> QED
    BY <1>2, <1>5, <1>6, <1>7, <2>1, <2>2
<1> QED
  BY <1>8 DEF secret_record

(* A commit that writes only secrets neither hides nor revives a value      *)
(* elsewhere (commit_record, apply_update, validate_v1).                    *)
THEOREM OtherSecretsUndisturbed == Spec => SecretsAreIndependent
<1>1. ASSUME TypeOK, [Next]_vars, NEW u \in Workers, Commits(u),
             {r.key : r \in vault'[u] \ vault[u]} \subseteq Secrets,
             NEW k \in Secrets \ {r.key : r \in vault'[u] \ vault[u]}
      PROVE  secret_record(validate_v1(vault'[u], ratchet'[u]), k) = secret_record(current(u), k)
  <2> DEFINE V == vault[u]
  <2>1. vault' # vault /\ session' # session /\ vault'[u] # vault[u]
    BY <1>1 DEF Commits
  <2>2. PICK w \in Workers : RecordStep(w) \/ ConvergeReaders(w)
    BY <1>1, <2>1, StepKinds
  <2>3. PICK M \in SUBSET Records, todo \in Todos : Commit(w, M, todo)
    <3>1. CASE RecordStep(w)
      BY <1>1, <2>1, <3>1, RefuseTypes DEF RecordStep
    <3>2. CASE ConvergeReaders(w)
      BY <1>1, <2>1, <3>2, ConvergeStep DEF BatchStep
    <3> QED
      BY <2>2, <3>1, <3>2
  <2>4. /\ vault'[w] = vault[w] \cup M
        /\ ratchet'[w] = apply_update(apply_update(ratchet[w], vault[w]), vault[w] \cup M)
        /\ \A x \in Workers \ {w} : vault'[x] = vault[x]
    BY <1>1, <2>3, CommitTypes
  <2>5. w = u
    BY <2>1, <2>4
  <2> DEFINE V2 == vault'[u]
             t3 == ratchet'[u]
  <2>6. /\ V \subseteq Records /\ ratchet[u] \in Ratchets
        /\ V \subseteq V2 /\ V2 \subseteq Records
    BY <1>1, <2>4, <2>5, SessionTypes
  <2>7. k \in Secrets /\ \A r \in V2 \ V : r.key \notin Grants /\ r.key # k
    BY <1>1, ValidateAssumption
  <2>8. t3 = apply_update(apply_update(ratchet[u], V), V2)
    BY <2>4, <2>5
  <2>9. current(u) = validate_v1(V, ratchet[u])
    BY DEF current
  <2> HIDE DEF V, V2, t3
  <2>10. secret_record(validate_v1(V2, t3), k) = secret_record(validate_v1(V, ratchet[u]), k)
    BY <2>6, <2>7, <2>8, OtherSecretsKept
  <2> QED
    BY <2>9, <2>10 DEF V2, t3
<1>2. TypeOK /\ [Next]_vars =>
        [\A u \in Workers : Commits(u) =>
          LET written == {r.key : r \in vault'[u] \ vault[u]}
          IN  written \subseteq Secrets =>
                \A was \in {current(u)}, now \in {validate_v1(vault'[u], ratchet'[u])} :
                    \A k \in Secrets \ written : secret_record(now, k) = secret_record(was, k)]_vars
  BY <1>1
<1> QED
  BY <1>2, TypesCorrect, PTL DEF Spec, SecretsAreIndependent
=============================================================================
