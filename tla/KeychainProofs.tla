--------------------------- MODULE KeychainProofs ---------------------------
(* Theorems about Keychain: whatever commands run side by side and wherever *)
(* one of them dies, the identity sealed last is never lost, no migration   *)
(* brings an older one back, and none wedges a root.                        *)
EXTENDS Keychain, FiniteSetTheorems, TLAPS

(* The stages at which a command holds the lock on its root.                *)
Locked == {"combined", "split", "store", "select", "read", "find", "legacylock",
           "legacy", "rewrite", "found"}

(* A command q knows whose identity it handles, and has sealed what it      *)
(* stores.                                                                  *)
Prepared(q) ==
  /\ q.cmd \in {"init", "claim", "select"} => q.user \in Users
  /\ q.at \in {"store", "find", "legacylock", "legacy", "rewrite", "found"}
       => q.user \in Users
  /\ q.at = "trust" /\ q.cmd = "init" => q.stored
  /\ q.at \in {"lock", "combined", "split"} /\ q.cmd \in {"init", "claim"} /\ ~q.stored
       => q.seal # 0
  /\ q.at = "store" => q.seal # 0
  /\ q.at = "read" => q.cmd = "act"

(* The locks a command holds.                                               *)
Exclusive(p) ==
  /\ proc[p].at \in Locked => lock[proc[p].root] = p
  /\ proc[p].at \in {"legacy", "rewrite"} => legacy_lock[proc[p].user] = p

(* What a command may rely on while it holds them.  The combined file is    *)
(* gone before anything but the split writes, and an identity is taken over *)
(* from the user's own file only where the root had none.                   *)
Undisturbed(p) ==
  LET q == proc[p]
  IN  /\ q.at = "split" =>
           /\ combined[q.root] # NoFile
           /\ Cardinality(combined[q.root].current) <= 1
      /\ q.at \in Locked \ {"combined", "split"} => combined[q.root] = NoFile
      /\ q.at \in {"legacylock", "legacy"} => identity[q.root][q.user] = 0
      /\ q.at = "rewrite" => identity[q.root][q.user] # 0 /\ legacy[q.user] # NoFile

(* An older layout's seal counts only where no newer layout has one, and    *)
(* there it is the latest.                                                  *)
InCombined(r, u) == combined[r] # NoFile /\ combined[r].ids[u] # 0
InLegacy(r, u) == legacy[u] # NoFile /\ legacy[u].ids[r] # 0
Successive(r, u) ==
  /\ identity[r][u] = 0 /\ InCombined(r, u) => combined[r].ids[u] = latest[r][u]
  /\ identity[r][u] = 0 /\ ~InCombined(r, u) /\ InLegacy(r, u)
       => legacy[u].ids[r] = latest[r][u]

Layered == \A r \in Roots, u \in Users : Successive(r, u)

Inductive ==
  /\ TypeOK
  /\ \A p \in Procs : Prepared(proc[p]) /\ Exclusive(p) /\ Undisturbed(p)
  /\ Layered
  /\ OnlyLatest
  /\ IdentityNeverLost

Procedures ==
  [at : Stages, cmd : Commands, root : Roots, user : Users \cup {Nobody},
   seal : 0..OldSeals + MaxSeals, stored : BOOLEAN]

----------------------------------------------------------------------------
(* Types *)

LEMMA IdleType ==
  /\ Idle \in Procedures
  /\ Prepared(Idle) /\ Idle.at = "idle" /\ Idle.at \notin Locked
BY KeychainAssumption DEF Idle, Procedures, Stages, Commands, Prepared, Locked

LEMMA FieldTypes ==
  ASSUME TypeOK, NEW p \in Procs
  PROVE  /\ proc[p] \in Procedures
         /\ proc[p].at \in Stages /\ proc[p].cmd \in Commands
         /\ proc[p].root \in Roots /\ proc[p].user \in Users \cup {Nobody}
         /\ proc[p].seal \in 0..OldSeals + MaxSeals /\ proc[p].stored \in BOOLEAN
BY DEF TypeOK, Procedures

LEMMA InitType ==
  ASSUME Init
  PROVE  TypeOK
<1>1. PICK s \in Starts :
        /\ identity = s.identity /\ current = s.current
        /\ combined = s.combined /\ legacy = s.legacy
        /\ trust = s.trust /\ latest = s.latest
  BY DEF Init
<1>2. Layout(s)
  BY StartsAssumption
<1>3. 0..OldSeals \subseteq 0..OldSeals + MaxSeals
  BY KeychainAssumption
<1>4. /\ identity \in [Roots -> [Users -> 0..OldSeals + MaxSeals]]
      /\ latest \in [Roots -> [Users -> 0..OldSeals + MaxSeals]]
  BY <1>1, <1>2, <1>3 DEF Layout
<1> QED
  BY <1>1, <1>2, <1>4, IdleType, KeychainAssumption DEF Init, TypeOK, Layout, Procedures

LEMMA InitInductive ==
  ASSUME Init
  PROVE  Inductive
<1>1. PICK s \in Starts :
        /\ identity = s.identity /\ current = s.current
        /\ combined = s.combined /\ legacy = s.legacy
        /\ trust = s.trust /\ latest = s.latest
  BY DEF Init
<1>2. Layout(s)
  BY StartsAssumption
<1>3. TypeOK
  BY InitType
<1>4. ASSUME NEW p \in Procs
      PROVE  Prepared(proc[p]) /\ Exclusive(p) /\ Undisturbed(p)
  BY IdleType DEF Init, Exclusive, Undisturbed, Locked
<1>5. ASSUME NEW r \in Roots, NEW u \in Users
      PROVE  /\ latest[r][u] = IF identity[r][u] # 0 THEN identity[r][u]
                               ELSE IF InCombined(r, u) THEN combined[r].ids[u]
                               ELSE IF InLegacy(r, u) THEN legacy[u].ids[r] ELSE 0
  BY <1>1, <1>2 DEF Layout, InCombined, InLegacy
<1>6. Layered
  BY <1>5 DEF Layered, Successive
<1>7. OnlyLatest
  BY <1>5 DEF OnlyLatest
<1>8. IdentityNeverLost
  BY <1>5 DEF IdentityNeverLost, InCombined, InLegacy
<1> QED
  BY <1>3, <1>4, <1>6, <1>7, <1>8 DEF Inductive, Layered

----------------------------------------------------------------------------
(* Steps that leave the files alone *)

(* What a command may rely on depends on the files and its own locks only.  *)
LEMMA FilesKept ==
  ASSUME Inductive, UNCHANGED <<files, latest>>
  PROVE  Layered' /\ OnlyLatest' /\ IdentityNeverLost'
BY DEF Inductive, files, Layered, Successive, InCombined, InLegacy, OnlyLatest,
   IdentityNeverLost

(* The locks of p are dropped, the others stay.                             *)
LEMMA ReleaseLocks ==
  ASSUME TypeOK, NEW p \in Procs
  PROVE  /\ Unlocked(p) \in [Roots -> Procs \cup {Free}]
         /\ UnlockedUser(p) \in [Users -> Procs \cup {Free}]
         /\ \A q \in Procs \ {p}, r \in Roots : lock[r] = q => Unlocked(p)[r] = q
         /\ \A q \in Procs \ {p}, u \in Users :
               legacy_lock[u] = q => UnlockedUser(p)[u] = q
BY DEF TypeOK, Unlocked, UnlockedUser

(* A step of p that leaves the other commands and their locks alone.        *)
Aside(p) ==
  /\ \A q \in Procs \ {p} : proc'[q] = proc[q]
  /\ \A q \in Procs \ {p}, r \in Roots : lock[r] = q => lock'[r] = q
  /\ \A q \in Procs \ {p}, u \in Users : legacy_lock[u] = q => legacy_lock'[u] = q

(* What another command has prepared and the locks it holds are as before.  *)
LEMMA OthersLocked ==
  ASSUME Inductive, NEW p \in Procs, Aside(p), NEW q \in Procs \ {p}
  PROVE  /\ proc'[q] = proc[q]
         /\ Prepared(proc[q])' /\ Exclusive(q)'
<1>1. proc'[q] = proc[q] /\ q \in Procs
  BY DEF Aside
<1>2. Prepared(proc[q]) /\ Exclusive(q)
  BY <1>1 DEF Inductive
<1>3. proc[q].root \in Roots
  BY FieldTypes DEF Inductive
<1>4. proc[q].at \in {"legacy", "rewrite"} => proc[q].user \in Users
  BY <1>2 DEF Prepared
<1>5. Exclusive(q)'
  BY <1>1, <1>2, <1>3, <1>4 DEF Exclusive, Aside
<1> QED
  BY <1>1, <1>2, <1>5 DEF Prepared

(* A step of p that changes no file and leaves p where it knows what it     *)
(* must know.                                                               *)
LEMMA OthersKeep ==
  ASSUME Inductive, NEW p \in Procs, TypeOK', Aside(p),
         UNCHANGED <<files, latest>>,
         Prepared(proc[p])', Exclusive(p)', Undisturbed(p)'
  PROVE  Inductive'
<1>1. ASSUME NEW q \in Procs, q # p
      PROVE  (Prepared(proc[q]) /\ Exclusive(q) /\ Undisturbed(q))'
  <2>1. proc'[q] = proc[q] /\ Prepared(proc[q])' /\ Exclusive(q)'
    BY <1>1, OthersLocked
  <2>2. Undisturbed(q)
    BY DEF Inductive
  <2>3. Undisturbed(q)'
    BY <2>1, <2>2 DEF Undisturbed, files
  <2> QED
    BY <2>1, <2>3
<1> QED
  BY <1>1, FilesKept DEF Inductive, Layered

(* The command ends, by itself or not: its locks are dropped.               *)
LEMMA EndKeeps ==
  ASSUME Inductive, NEW p \in Procs, Done(p), lock' = Unlocked(p),
         legacy_lock' = UnlockedUser(p), crashes' \in 0..MaxCrashes,
         UNCHANGED <<files, trust, seals, latest>>
  PROVE  Inductive'
<1>1. TypeOK
  BY DEF Inductive
<1>2. TypeOK'
  BY <1>1, ReleaseLocks, IdleType DEF TypeOK, Done, files, Procedures
<1>3. proc'[p] = Idle
  BY <1>1 DEF Done, TypeOK
<1>4. Prepared(proc[p])' /\ Exclusive(p)' /\ Undisturbed(p)'
  BY <1>3, IdleType DEF Prepared, Exclusive, Undisturbed, Locked
<1>5. Aside(p)
  BY <1>1, ReleaseLocks DEF Done, TypeOK, Aside
<1> QED
  BY <1>2, <1>4, <1>5, OthersKeep

LEMMA FailStep ==
  ASSUME Inductive, NEW p \in Procs, Fail(p)
  PROVE  Inductive'
BY EndKeeps DEF Fail, Inductive, TypeOK

LEMMA CrashStep ==
  ASSUME Inductive, NEW p \in Procs, Crash(p)
  PROVE  Inductive'
<1>1. crashes' \in 0..MaxCrashes
  BY KeychainAssumption DEF Crash, Inductive, TypeOK
<1> QED
  BY <1>1, EndKeeps DEF Crash

(* A command moves on to another stage, with its record otherwise as it was *)
(* and nothing else changed.                                                *)
LEMMA GotoRecord ==
  ASSUME TypeOK, NEW p \in Procs, NEW stage \in Stages, Goto(p, stage)
  PROVE  /\ proc' \in [Procs -> Procedures]
         /\ \A q \in Procs \ {p} : proc'[q] = proc[q]
         /\ proc'[p].at = stage /\ proc'[p].cmd = proc[p].cmd
         /\ proc'[p].root = proc[p].root /\ proc'[p].user = proc[p].user
         /\ proc'[p].seal = proc[p].seal /\ proc'[p].stored = proc[p].stored
<1>1. proc \in [Procs -> Procedures]
  BY DEF TypeOK, Procedures
<1>2. [proc[p] EXCEPT !.at = stage] \in Procedures
  BY <1>1, FieldTypes DEF Procedures
<1> QED
  BY <1>1, <1>2 DEF Goto, Procedures

LEMMA BeginStep ==
  ASSUME Inductive, NEW p \in Procs, NEW cmd \in Commands, NEW r \in Roots,
         NEW u \in Users \cup {Nobody}, NEW stage \in {"seal", "trust", "lock"},
         Begin(p, cmd, r, u, stage),
         cmd \in {"init", "claim", "select"} => u \in Users,
         stage = "trust" => cmd # "init",
         stage = "lock" => cmd \notin {"init", "claim"}
  PROVE  Inductive'
<1> DEFINE new == [Idle EXCEPT !.at = stage, !.cmd = cmd, !.root = r, !.user = u]
<1>1. TypeOK
  BY DEF Inductive
<1>2. new \in Procedures /\ new.at = stage /\ new.cmd = cmd /\ new.user = u
  BY IdleType DEF Procedures, Stages
<1>3. proc'[p] = new
  BY <1>1 DEF Begin, TypeOK
<1>4. TypeOK'
  BY <1>1, <1>2 DEF TypeOK, Begin, files, Procedures
<1>5. Prepared(proc[p])' /\ Exclusive(p)' /\ Undisturbed(p)'
  BY <1>2, <1>3 DEF Prepared, Exclusive, Undisturbed, Locked
<1>6. Aside(p)
  BY <1>1 DEF Begin, TypeOK, Aside
<1> QED
  BY <1>4, <1>5, <1>6, OthersKeep DEF Begin

LEMMA StartStep ==
  ASSUME Inductive, NEW p \in Procs, Start(p)
  PROVE  Inductive'
<1>1. PICK r \in Roots :
         \/ \E u \in Users : BeginInit(p, r, u) \/ BeginClaim(p, r, u) \/ BeginSelect(p, r, u)
         \/ BeginAct(p, r) \/ BeginClear(p, r)
  BY DEF Start
<1>2. ASSUME NEW u \in Users, BeginInit(p, r, u) \/ BeginClaim(p, r, u) \/ BeginSelect(p, r, u)
      PROVE  Inductive'
  BY <1>2, BeginStep DEF BeginInit, BeginClaim, BeginSelect, Commands
<1>3. ASSUME BeginAct(p, r) \/ BeginClear(p, r)
      PROVE  Inductive'
  BY <1>3, BeginStep DEF BeginAct, BeginClear, Commands
<1> QED
  BY <1>1, <1>2, <1>3

LEMMA EstablishTrustStep ==
  ASSUME Inductive, NEW p \in Procs, EstablishTrust(p)
  PROVE  Inductive'
<1>1. TypeOK /\ Prepared(proc[p]) /\ proc[p].root \in Roots
  BY FieldTypes DEF Inductive
<1>2. CASE Fail(p)
  BY <1>2, FailStep
<1>3. CASE /\ trust' = [trust EXCEPT ![proc[p].root] = TRUE]
           /\ Goto(p, IF proc[p].cmd = "claim" THEN "seal" ELSE "lock")
           /\ UNCHANGED <<files, lock, legacy_lock, seals, crashes, latest>>
  <2> DEFINE stage == IF proc[p].cmd = "claim" THEN "seal" ELSE "lock"
  <2>1. stage \in Stages /\ Goto(p, stage)
    BY <1>3 DEF Stages
  <2> HIDE DEF stage
  <2>2. /\ proc' \in [Procs -> Procedures]
        /\ \A q \in Procs \ {p} : proc'[q] = proc[q]
        /\ proc'[p].at = stage /\ proc'[p].cmd = proc[p].cmd
        /\ proc'[p].user = proc[p].user /\ proc'[p].stored = proc[p].stored
    BY <1>1, <2>1, GotoRecord
  <2>3. TypeOK'
    BY <1>1, <1>3, <2>2 DEF TypeOK, files, Procedures
  <2>4. Prepared(proc[p])' /\ Exclusive(p)' /\ Undisturbed(p)'
    BY <1>1, <2>2 DEF Prepared, Exclusive, Undisturbed, Locked, stage, EstablishTrust
  <2>5. Aside(p)
    BY <1>3, <2>2 DEF Aside
  <2> QED
    BY <1>3, <2>3, <2>4, <2>5, OthersKeep
<1> QED
  BY <1>2, <1>3 DEF EstablishTrust

LEMMA SealIdentityStep ==
  ASSUME Inductive, NEW p \in Procs, SealIdentity(p)
  PROVE  Inductive'
<1>1. TypeOK /\ Prepared(proc[p]) /\ proc[p].root \in Roots
  BY FieldTypes DEF Inductive
<1>2. CASE Fail(p)
  BY <1>2, FailStep
<1>3. CASE /\ seals < MaxSeals
           /\ seals' = seals + 1
           /\ proc' = [proc EXCEPT ![p].at = "lock", ![p].seal = OldSeals + seals + 1]
           /\ UNCHANGED <<files, lock, legacy_lock, trust, crashes, latest>>
  <2>1. /\ OldSeals + seals + 1 \in 0..OldSeals + MaxSeals
        /\ OldSeals + seals + 1 # 0 /\ seals' \in 0..MaxSeals
    BY <1>1, <1>3, KeychainAssumption DEF TypeOK
  <2> DEFINE new == [proc[p] EXCEPT !.at = "lock", !.seal = OldSeals + seals + 1]
  <2>2. proc[p] \in Procedures
    BY <1>1, FieldTypes
  <2>3. /\ new \in Procedures /\ new.at = "lock" /\ new.seal # 0
        /\ new.cmd = proc[p].cmd /\ new.user = proc[p].user
    BY <2>1, <2>2 DEF Procedures, Stages
  <2>4. proc' = [proc EXCEPT ![p] = new]
    BY <1>3
  <2> HIDE DEF new
  <2>5. /\ proc' \in [Procs -> Procedures] /\ proc'[p] = new
        /\ \A q \in Procs \ {p} : proc'[q] = proc[q]
    BY <1>1, <2>3, <2>4 DEF TypeOK, Procedures
  <2>6. TypeOK'
    BY <1>1, <1>3, <2>1, <2>5 DEF TypeOK, files, Procedures
  <2>7. Prepared(proc[p])' /\ Exclusive(p)' /\ Undisturbed(p)'
    BY <1>1, <2>3, <2>5 DEF Prepared, Exclusive, Undisturbed, Locked
  <2>8. Aside(p)
    BY <1>3, <2>5 DEF Aside
  <2> QED
    BY <1>3, <2>6, <2>7, <2>8, OthersKeep
<1> QED
  BY <1>2, <1>3 DEF SealIdentity

(* p moves on with no file changed, keeping the locks of the others.        *)
LEMMA MoveStep ==
  ASSUME Inductive, NEW p \in Procs, NEW stage \in Stages, Goto(p, stage),
         lock' \in [Roots -> Procs \cup {Free}],
         legacy_lock' \in [Users -> Procs \cup {Free}],
         UNCHANGED <<files, trust, seals, crashes, latest>>,
         \A q \in Procs \ {p}, r \in Roots : lock[r] = q => lock'[r] = q,
         \A q \in Procs \ {p}, u \in Users : legacy_lock[u] = q => legacy_lock'[u] = q,
         Prepared(proc[p])', Exclusive(p)', Undisturbed(p)'
  PROVE  Inductive'
<1>1. /\ proc' \in [Procs -> Procedures]
      /\ \A q \in Procs \ {p} : proc'[q] = proc[q]
  BY GotoRecord DEF Inductive
<1>2. TypeOK'
  BY <1>1 DEF Inductive, TypeOK, files, Procedures
<1>3. Aside(p)
  BY <1>1 DEF Aside
<1> QED
  BY <1>2, <1>3, OthersKeep

LEMMA AcquireLockStep ==
  ASSUME Inductive, NEW p \in Procs, AcquireLock(p)
  PROVE  Inductive'
<1>1. TypeOK /\ Prepared(proc[p]) /\ proc[p].root \in Roots /\ proc[p].at = "lock"
  BY FieldTypes DEF Inductive, AcquireLock
<1>2. CASE Fail(p)
  BY <1>2, FailStep
<1>3. CASE /\ lock[proc[p].root] = Free
           /\ lock' = [lock EXCEPT ![proc[p].root] = p]
           /\ Goto(p, "combined")
           /\ UNCHANGED <<files, legacy_lock, trust, seals, crashes, latest>>
  <2>1. "combined" \in Stages
    BY DEF Stages
  <2>2. /\ proc'[p].at = "combined" /\ proc'[p].cmd = proc[p].cmd
        /\ proc'[p].root = proc[p].root /\ proc'[p].user = proc[p].user
        /\ proc'[p].seal = proc[p].seal /\ proc'[p].stored = proc[p].stored
    BY <1>1, <1>3, <2>1, GotoRecord
  <2>3. /\ lock' \in [Roots -> Procs \cup {Free}] /\ lock'[proc[p].root] = p
        /\ legacy_lock' \in [Users -> Procs \cup {Free}]
        /\ \A q \in Procs \ {p}, r \in Roots : lock[r] = q => lock'[r] = q
        /\ \A q \in Procs \ {p}, u \in Users :
              legacy_lock[u] = q => legacy_lock'[u] = q
    BY <1>1, <1>3, KeychainAssumption DEF TypeOK
  <2>4. Prepared(proc[p])' /\ Exclusive(p)' /\ Undisturbed(p)'
    BY <1>1, <2>2, <2>3 DEF Prepared, Exclusive, Undisturbed, Locked
  <2> QED
    BY <1>3, <2>1, <2>3, <2>4, MoveStep
<1> QED
  BY <1>2, <1>3 DEF AcquireLock

(* What a command came for follows from what it has prepared.               *)
LEMMA BodyKnows ==
  ASSUME TypeOK, NEW p \in Procs, Prepared(proc[p]),
         proc[p].at \in {"combined", "split"}
  PROVE  /\ Body(proc[p]) \in {"store", "select", "read", "find"}
         /\ Body(proc[p]) = "store" => proc[p].seal # 0
         /\ Body(proc[p]) \in {"store", "find"} => proc[p].user \in Users
         /\ Body(proc[p]) = "read" => proc[p].cmd = "act"
<1>1. proc[p].cmd \in Commands /\ proc[p].user \in Users \cup {Nobody}
  BY FieldTypes
<1>2. CASE proc[p].cmd \in {"init", "claim"} /\ ~proc[p].stored
  <2>1. Body(proc[p]) = "store"
    BY <1>2 DEF Body
  <2>2. proc[p].user \in Users /\ proc[p].seal # 0
    BY <1>2 DEF Prepared
  <2> QED
    BY <2>1, <2>2
<1>3. CASE \/ proc[p].cmd \in {"init", "claim"} /\ proc[p].stored
           \/ proc[p].cmd \in {"select", "clear"}
  BY <1>3 DEF Body
<1>4. CASE proc[p].cmd = "act" /\ proc[p].user = Nobody
  BY <1>4 DEF Body
<1>5. CASE proc[p].cmd = "act" /\ proc[p].user # Nobody
  BY <1>1, <1>5 DEF Body
<1> QED
  BY <1>1, <1>2, <1>3, <1>4, <1>5 DEF Commands

LEMMA ReadCombinedStep ==
  ASSUME Inductive, NEW p \in Procs, ReadCombined(p)
  PROVE  Inductive'
<1> DEFINE r == proc[p].root
<1>1. /\ TypeOK /\ Prepared(proc[p]) /\ Exclusive(p) /\ r \in Roots
      /\ proc[p].at = "combined"
  BY FieldTypes DEF Inductive, ReadCombined
<1>2. CASE Fail(p)
  BY <1>2, FailStep
<1>3. ASSUME NEW stage \in {"split", "store", "select", "read", "find"}, Goto(p, stage),
             UNCHANGED <<files, lock, legacy_lock, trust, seals, crashes, latest>>,
             stage = "split" => /\ combined[r] # NoFile
                                /\ Cardinality(combined[r].current) <= 1,
             stage # "split" => combined[r] = NoFile /\ stage = Body(proc[p])
      PROVE  Inductive'
  <2>1. stage \in Stages
    BY DEF Stages
  <2>2. /\ proc'[p].at = stage /\ proc'[p].cmd = proc[p].cmd
        /\ proc'[p].root = proc[p].root /\ proc'[p].user = proc[p].user
        /\ proc'[p].seal = proc[p].seal /\ proc'[p].stored = proc[p].stored
    BY <1>1, <1>3, <2>1, GotoRecord
  <2>3. /\ Body(proc[p]) = "store" => proc[p].seal # 0
        /\ Body(proc[p]) \in {"store", "find"} => proc[p].user \in Users
        /\ Body(proc[p]) = "read" => proc[p].cmd = "act"
    BY <1>1, BodyKnows
  <2>4. Prepared(proc[p])'
    BY <1>1, <1>3, <2>2, <2>3 DEF Prepared
  <2>5. Exclusive(p)'
    BY <1>1, <1>3, <2>2 DEF Exclusive, Locked
  <2>6. Undisturbed(p)'
    BY <1>3, <2>2 DEF Undisturbed, files
  <2>7. /\ lock' \in [Roots -> Procs \cup {Free}]
        /\ legacy_lock' \in [Users -> Procs \cup {Free}]
        /\ \A q \in Procs \ {p}, s \in Roots : lock[s] = q => lock'[s] = q
        /\ \A q \in Procs \ {p}, u \in Users :
              legacy_lock[u] = q => legacy_lock'[u] = q
    BY <1>1, <1>3 DEF TypeOK
  <2> QED
    BY <1>3, <2>1, <2>4, <2>5, <2>6, <2>7, MoveStep
<1>4. CASE combined[r] = NoFile /\ Goto(p, Body(proc[p]))
           /\ UNCHANGED <<files, lock, legacy_lock, trust, seals, crashes, latest>>
  BY <1>1, <1>3, <1>4, BodyKnows
<1>5. CASE /\ combined[r] # NoFile /\ Cardinality(combined[r].current) <= 1
           /\ Goto(p, "split")
           /\ UNCHANGED <<files, lock, legacy_lock, trust, seals, crashes, latest>>
  BY <1>3, <1>5
<1> QED
  BY <1>2, <1>4, <1>5 DEF ReadCombined

LEMMA ReadCurrentUserStep ==
  ASSUME Inductive, NEW p \in Procs, ReadCurrentUser(p)
  PROVE  Inductive'
<1>1. TypeOK /\ Prepared(proc[p]) /\ proc[p].root \in Roots /\ proc[p].at = "read"
  BY FieldTypes DEF Inductive, ReadCurrentUser
<1>2. CASE Fail(p)
  BY <1>2, FailStep
<1>3. CASE /\ current[proc[p].root] # Nobody
           /\ proc' = [proc EXCEPT ![p].user = current[proc[p].root], ![p].at = "lock"]
           /\ lock' = Unlocked(p)
           /\ UNCHANGED <<files, legacy_lock, trust, seals, crashes, latest>>
  <2> DEFINE u == current[proc[p].root]
             new == [proc[p] EXCEPT !.user = u, !.at = "lock"]
  <2>1. u \in Users
    BY <1>1, <1>3 DEF TypeOK
  <2>2. proc[p] \in Procedures
    BY <1>1, FieldTypes
  <2>3. /\ new \in Procedures /\ new.at = "lock" /\ new.seal = proc[p].seal
        /\ new.cmd = proc[p].cmd /\ new.user = u /\ new.stored = proc[p].stored
    BY <2>1, <2>2 DEF Procedures, Stages
  <2>4. proc' = [proc EXCEPT ![p] = new]
    BY <1>3
  <2>5. proc[p].cmd \notin {"init", "claim"}
    BY <1>1 DEF Prepared
  <2> HIDE DEF new, u
  <2>6. /\ proc' \in [Procs -> Procedures] /\ proc'[p] = new
        /\ \A q \in Procs \ {p} : proc'[q] = proc[q]
    BY <1>1, <2>3, <2>4 DEF TypeOK, Procedures
  <2>7. TypeOK'
    BY <1>1, <1>3, <2>6, ReleaseLocks DEF TypeOK, files, Procedures
  <2>8. Prepared(proc[p])' /\ Exclusive(p)' /\ Undisturbed(p)'
    BY <1>1, <2>1, <2>3, <2>5, <2>6 DEF Prepared, Exclusive, Undisturbed, Locked
  <2>9. Aside(p)
    BY <1>1, <1>3, <2>6, ReleaseLocks DEF Aside
  <2> QED
    BY <1>3, <2>7, <2>8, <2>9, OthersKeep
<1> QED
  BY <1>2, <1>3 DEF ReadCurrentUser

(* p moves on within its locks, or drops the one on the root.               *)
LEMMA MoveOrUnlock ==
  ASSUME Inductive, NEW p \in Procs, NEW stage \in Stages, Goto(p, stage),
         lock' \in {lock, Unlocked(p)},
         UNCHANGED <<files, legacy_lock, trust, seals, crashes, latest>>,
         Prepared(proc[p])', Exclusive(p)', Undisturbed(p)'
  PROVE  Inductive'
<1>1. TypeOK
  BY DEF Inductive
<1>2. /\ lock' \in [Roots -> Procs \cup {Free}]
      /\ legacy_lock' \in [Users -> Procs \cup {Free}]
      /\ \A q \in Procs \ {p}, r \in Roots : lock[r] = q => lock'[r] = q
      /\ \A q \in Procs \ {p}, u \in Users : legacy_lock[u] = q => legacy_lock'[u] = q
  BY <1>1, ReleaseLocks DEF TypeOK
<1> QED
  BY <1>2, MoveStep

LEMMA FindIdentityStep ==
  ASSUME Inductive, NEW p \in Procs, FindIdentity(p)
  PROVE  Inductive'
<1> DEFINE r == proc[p].root
           u == proc[p].user
<1>1. /\ TypeOK /\ Prepared(proc[p]) /\ Exclusive(p) /\ Undisturbed(p)
      /\ r \in Roots /\ proc[p].at = "find" /\ u \in Users
  BY FieldTypes DEF Inductive, FindIdentity, Prepared
<1>2. ASSUME NEW stage \in {"found", "legacylock", "missing"}, Goto(p, stage),
             stage = "legacylock" => identity[r][u] = 0,
             lock' = IF stage = "missing" THEN Unlocked(p) ELSE lock
      PROVE  Inductive'
  <2>1. stage \in Stages
    BY DEF Stages
  <2>2. /\ proc'[p].at = stage /\ proc'[p].cmd = proc[p].cmd
        /\ proc'[p].root = proc[p].root /\ proc'[p].user = proc[p].user
        /\ proc'[p].seal = proc[p].seal /\ proc'[p].stored = proc[p].stored
    BY <1>1, <1>2, <2>1, GotoRecord
  <2>3. Prepared(proc[p])' /\ Exclusive(p)'
    BY <1>1, <1>2, <2>2 DEF Prepared, Exclusive, Locked
  <2>4. Undisturbed(p)'
    BY <1>1, <1>2, <2>2 DEF Undisturbed, Locked, files, FindIdentity
  <2> QED
    BY <1>2, <2>1, <2>3, <2>4, MoveOrUnlock DEF FindIdentity
<1> QED
  BY <1>2 DEF FindIdentity, Unlock

LEMMA AcquireLegacyLockStep ==
  ASSUME Inductive, NEW p \in Procs, AcquireLegacyLock(p)
  PROVE  Inductive'
<1> DEFINE u == proc[p].user
<1>1. /\ TypeOK /\ Prepared(proc[p]) /\ Exclusive(p) /\ Undisturbed(p)
      /\ proc[p].root \in Roots /\ proc[p].at = "legacylock" /\ u \in Users
  BY FieldTypes DEF Inductive, AcquireLegacyLock, Prepared
<1>2. CASE Fail(p)
  BY <1>2, FailStep
<1>3. CASE /\ legacy_lock[u] = Free
           /\ legacy_lock' = [legacy_lock EXCEPT ![u] = p]
           /\ Goto(p, "legacy")
           /\ UNCHANGED <<files, lock, trust, seals, crashes, latest>>
  <2>1. "legacy" \in Stages
    BY DEF Stages
  <2>2. /\ proc'[p].at = "legacy" /\ proc'[p].cmd = proc[p].cmd
        /\ proc'[p].root = proc[p].root /\ proc'[p].user = proc[p].user
        /\ proc'[p].seal = proc[p].seal /\ proc'[p].stored = proc[p].stored
    BY <1>1, <1>3, <2>1, GotoRecord
  <2>3. /\ lock' \in [Roots -> Procs \cup {Free}]
        /\ legacy_lock' \in [Users -> Procs \cup {Free}] /\ legacy_lock'[u] = p
        /\ \A q \in Procs \ {p}, r \in Roots : lock[r] = q => lock'[r] = q
        /\ \A q \in Procs \ {p}, v \in Users :
              legacy_lock[v] = q => legacy_lock'[v] = q
    BY <1>1, <1>3, KeychainAssumption DEF TypeOK
  <2>4. Prepared(proc[p])' /\ Exclusive(p)'
    BY <1>1, <1>3, <2>2, <2>3 DEF Prepared, Exclusive, Locked
  <2>5. Undisturbed(p)'
    BY <1>1, <1>3, <2>2 DEF Undisturbed, Locked, files
  <2> QED
    BY <1>3, <2>1, <2>3, <2>4, <2>5, MoveStep
<1> QED
  BY <1>2, <1>3 DEF AcquireLegacyLock

LEMMA OpenIdentityStep ==
  ASSUME Inductive, NEW p \in Procs, OpenIdentity(p) \/ NoKeychainAvailable(p)
  PROVE  Inductive'
<1>1. /\ TypeOK /\ Prepared(proc[p]) /\ proc[p].root \in Roots
  BY FieldTypes DEF Inductive
<1>2. CASE Fail(p)
  BY <1>2, FailStep
<1>3. CASE /\ Goto(p, "missing") /\ lock' = Unlocked(p)
           /\ UNCHANGED <<files, legacy_lock, trust, seals, crashes, latest>>
  <2>1. "missing" \in Stages
    BY DEF Stages
  <2>2. /\ proc'[p].at = "missing" /\ proc'[p].cmd = proc[p].cmd
        /\ proc'[p].user = proc[p].user
    BY <1>1, <1>3, <2>1, GotoRecord
  <2>3. Prepared(proc[p])' /\ Exclusive(p)' /\ Undisturbed(p)'
    BY <1>1, <2>2 DEF Prepared, Exclusive, Undisturbed, Locked
  <2> QED
    BY <1>3, <2>1, <2>3, MoveOrUnlock
<1> QED
  BY <1>2, <1>3 DEF OpenIdentity, NoKeychainAvailable, Unlock

----------------------------------------------------------------------------
(* Steps that write a file *)

(* A command that holds the lock on its root disturbs no other one: it      *)
(* writes files of that root only, and a user's own file only under that    *)
(* user's lock.                                                             *)
Within(p) ==
  /\ proc[p].at \in Locked
  /\ Aside(p)
  /\ \A r \in Roots \ {proc[p].root} :
        identity'[r] = identity[r] /\ combined'[r] = combined[r]
  /\ \A u \in Users : (proc[p].at = "rewrite" /\ u = proc[p].user) \/ legacy'[u] = legacy[u]

LEMMA OthersUndisturbed ==
  ASSUME Inductive, NEW p \in Procs, Within(p), NEW q \in Procs \ {p}
  PROVE  (Prepared(proc[q]) /\ Exclusive(q) /\ Undisturbed(q))'
<1>1. proc'[q] = proc[q] /\ Prepared(proc[q])' /\ Exclusive(q)'
  BY OthersLocked DEF Within
<1>2. /\ Prepared(proc[q]) /\ Exclusive(q) /\ Undisturbed(q)
      /\ Exclusive(p) /\ proc[q].root \in Roots /\ q # p
  BY FieldTypes DEF Inductive
<1>3. proc[q].at \in Locked => proc[q].root # proc[p].root
  BY <1>2 DEF Exclusive, Within
<1>4. proc[q].at \in Locked =>
        /\ identity'[proc[q].root] = identity[proc[q].root]
        /\ combined'[proc[q].root] = combined[proc[q].root]
  BY <1>2, <1>3 DEF Within
<1>5. proc[q].at = "rewrite" => legacy'[proc[q].user] = legacy[proc[q].user]
  BY <1>2 DEF Exclusive, Within, Prepared
<1>6. Undisturbed(q)'
  BY <1>1, <1>2, <1>4, <1>5 DEF Undisturbed, Locked
<1> QED
  BY <1>1, <1>6

(* The parts put together.                                                  *)
LEMMA Together ==
  ASSUME Inductive, NEW p \in Procs, Within(p), TypeOK',
         Prepared(proc[p])', Exclusive(p)', Undisturbed(p)',
         Layered', OnlyLatest', IdentityNeverLost'
  PROVE  Inductive'
BY OthersUndisturbed DEF Inductive, Layered

(* At a split or a later stage, the locks and p's own facts.                *)
LEMMA Working ==
  ASSUME Inductive, NEW p \in Procs, proc[p].at \in Locked
  PROVE  /\ TypeOK /\ Prepared(proc[p]) /\ Exclusive(p) /\ Undisturbed(p)
         /\ proc[p].root \in Roots
         /\ OnlyLatest /\ IdentityNeverLost /\ Layered
BY FieldTypes DEF Inductive, Layered

LEMMA AsideUnchanged ==
  ASSUME NEW p \in Procs, UNCHANGED <<proc, lock, legacy_lock>>
  PROVE  Aside(p)
BY DEF Aside

LEMMA SplitIdentityStep ==
  ASSUME Inductive, NEW p \in Procs, NEW u \in Users, SplitIdentity(p, u)
  PROVE  Inductive'
<1> DEFINE r == proc[p].root
<1>1. /\ TypeOK /\ Prepared(proc[p]) /\ Exclusive(p) /\ Undisturbed(p)
      /\ r \in Roots /\ proc[p].at = "split" /\ proc[p].at \in Locked
      /\ OnlyLatest /\ IdentityNeverLost /\ Layered
  BY Working DEF SplitIdentity, Locked
<1>2. combined[r] # NoFile /\ combined[r] \in Combined
  BY <1>1 DEF Undisturbed, TypeOK
<1>3. combined[r].ids[u] # 0 /\ identity[r][u] = 0
  BY DEF SplitIdentity, Unsplit
<1>4. combined[r].ids[u] = latest[r][u]
  BY <1>1, <1>2, <1>3 DEF Layered, Successive, InCombined
<1>5. combined[r].ids[u] \in 0..OldSeals + MaxSeals
  BY <1>2 DEF Combined
<1>6. /\ identity' \in [Roots -> [Users -> 0..OldSeals + MaxSeals]]
      /\ identity'[r][u] = latest[r][u] /\ identity'[r][u] # 0
      /\ \A s \in Roots, v \in Users :
            s # r \/ v # u => identity'[s][v] = identity[s][v]
      /\ \A s \in Roots \ {r} : identity'[s] = identity[s]
  BY <1>1, <1>3, <1>4, <1>5 DEF SplitIdentity, TypeOK
<1>7. UNCHANGED <<current, combined, legacy, lock, legacy_lock, trust, proc, seals,
                  crashes, latest>>
  BY DEF SplitIdentity
<1>8. TypeOK'
  BY <1>1, <1>6, <1>7 DEF TypeOK
<1>9. Prepared(proc[p])' /\ Exclusive(p)' /\ Undisturbed(p)'
  BY <1>1, <1>7 DEF Prepared, Exclusive, Undisturbed
<1>10. Layered'
  BY <1>1, <1>6, <1>7 DEF Layered, Successive, InCombined, InLegacy
<1>11. OnlyLatest' /\ IdentityNeverLost'
  BY <1>1, <1>6, <1>7 DEF OnlyLatest, IdentityNeverLost
<1>12. Within(p)
  BY <1>1, <1>6, <1>7, AsideUnchanged DEF Within
<1> QED
  BY <1>8, <1>9, <1>10, <1>11, <1>12, Together

LEMMA SplitCurrentStep ==
  ASSUME Inductive, NEW p \in Procs, SplitCurrent(p)
  PROVE  Inductive'
<1> DEFINE r == proc[p].root
<1>1. /\ TypeOK /\ Prepared(proc[p]) /\ Exclusive(p) /\ Undisturbed(p)
      /\ r \in Roots /\ proc[p].at = "split" /\ proc[p].at \in Locked
      /\ OnlyLatest /\ IdentityNeverLost /\ Layered
  BY Working DEF SplitCurrent, Locked
<1>2. combined[r].current \subseteq Users
  BY <1>1 DEF Undisturbed, TypeOK, Combined
<1>3. UNCHANGED <<identity, combined, legacy, lock, legacy_lock, trust, proc, seals,
                  crashes, latest>>
  BY DEF SplitCurrent
<1>4. TypeOK'
  BY <1>1, <1>2, <1>3 DEF TypeOK, SplitCurrent
<1>5. Prepared(proc[p])' /\ Exclusive(p)' /\ Undisturbed(p)'
  BY <1>1, <1>3 DEF Prepared, Exclusive, Undisturbed
<1>6. Layered' /\ OnlyLatest' /\ IdentityNeverLost'
  BY <1>1, <1>3 DEF Layered, Successive, InCombined, InLegacy, OnlyLatest,
     IdentityNeverLost
<1>7. Within(p)
  BY <1>1, <1>3, AsideUnchanged DEF Within
<1> QED
  BY <1>4, <1>5, <1>6, <1>7, Together

LEMMA RemoveCombinedStep ==
  ASSUME Inductive, NEW p \in Procs, RemoveCombined(p)
  PROVE  Inductive'
<1> DEFINE r == proc[p].root
           stage == Body(proc[p])
<1>1. /\ TypeOK /\ Prepared(proc[p]) /\ Exclusive(p) /\ Undisturbed(p)
      /\ r \in Roots /\ proc[p].at = "split" /\ proc[p].at \in Locked
      /\ OnlyLatest /\ IdentityNeverLost /\ Layered
  BY Working DEF RemoveCombined, Locked
<1>2. \A u \in Users : combined[r].ids[u] # 0 => identity[r][u] # 0
  BY DEF RemoveCombined, Unsplit
<1>3. /\ stage \in {"store", "select", "read", "find"} /\ stage \in Stages
      /\ stage = "store" => proc[p].seal # 0
      /\ stage \in {"store", "find"} => proc[p].user \in Users
      /\ stage = "read" => proc[p].cmd = "act"
  BY <1>1, BodyKnows DEF Stages
<1> HIDE DEF stage
<1>4. /\ proc' \in [Procs -> Procedures]
      /\ \A q \in Procs \ {p} : proc'[q] = proc[q]
      /\ proc'[p].at = stage /\ proc'[p].cmd = proc[p].cmd
      /\ proc'[p].root = proc[p].root /\ proc'[p].user = proc[p].user
      /\ proc'[p].seal = proc[p].seal /\ proc'[p].stored = proc[p].stored
  BY <1>1, <1>3, GotoRecord DEF RemoveCombined, stage
<1>5. /\ combined' \in [Roots -> Combined \cup {NoFile}]
      /\ combined'[r] = NoFile
      /\ \A s \in Roots \ {r} : combined'[s] = combined[s]
  BY <1>1 DEF RemoveCombined, TypeOK
<1>6. UNCHANGED <<identity, current, legacy, lock, legacy_lock, trust, seals, crashes,
                  latest>>
  BY DEF RemoveCombined
<1>7. TypeOK'
  BY <1>1, <1>4, <1>5, <1>6 DEF TypeOK, Procedures
<1>8. Prepared(proc[p])' /\ Exclusive(p)' /\ Undisturbed(p)'
  BY <1>1, <1>3, <1>4, <1>5, <1>6 DEF Prepared, Exclusive, Undisturbed, Locked
<1>9. Layered'
  <2>1. ASSUME NEW s \in Roots, NEW u \in Users
        PROVE  Successive(s, u)'
    <3>1. Successive(s, u)
      BY <1>1 DEF Layered
    <3>2. CASE s = r
      <4>1. ~InCombined(s, u)'
        BY <1>5, <3>2 DEF InCombined
      <4>2. identity[s][u] = 0 => ~InCombined(s, u)
        BY <1>2, <3>2 DEF InCombined
      <4> QED
        BY <1>6, <3>1, <4>1, <4>2 DEF Successive, InLegacy
    <3>3. CASE s # r
      BY <1>5, <1>6, <3>1, <3>3 DEF Successive, InCombined, InLegacy
    <3> QED
      BY <3>2, <3>3
  <2> QED
    BY <2>1 DEF Layered
<1>10. OnlyLatest'
  BY <1>1, <1>6 DEF OnlyLatest
<1>11. IdentityNeverLost'
  <2>1. ASSUME NEW s \in Roots, NEW u \in Users, latest[s][u] # 0
        PROVE  \/ identity[s][u] = latest[s][u]
               \/ combined'[s] # NoFile /\ combined'[s].ids[u] = latest[s][u]
               \/ legacy[u] # NoFile /\ legacy[u].ids[s] = latest[s][u]
    <3>1. CASE s # r
      BY <1>1, <1>5, <2>1, <3>1 DEF IdentityNeverLost
    <3>2. CASE s = r
      <4>1. identity[s][u] \in {0, latest[s][u]}
        BY <1>1 DEF OnlyLatest
      <4> QED
        BY <1>1, <1>2, <2>1, <3>2, <4>1 DEF IdentityNeverLost
    <3> QED
      BY <3>1, <3>2
  <2> QED
    BY <1>6, <2>1 DEF IdentityNeverLost
<1>12. Within(p)
  BY <1>1, <1>4, <1>5, <1>6 DEF Within, Aside
<1> QED
  BY <1>7, <1>8, <1>9, <1>10, <1>11, <1>12, Together

LEMMA StoreIdentityStep ==
  ASSUME Inductive, NEW p \in Procs, StoreIdentity(p)
  PROVE  Inductive'
<1> DEFINE r == proc[p].root
           u == proc[p].user
           n == proc[p].seal
           stage == IF proc[p].cmd = "init" THEN "trust" ELSE "lock"
           new == [proc[p] EXCEPT !.stored = TRUE, !.at = stage]
<1>1. /\ TypeOK /\ Prepared(proc[p]) /\ Exclusive(p) /\ Undisturbed(p)
      /\ r \in Roots /\ proc[p].at = "store" /\ proc[p].at \in Locked
      /\ OnlyLatest /\ IdentityNeverLost /\ Layered
  BY Working DEF StoreIdentity, Locked
<1>2. n # 0 /\ u \in Users /\ n \in 0..OldSeals + MaxSeals
  BY <1>1, FieldTypes DEF Prepared
<1>3. stage \in {"trust", "lock"} /\ stage \in Stages
  BY DEF Stages
<1>4. proc' = [proc EXCEPT ![p] = new]
  BY DEF StoreIdentity
<1>5. proc[p] \in Procedures
  BY <1>1, FieldTypes
<1> HIDE DEF stage
<1>6. /\ new \in Procedures /\ new.at = stage /\ new.stored = TRUE
      /\ new.cmd = proc[p].cmd /\ new.user = proc[p].user
  BY <1>3, <1>5 DEF Procedures
<1> HIDE DEF new
<1>7. /\ proc' \in [Procs -> Procedures] /\ proc'[p] = new
      /\ \A q \in Procs \ {p} : proc'[q] = proc[q]
  BY <1>1, <1>4, <1>6 DEF TypeOK, Procedures
<1>8. /\ identity' \in [Roots -> [Users -> 0..OldSeals + MaxSeals]]
      /\ latest' \in [Roots -> [Users -> 0..OldSeals + MaxSeals]]
      /\ identity'[r][u] = n /\ latest'[r][u] = n
      /\ \A s \in Roots, v \in Users : s # r \/ v # u =>
            identity'[s][v] = identity[s][v] /\ latest'[s][v] = latest[s][v]
      /\ \A s \in Roots \ {r} : identity'[s] = identity[s]
  BY <1>1, <1>2 DEF StoreIdentity, TypeOK
<1>9. /\ UNCHANGED <<current, combined, legacy, legacy_lock, trust, seals, crashes>>
      /\ lock' = Unlocked(p)
  BY DEF StoreIdentity
<1>10. TypeOK'
  BY <1>1, <1>7, <1>8, <1>9, ReleaseLocks DEF TypeOK, Procedures
<1>11. Prepared(proc[p])' /\ Exclusive(p)' /\ Undisturbed(p)'
  BY <1>1, <1>3, <1>6, <1>7 DEF Prepared, Exclusive, Undisturbed, Locked
<1>12. Layered'
  BY <1>1, <1>2, <1>8, <1>9 DEF Layered, Successive, InCombined, InLegacy
<1>13. OnlyLatest' /\ IdentityNeverLost'
  <2>1. ASSUME NEW s \in Roots, NEW v \in Users
        PROVE  /\ identity'[s][v] \in {0, latest'[s][v]}
               /\ latest'[s][v] # 0 =>
                     \/ identity'[s][v] = latest'[s][v]
                     \/ combined[s] # NoFile /\ combined[s].ids[v] = latest'[s][v]
                     \/ legacy[v] # NoFile /\ legacy[v].ids[s] = latest'[s][v]
    <3>1. CASE s = r /\ v = u
      BY <1>8, <3>1
    <3>2. CASE s # r \/ v # u
      BY <1>1, <1>8, <3>2 DEF OnlyLatest, IdentityNeverLost
    <3> QED
      BY <3>1, <3>2
  <2> QED
    BY <1>9, <2>1 DEF OnlyLatest, IdentityNeverLost
<1>14. Within(p)
  BY <1>1, <1>7, <1>8, <1>9, ReleaseLocks DEF Within, Aside
<1> QED
  BY <1>10, <1>11, <1>12, <1>13, <1>14, Together

LEMMA WriteCurrentUserStep ==
  ASSUME Inductive, NEW p \in Procs, WriteCurrentUser(p)
  PROVE  Inductive'
<1>1. /\ TypeOK /\ Prepared(proc[p])
      /\ proc[p].root \in Roots /\ proc[p].at = "select" /\ proc[p].at \in Locked
      /\ OnlyLatest /\ IdentityNeverLost /\ Layered
      /\ proc[p].user \in Users \cup {Nobody}
  BY Working, FieldTypes DEF WriteCurrentUser, Locked
<1>2. /\ UNCHANGED <<identity, combined, legacy, legacy_lock, trust, seals, crashes,
                     latest>>
      /\ lock' = Unlocked(p) /\ Done(p)
  BY DEF WriteCurrentUser
<1>3. /\ proc' \in [Procs -> Procedures] /\ proc'[p] = Idle
      /\ \A q \in Procs \ {p} : proc'[q] = proc[q]
  BY <1>1, <1>2, IdleType DEF TypeOK, Procedures, Done
<1>4. TypeOK'
  BY <1>1, <1>2, <1>3, ReleaseLocks DEF TypeOK, Procedures, WriteCurrentUser
<1>5. Prepared(proc[p])' /\ Exclusive(p)' /\ Undisturbed(p)'
  BY <1>3, IdleType DEF Prepared, Exclusive, Undisturbed, Locked
<1>6. Layered' /\ OnlyLatest' /\ IdentityNeverLost'
  BY <1>1, <1>2 DEF Layered, Successive, InCombined, InLegacy, OnlyLatest,
     IdentityNeverLost
<1>7. Within(p)
  BY <1>1, <1>2, <1>3, ReleaseLocks DEF Within, Aside
<1> QED
  BY <1>4, <1>5, <1>6, <1>7, Together

LEMMA MigrateLegacyUserStep ==
  ASSUME Inductive, NEW p \in Procs, MigrateLegacyUser(p)
  PROVE  Inductive'
<1> DEFINE r == proc[p].root
           u == proc[p].user
<1>1. /\ TypeOK /\ Prepared(proc[p]) /\ Exclusive(p) /\ Undisturbed(p)
      /\ r \in Roots /\ proc[p].at = "legacy" /\ proc[p].at \in Locked
      /\ OnlyLatest /\ IdentityNeverLost /\ Layered
  BY Working DEF MigrateLegacyUser, Locked
<1>2. u \in Users /\ identity[r][u] = 0 /\ combined[r] = NoFile
  BY <1>1 DEF Prepared, Undisturbed, Locked
<1>3. UNCHANGED <<current, combined, legacy, lock, trust, seals, crashes, latest>>
  BY DEF MigrateLegacyUser
<1>4. CASE /\ InLegacy(r, u)
           /\ identity' = [identity EXCEPT ![r][u] = legacy[u].ids[r]]
           /\ Goto(p, "rewrite")
           /\ UNCHANGED legacy_lock
  <2>1. legacy[u] # NoFile /\ legacy[u] \in Legacy /\ legacy[u].ids[r] # 0
    BY <1>1, <1>2, <1>4 DEF InLegacy, TypeOK
  <2>2. legacy[u].ids[r] = latest[r][u]
    BY <1>1, <1>2, <1>4 DEF Layered, Successive, InCombined
  <2>3. legacy[u].ids[r] \in 0..OldSeals + MaxSeals
    BY <1>1, <2>1 DEF Legacy
  <2>4. /\ identity' \in [Roots -> [Users -> 0..OldSeals + MaxSeals]]
        /\ identity'[r][u] = latest[r][u] /\ identity'[r][u] # 0
        /\ \A s \in Roots, v \in Users :
              s # r \/ v # u => identity'[s][v] = identity[s][v]
        /\ \A s \in Roots \ {r} : identity'[s] = identity[s]
    BY <1>1, <1>2, <1>4, <2>1, <2>2, <2>3 DEF TypeOK
  <2>5. "rewrite" \in Stages
    BY DEF Stages
  <2>6. /\ proc' \in [Procs -> Procedures]
        /\ \A q \in Procs \ {p} : proc'[q] = proc[q]
        /\ proc'[p].at = "rewrite" /\ proc'[p].cmd = proc[p].cmd
        /\ proc'[p].root = proc[p].root /\ proc'[p].user = proc[p].user
    BY <1>1, <1>4, <2>5, GotoRecord
  <2>7. TypeOK'
    BY <1>1, <1>3, <1>4, <2>4, <2>6 DEF TypeOK, Procedures
  <2>8. Prepared(proc[p])' /\ Exclusive(p)'
    BY <1>1, <1>2, <1>3, <1>4, <2>6 DEF Prepared, Exclusive, Locked
  <2>9. Undisturbed(p)'
    BY <1>2, <1>3, <2>1, <2>4, <2>6 DEF Undisturbed
  <2>10. Layered'
    BY <1>1, <1>3, <2>4 DEF Layered, Successive, InCombined, InLegacy
  <2>11. OnlyLatest' /\ IdentityNeverLost'
    BY <1>1, <1>3, <2>4 DEF OnlyLatest, IdentityNeverLost
  <2>12. Within(p)
    BY <1>1, <1>3, <1>4, <2>4, <2>6 DEF Within, Aside
  <2> QED
    BY <2>7, <2>8, <2>9, <2>10, <2>11, <2>12, Together
<1>5. CASE /\ Goto(p, "found") /\ legacy_lock' = UnlockedUser(p) /\ UNCHANGED identity
  <2>1. "found" \in Stages
    BY DEF Stages
  <2>2. /\ proc'[p].at = "found" /\ proc'[p].cmd = proc[p].cmd
        /\ proc'[p].root = proc[p].root /\ proc'[p].user = proc[p].user
    BY <1>1, <1>5, <2>1, GotoRecord
  <2>3. Prepared(proc[p])' /\ Exclusive(p)' /\ Undisturbed(p)'
    BY <1>1, <1>2, <1>3, <2>2 DEF Prepared, Exclusive, Undisturbed, Locked
  <2>4. /\ lock' \in [Roots -> Procs \cup {Free}]
        /\ legacy_lock' \in [Users -> Procs \cup {Free}]
        /\ \A q \in Procs \ {p}, s \in Roots : lock[s] = q => lock'[s] = q
        /\ \A q \in Procs \ {p}, v \in Users :
              legacy_lock[v] = q => legacy_lock'[v] = q
    BY <1>1, <1>3, <1>5, ReleaseLocks DEF TypeOK
  <2> QED
    BY <1>3, <1>5, <2>1, <2>3, <2>4, MoveStep DEF files
<1> QED
  BY <1>4, <1>5 DEF MigrateLegacyUser, InLegacy

LEMMA RewriteLegacyUserStep ==
  ASSUME Inductive, NEW p \in Procs, RewriteLegacyUser(p)
  PROVE  Inductive'
<1> DEFINE r == proc[p].root
           u == proc[p].user
           left == [legacy[u] EXCEPT !.ids[r] = 0]
           empty == ~left.rest /\ \A s \in Roots : left.ids[s] = 0
<1>1. /\ TypeOK /\ Prepared(proc[p]) /\ Exclusive(p) /\ Undisturbed(p)
      /\ r \in Roots /\ proc[p].at = "rewrite" /\ proc[p].at \in Locked
      /\ OnlyLatest /\ IdentityNeverLost /\ Layered
  BY Working DEF RewriteLegacyUser, Locked
<1>2. /\ u \in Users /\ identity[r][u] # 0 /\ combined[r] = NoFile
      /\ legacy[u] # NoFile /\ legacy[u] \in Legacy
  BY <1>1 DEF Prepared, Undisturbed, Locked, TypeOK
<1>3. /\ UNCHANGED <<identity, current, combined, lock, trust, seals, crashes, latest>>
      /\ legacy_lock' = UnlockedUser(p) /\ Goto(p, "found")
      /\ legacy' = [legacy EXCEPT ![u] = IF empty THEN NoFile ELSE left]
  BY DEF RewriteLegacyUser
<1>4. /\ left \in Legacy /\ left # NoFile /\ left.ids[r] = 0
      /\ \A s \in Roots \ {r} : left.ids[s] = legacy[u].ids[s]
  BY <1>1, <1>2, NoFileAssumption, KeychainAssumption DEF Legacy
<1> HIDE DEF left
<1>5. /\ legacy' \in [Users -> Legacy \cup {NoFile}]
      /\ \A v \in Users \ {u} : legacy'[v] = legacy[v]
      /\ legacy'[u] = NoFile \/ legacy'[u] = left
      /\ legacy'[u] = NoFile => \A s \in Roots : left.ids[s] = 0
  BY <1>1, <1>2, <1>3, <1>4 DEF TypeOK
<1>6. ASSUME NEW s \in Roots, NEW v \in Users
      PROVE  /\ InLegacy(s, v)' =>
                  InLegacy(s, v) /\ legacy'[v].ids[s] = legacy[v].ids[s]
             /\ s # r \/ v # u => (InLegacy(s, v) => InLegacy(s, v)')
  BY <1>2, <1>4, <1>5 DEF InLegacy
<1>7. "found" \in Stages
  BY DEF Stages
<1>8. /\ proc' \in [Procs -> Procedures]
      /\ \A q \in Procs \ {p} : proc'[q] = proc[q]
      /\ proc'[p].at = "found" /\ proc'[p].cmd = proc[p].cmd
      /\ proc'[p].root = proc[p].root /\ proc'[p].user = proc[p].user
  BY <1>1, <1>3, <1>7, GotoRecord
<1>9. TypeOK'
  BY <1>1, <1>3, <1>5, <1>8, ReleaseLocks DEF TypeOK, Procedures
<1>10. Prepared(proc[p])' /\ Exclusive(p)' /\ Undisturbed(p)'
  BY <1>1, <1>2, <1>3, <1>8 DEF Prepared, Exclusive, Undisturbed, Locked
<1>11. Layered'
  BY <1>1, <1>3, <1>6 DEF Layered, Successive, InCombined
<1>12. OnlyLatest'
  BY <1>1, <1>3 DEF OnlyLatest
<1>13. IdentityNeverLost'
  <2>1. ASSUME NEW s \in Roots, NEW v \in Users, latest[s][v] # 0
        PROVE  \/ identity[s][v] = latest[s][v]
               \/ combined[s] # NoFile /\ combined[s].ids[v] = latest[s][v]
               \/ legacy'[v] # NoFile /\ legacy'[v].ids[s] = latest[s][v]
    <3>1. CASE s = r /\ v = u
      BY <1>1, <1>2, <3>1 DEF OnlyLatest
    <3>2. CASE s # r \/ v # u
      BY <1>1, <1>6, <2>1, <3>2 DEF IdentityNeverLost, InLegacy
    <3> QED
      BY <3>1, <3>2
  <2> QED
    BY <1>3, <2>1 DEF IdentityNeverLost
<1>14. Within(p)
  BY <1>1, <1>3, <1>5, <1>8, ReleaseLocks DEF Within, Aside
<1> QED
  BY <1>9, <1>10, <1>11, <1>12, <1>13, <1>14, Together

----------------------------------------------------------------------------
LEMMA NextInductive ==
  ASSUME Inductive, [Next]_vars
  PROVE  Inductive'
<1>1. CASE UNCHANGED vars
  BY <1>1 DEF Inductive, Layered, vars, files, TypeOK, Prepared, Exclusive, Undisturbed,
     Successive, InCombined, InLegacy, OnlyLatest, IdentityNeverLost
<1>2. ASSUME NEW p \in Procs, Start(p) \/ Run(p) \/ Crash(p)
      PROVE  Inductive'
  <2>1. CASE Start(p)
    BY <2>1, StartStep
  <2>2. CASE Crash(p)
    BY <2>2, CrashStep
  <2>3. ASSUME NEW u \in Users, SplitIdentity(p, u)
        PROVE  Inductive'
    BY <2>3, SplitIdentityStep
  <2>4. CASE SplitConflict(p)
    BY <2>4, FailStep DEF SplitConflict
  <2> QED
    BY <1>2, <2>1, <2>2, <2>3, <2>4, EstablishTrustStep, SealIdentityStep,
       AcquireLockStep, ReadCombinedStep, SplitCurrentStep, RemoveCombinedStep,
       StoreIdentityStep, WriteCurrentUserStep, ReadCurrentUserStep, FindIdentityStep,
       AcquireLegacyLockStep, MigrateLegacyUserStep, RewriteLegacyUserStep,
       OpenIdentityStep DEF Run
<1> QED
  BY <1>1, <1>2 DEF Next

(* What the three properties of the keychain's files rest on: who holds     *)
(* which lock, and that an older layout is consulted only where the newer   *)
(* ones have nothing.                                                       *)
THEOREM Invariance == Spec => []Inductive
<1>1. Init => Inductive
  BY InitInductive
<1>2. Inductive /\ [Next]_vars => Inductive'
  BY NextInductive
<1> QED
  BY <1>1, <1>2, PTL DEF Spec

(* Every file and every command in flight keeps its type.                   *)
THEOREM TypesCorrect == Spec => []TypeOK
<1>1. Inductive => TypeOK
  BY DEF Inductive
<1> QED
  BY <1>1, Invariance, PTL

(* However many commands migrate, store and unlock side by side, and        *)
(* wherever one of them dies, the identity sealed last stays in a file that *)
(* unlock_identity consults.                                                *)
THEOREM NothingLost == Spec => []IdentityNeverLost
<1>1. Inductive => IdentityNeverLost
  BY DEF Inductive
<1> QED
  BY <1>1, Invariance, PTL

(* No migration puts an older seal where a newer one was stored.            *)
THEOREM NothingRevived == Spec => []OnlyLatest
<1>1. Inductive => OnlyLatest
  BY DEF Inductive
<1> QED
  BY <1>1, Invariance, PTL

(* A set of users with at most one member is that member's singleton.       *)
LEMMA OnlyMember ==
  ASSUME NEW S \in SUBSET Users, Cardinality(S) <= 1, NEW u \in S
  PROVE  S = {u}
<1>1. IsFiniteSet(S)
  BY KeychainAssumption, FS_Subset
<1>2. IsFiniteSet(S \ {u}) /\ Cardinality(S \ {u}) = Cardinality(S) - 1
  BY <1>1, FS_RemoveElement
<1>3. Cardinality(S) \in Nat /\ Cardinality(S \ {u}) \in Nat
  BY <1>1, <1>2, FS_CardinalityType
<1>4. Cardinality(S \ {u}) = 0
  BY <1>2, <1>3
<1>5. S \ {u} = {}
  BY <1>2, <1>4, FS_EmptySet
<1> QED
  BY <1>5

(* The step behind MigrationNotWedged.  Only the split itself writes to a   *)
(* root that still has its combined file, and it writes what that file      *)
(* says.                                                                    *)
LEMMA NotWedgedStep ==
  ASSUME Inductive, [Next]_vars, NEW r \in Roots,
         combined[r] # NoFile, ~Conflicting(r), combined'[r] # NoFile
  PROVE  ~Conflicting(r)'
<1>1. CASE UNCHANGED <<identity, current, combined>>
  BY <1>1 DEF Conflicting, IdentityConflict, CurrentConflict
<1>2. ASSUME NEW p \in Procs, Start(p) \/ Run(p) \/ Crash(p)
      PROVE  ~Conflicting(r)'
  <2>1. TypeOK /\ Undisturbed(p) /\ Prepared(proc[p]) /\ proc[p].root \in Roots
    BY FieldTypes DEF Inductive
  <2>2. ASSUME NEW u \in Users, SplitIdentity(p, u)
        PROVE  ~Conflicting(r)'
    <3>1. \A v \in Users : \/ identity'[r][v] = identity[r][v]
                             \/ identity'[r][v] = combined[r].ids[v]
      BY <2>1, <2>2 DEF SplitIdentity, TypeOK
    <3> QED
      BY <2>2, <3>1 DEF SplitIdentity, Conflicting, IdentityConflict, CurrentConflict
  <2>3. CASE SplitCurrent(p)
    <3>1. UNCHANGED <<identity, combined>>
      BY <2>3 DEF SplitCurrent
    <3>2. CASE r # proc[p].root
      BY <2>1, <2>3, <3>1, <3>2
         DEF SplitCurrent, TypeOK, Conflicting, IdentityConflict, CurrentConflict
    <3>3. CASE r = proc[p].root
      <4>1. PICK u \in combined[r].current : current' = [current EXCEPT ![r] = u]
        BY <2>3, <3>3 DEF SplitCurrent
      <4>2. /\ combined[r].current \in SUBSET Users
            /\ Cardinality(combined[r].current) <= 1
        BY <2>1, <2>3, <3>3 DEF SplitCurrent, Undisturbed, TypeOK, Combined
      <4>3. combined[r].current = {u}
        BY <4>2, OnlyMember
      <4>4. current'[r] = u
        BY <4>1 DEF Inductive, TypeOK
      <4> QED
        BY <3>1, <4>3, <4>4 DEF Conflicting, IdentityConflict, CurrentConflict
    <3> QED
      BY <3>2, <3>3
  <2>4. CASE RemoveCombined(p)
    <3>1. UNCHANGED <<identity, current>> /\ combined'[r] = combined[r]
      BY <2>1, <2>4 DEF RemoveCombined, TypeOK
    <3> QED
      BY <3>1 DEF Conflicting, IdentityConflict, CurrentConflict
  <2>5. CASE StoreIdentity(p)
    <3>1. proc[p].root # r
      BY <2>1, <2>5 DEF StoreIdentity, Undisturbed, Locked
    <3>2. UNCHANGED <<current, combined>> /\ identity'[r] = identity[r]
      BY <2>1, <2>5, <3>1 DEF StoreIdentity, TypeOK
    <3> QED
      BY <3>2 DEF Conflicting, IdentityConflict, CurrentConflict
  <2>6. CASE WriteCurrentUser(p)
    <3>1. proc[p].root # r
      BY <2>1, <2>6 DEF WriteCurrentUser, Undisturbed, Locked
    <3>2. UNCHANGED <<identity, combined>> /\ current'[r] = current[r]
      BY <2>1, <2>6, <3>1 DEF WriteCurrentUser, TypeOK
    <3> QED
      BY <3>2 DEF Conflicting, IdentityConflict, CurrentConflict
  <2>7. CASE MigrateLegacyUser(p)
    <3>1. proc[p].root # r
      BY <2>1, <2>7 DEF MigrateLegacyUser, Undisturbed, Locked
    <3>2. UNCHANGED <<current, combined>> /\ identity'[r] = identity[r]
      BY <2>1, <2>7, <3>1 DEF MigrateLegacyUser, TypeOK
    <3> QED
      BY <3>2 DEF Conflicting, IdentityConflict, CurrentConflict
  <2>8. CASE RewriteLegacyUser(p)
    BY <1>1, <2>8 DEF RewriteLegacyUser
  <2>9. CASE Start(p) \/ Crash(p)
    BY <1>1, <2>9 DEF Start, Crash, BeginInit, BeginClaim, BeginSelect, BeginAct,
       BeginClear, Begin, files
  <2>10. CASE \/ EstablishTrust(p) \/ SealIdentity(p) \/ AcquireLock(p)
              \/ ReadCombined(p) \/ SplitConflict(p)
    BY <1>1, <2>10 DEF EstablishTrust, SealIdentity, AcquireLock, ReadCombined,
       SplitConflict, Fail, files
  <2>11. CASE \/ ReadCurrentUser(p) \/ FindIdentity(p) \/ AcquireLegacyLock(p)
              \/ OpenIdentity(p) \/ NoKeychainAvailable(p)
    BY <1>1, <2>11 DEF ReadCurrentUser, FindIdentity, AcquireLegacyLock, OpenIdentity,
       NoKeychainAvailable, Fail, Unlock, files
  <2> QED
    BY <1>2, <2>2, <2>3, <2>4, <2>5, <2>6, <2>7, <2>8, <2>9, <2>10, <2>11 DEF Run
<1> QED
  BY <1>1, <1>2 DEF Next, vars, files

(* A combined file that agrees with the split files stays in agreement with *)
(* them until it is removed: no interleaving and no crash makes a root      *)
(* refuse its later operations.                                             *)
THEOREM NeverWedged == Spec => MigrationNotWedged
<1>1. Inductive /\ [Next]_vars =>
        [\A r \in Roots :
           (combined[r] # NoFile /\ ~Conflicting(r) /\ combined'[r] # NoFile)
              => ~Conflicting(r)']_vars
  BY NotWedgedStep
<1> QED
  BY <1>1, Invariance, PTL DEF Spec, MigrationNotWedged
=============================================================================
