-------------------------------- MODULE Keychain --------------------------------
(***************************************************************************)
(* The machine's keychain (thorax-keychain) and the commands that go       *)
(* through it: who this machine acts as in a vault, and the sealed         *)
(* identity that proves it.                                                *)
(*                                                                         *)
(* Per trusted root there is a file per sealed identity and one naming the *)
(* current user.  Two older layouts are migrated on the way: a combined    *)
(* file per root, which every operation splits before it does anything     *)
(* else, and a file per user with that user's identities of several roots, *)
(* which an unlock consults when it finds no identity of its root.  A file *)
(* is replaced or removed atomically; a process may die between any two    *)
(* replacements, and the operating system then drops its locks.  Cleartext *)
(* and passphrases are left out: a sealed identity is the number of the    *)
(* store_identity that sealed it, 0 for none.                              *)
(***************************************************************************)
EXTENDS Naturals, FiniteSets

CONSTANTS Procs, Roots, Users,
          Starts,      \* the layouts of older versions a behaviour may start from
          OldSeals,    \* the seals of the older versions are 1..OldSeals
          MaxSeals,    \* how often identities are sealed in a behaviour
          MaxCrashes   \* how many processes die in a behaviour

CONSTANTS Nobody, Free, NoFile

ASSUME KeychainAssumption ==
    /\ OldSeals \in Nat /\ MaxSeals \in Nat /\ MaxCrashes \in Nat
    /\ Roots # {} /\ IsFiniteSet(Users)
    /\ Nobody \notin Users /\ Free \notin Procs

VARIABLES identity,     \* identities/<user>.cord of every root
          current,      \* current-user.cord of every root
          combined,     \* keychain.cord of every root: the combined layout
          legacy,       \* <user>/keychain.cord: the layout by user
          lock,         \* who holds keychain.lock of a root
          legacy_lock,  \* who holds keychain.lock of a user's directory
          trust,        \* the roots with a ratchet on this machine
          proc,         \* the commands in flight
          seals,        \* how many identities were sealed
          crashes,      \* how many processes died
          latest        \* the identity sealed last (history variable)

files == <<identity, current, combined, legacy>>
vars == <<files, lock, legacy_lock, trust, proc, seals, crashes, latest>>

\* A combined file: its identities, its current-user selectors, and whether it
\* has records that cannot be split (unknown ones, or another root's identity).
Combined == [ids : [Users -> 0..OldSeals + MaxSeals], current : SUBSET Users, odd : BOOLEAN]

\* A user's file: its identities by root, and whether there are other records.
Legacy == [ids : [Roots -> 0..OldSeals + MaxSeals], rest : BOOLEAN]

ASSUME NoFileAssumption == NoFile \notin Combined \cup Legacy

\* What older versions leave behind.  Every identity is in the newest file that an
\* unlock consults first; what such a file lacks, the next older layout has as it was
\* sealed last.  An older file may hold older seals beside a newer one.
Layout(s) ==
    /\ s.identity \in [Roots -> [Users -> 0..OldSeals]]
    /\ s.current \in [Roots -> Users \cup {Nobody}]
    /\ s.combined \in [Roots -> Combined \cup {NoFile}]
    /\ s.legacy \in [Users -> Legacy \cup {NoFile}]
    /\ s.trust \in [Roots -> BOOLEAN]
    /\ s.latest \in [Roots -> [Users -> 0..OldSeals]]
    /\ \A r \in Roots, u \in Users :
          LET inCombined == s.combined[r] # NoFile /\ s.combined[r].ids[u] # 0
              inLegacy == s.legacy[u] # NoFile /\ s.legacy[u].ids[r] # 0
          IN  s.latest[r][u] =
                 IF s.identity[r][u] # 0 THEN s.identity[r][u]
                 ELSE IF inCombined THEN s.combined[r].ids[u]
                 ELSE IF inLegacy THEN s.legacy[u].ids[r] ELSE 0

ASSUME StartsAssumption == \A s \in Starts : Layout(s)

Commands == {"init", "claim", "act", "select", "clear"}
Stages == {"idle", "trust", "seal", "lock", "combined", "split", "store", "select",
           "read", "find", "legacylock", "legacy", "rewrite", "found", "missing"}

Idle == [at |-> "idle", cmd |-> "act", root |-> CHOOSE r \in Roots : TRUE,
         user |-> Nobody, seal |-> 0, stored |-> FALSE]

Init ==
    /\ \E s \in Starts :
          /\ identity = s.identity /\ current = s.current
          /\ combined = s.combined /\ legacy = s.legacy
          /\ trust = s.trust /\ latest = s.latest
    /\ lock = [r \in Roots |-> Free]
    /\ legacy_lock = [u \in Users |-> Free]
    /\ proc = [p \in Procs |-> Idle]
    /\ seals = 0
    /\ crashes = 0

----------------------------------------------------------------------------
Goto(p, stage) == proc' = [proc EXCEPT ![p].at = stage]
Done(p) == proc' = [proc EXCEPT ![p] = Idle]

Unlocked(p) == [r \in Roots |-> IF lock[r] = p THEN Free ELSE lock[r]]
UnlockedUser(p) == [u \in Users |-> IF legacy_lock[u] = p THEN Free ELSE legacy_lock[u]]

\* An error or the end of the command: guards are dropped, files stay.
Fail(p) ==
    /\ Done(p)
    /\ lock' = Unlocked(p)
    /\ legacy_lock' = UnlockedUser(p)
    /\ UNCHANGED <<files, trust, seals, crashes, latest>>

\* The lock on the root is dropped, and the command goes on.
Unlock(p, stage) ==
    /\ Goto(p, stage)
    /\ lock' = Unlocked(p)

----------------------------------------------------------------------------
(* The commands. *)

\* Nothing on this machine knows the root: init generates a new one.
Untouched(r) ==
    /\ ~trust[r] /\ combined[r] = NoFile /\ current[r] = Nobody
    /\ \A u \in Users : identity[r][u] = 0 /\ latest[r][u] = 0
    /\ \A p \in Procs : proc[p].at # "idle" => proc[p].root # r

Begin(p, cmd, r, u, stage) ==
    /\ proc[p].at = "idle"
    /\ proc' = [proc EXCEPT ![p] = [Idle EXCEPT !.at = stage, !.cmd = cmd,
                                               !.root = r, !.user = u]]
    /\ UNCHANGED <<files, lock, legacy_lock, trust, seals, crashes, latest>>

\* init: seal the new identity, then write vault and ratchet, then select it.
BeginInit(p, r, u) == Untouched(r) /\ Begin(p, "init", r, u, "seal")

\* claim: the ratchet first, then the identity, then the selection.
BeginClaim(p, r, u) == Begin(p, "claim", r, u, "trust")

\* Any command that acts as the default user: find out who that is, unlock it.
BeginAct(p, r) == trust[r] /\ Begin(p, "act", r, Nobody, "lock")

\* user use, or an explicit --user that is remembered; clearing the selection.
BeginSelect(p, r, u) == trust[r] /\ Begin(p, "select", r, u, "lock")
BeginClear(p, r) == trust[r] /\ Begin(p, "clear", r, Nobody, "lock")

\* init_vault, or the locked half of a claim; a claim may be refused.
EstablishTrust(p) ==
    /\ proc[p].at = "trust"
    /\ \/ /\ proc[p].cmd = "claim"
          /\ Fail(p)
       \/ /\ trust' = [trust EXCEPT ![proc[p].root] = TRUE]
          /\ Goto(p, IF proc[p].cmd = "claim" THEN "seal" ELSE "lock")
          /\ UNCHANGED <<files, lock, legacy_lock, seals, crashes, latest>>

\* seal_local_identity under a new passphrase, before any lock is taken.  The two
\* entries of the passphrase may differ, or a CI identity has no store.
SealIdentity(p) ==
    /\ proc[p].at = "seal"
    /\ \/ Fail(p)
       \/ /\ seals < MaxSeals
          /\ seals' = seals + 1
          /\ proc' = [proc EXCEPT ![p].at = "lock", ![p].seal = OldSeals + seals + 1]
          /\ UNCHANGED <<files, lock, legacy_lock, trust, crashes, latest>>

\* acquire_keychain_lock: polls for ten seconds, then gives up.
AcquireLock(p) ==
    /\ proc[p].at = "lock"
    /\ \/ /\ lock[proc[p].root] = Free
          /\ lock' = [lock EXCEPT ![proc[p].root] = p]
          /\ Goto(p, "combined")
          /\ UNCHANGED <<files, legacy_lock, trust, seals, crashes, latest>>
       \/ /\ lock[proc[p].root] # Free
          /\ Fail(p)

----------------------------------------------------------------------------
(* migrate_root_combined_locked *)

\* What the command came for, once the combined layout is out of the way.
Body(q) ==
    CASE q.cmd \in {"init", "claim"} /\ ~q.stored -> "store"
      [] q.cmd \in {"init", "claim"} /\ q.stored -> "select"
      [] q.cmd \in {"select", "clear"} -> "select"
      [] q.cmd = "act" /\ q.user = Nobody -> "read"
      [] q.cmd = "act" /\ q.user # Nobody -> "find"

\* Mutant: whoever only writes leaves the combined file to the next reader.
ReadCombined_readers(p) ==
    /\ proc[p].at = "combined"
    /\ IF combined[proc[p].root] = NoFile \/ Body(proc[p]) \in {"store", "select"}
       THEN /\ Goto(p, Body(proc[p]))
            /\ UNCHANGED <<files, lock, legacy_lock, trust, seals, crashes, latest>>
       ELSE /\ combined[proc[p].root].odd /\ Fail(p)
            \/ /\ ~combined[proc[p].root].odd /\ Goto(p, "split")
               /\ UNCHANGED <<files, lock, legacy_lock, trust, seals, crashes, latest>>

\* Everything that cannot be split is refused before anything is written.
ReadCombined(p) ==
    LET source == combined[proc[p].root]
    IN  /\ proc[p].at = "combined"
        /\ \/ /\ source = NoFile
              /\ Goto(p, Body(proc[p]))
              /\ UNCHANGED <<files, lock, legacy_lock, trust, seals, crashes, latest>>
           \/ /\ source # NoFile
              /\ source.odd \/ Cardinality(source.current) > 1
              /\ Fail(p)
           \/ /\ source # NoFile
              /\ ~source.odd /\ Cardinality(source.current) <= 1
              /\ Goto(p, "split")
              /\ UNCHANGED <<files, lock, legacy_lock, trust, seals, crashes, latest>>

Unsplit(r) == {u \in Users : combined[r].ids[u] # 0 /\ identity[r][u] = 0}
IdentityConflict(r) ==
    \E u \in Users : combined[r].ids[u] # 0 /\ identity[r][u] \notin {0, combined[r].ids[u]}
CurrentConflict(r) ==
    combined[r].current # {} /\ {current[r]} \notin {combined[r].current, {Nobody}}
Conflicting(r) == IdentityConflict(r) \/ CurrentConflict(r)

\* A file that the split layout lacks is written; one that differs is an error.
SplitIdentity(p, u) ==
    /\ proc[p].at = "split"
    /\ u \in Unsplit(proc[p].root)
    /\ identity' = [identity EXCEPT ![proc[p].root][u] = combined[proc[p].root].ids[u]]
    /\ UNCHANGED <<current, combined, legacy, lock, legacy_lock, trust, proc, seals,
                   crashes, latest>>

\* Mutant: the combined file's list of selectors is written as it stands.
SplitCurrent_list(p) ==
    LET r == proc[p].root
    IN  /\ proc[p].at = "split"
        /\ Unsplit(r) = {} /\ current[r] = Nobody
        /\ combined[r].current # {}
        /\ current' = [current EXCEPT ![r] = combined[r].current]
        /\ UNCHANGED <<identity, combined, legacy, lock, legacy_lock, trust, proc,
                       seals, crashes, latest>>

SplitCurrent(p) ==
    LET r == proc[p].root
    IN  /\ proc[p].at = "split"
        /\ Unsplit(r) = {} /\ current[r] = Nobody
        /\ \E u \in combined[r].current : current' = [current EXCEPT ![r] = u]
        /\ UNCHANGED <<identity, combined, legacy, lock, legacy_lock, trust, proc,
                       seals, crashes, latest>>

SplitConflict(p) ==
    /\ proc[p].at = "split"
    /\ \/ IdentityConflict(proc[p].root)
       \/ Unsplit(proc[p].root) = {} /\ CurrentConflict(proc[p].root)
    /\ Fail(p)

\* Mutant: the source goes as soon as it was read.
RemoveCombined_early(p) ==
    /\ proc[p].at = "split"
    /\ combined' = [combined EXCEPT ![proc[p].root] = NoFile]
    /\ Goto(p, Body(proc[p]))
    /\ UNCHANGED <<identity, current, legacy, lock, legacy_lock, trust, seals, crashes,
                   latest>>

\* The split files are read again, and only then the source is removed.
RemoveCombined(p) ==
    LET r == proc[p].root
    IN  /\ proc[p].at = "split"
        /\ Unsplit(r) = {} /\ ~Conflicting(r)
        /\ combined[r].current # {} => {current[r]} = combined[r].current
        /\ combined' = [combined EXCEPT ![r] = NoFile]
        /\ Goto(p, Body(proc[p]))
        /\ UNCHANGED <<identity, current, legacy, lock, legacy_lock, trust, seals,
                       crashes, latest>>

----------------------------------------------------------------------------
(* store_identity, read_current_user, write_current_user *)

\* A claim has its ratchet already; init goes on to write the vault.
StoreIdentity(p) ==
    LET q == proc[p]
    IN  /\ q.at = "store"
        /\ identity' = [identity EXCEPT ![q.root][q.user] = q.seal]
        /\ latest' = [latest EXCEPT ![q.root][q.user] = q.seal]
        /\ lock' = Unlocked(p)
        /\ proc' = [proc EXCEPT ![p].stored = TRUE,
                       ![p].at = IF q.cmd = "init" THEN "trust" ELSE "lock"]
        /\ UNCHANGED <<current, combined, legacy, legacy_lock, trust, seals, crashes>>

WriteCurrentUser(p) ==
    /\ proc[p].at = "select"
    /\ current' = [current EXCEPT ![proc[p].root] = proc[p].user]
    /\ lock' = Unlocked(p)
    /\ Done(p)
    /\ UNCHANGED <<identity, combined, legacy, legacy_lock, trust, seals, crashes,
                   latest>>

\* The default user is read under the lock and unlocked after it was dropped.
ReadCurrentUser(p) ==
    /\ proc[p].at = "read"
    /\ \/ /\ current[proc[p].root] = Nobody
          /\ Fail(p)
       \/ /\ current[proc[p].root] # Nobody
          /\ proc' = [proc EXCEPT ![p].user = current[proc[p].root], ![p].at = "lock"]
          /\ lock' = Unlocked(p)
          /\ UNCHANGED <<files, legacy_lock, trust, seals, crashes, latest>>

----------------------------------------------------------------------------
(* unlock_identity *)

\* Mutant: the user's own file comes first as long as it exists.
FindIdentity_userfirst(p) ==
    LET q == proc[p]
    IN  /\ q.at = "find"
        /\ IF legacy[q.user] # NoFile
           THEN Goto(p, "legacylock") /\ UNCHANGED lock
           ELSE IF identity[q.root][q.user] # 0
                THEN Goto(p, "found") /\ UNCHANGED lock
                ELSE Unlock(p, "missing")
        /\ UNCHANGED <<files, legacy_lock, trust, seals, crashes, latest>>

\* The user's own file is consulted only when the root has no identity.
FindIdentity(p) ==
    LET q == proc[p]
    IN  /\ q.at = "find"
        /\ \/ /\ identity[q.root][q.user] # 0
              /\ Goto(p, "found")
              /\ UNCHANGED lock
           \/ /\ identity[q.root][q.user] = 0 /\ legacy[q.user] # NoFile
              /\ Goto(p, "legacylock")
              /\ UNCHANGED lock
           \/ /\ identity[q.root][q.user] = 0 /\ legacy[q.user] = NoFile
              /\ Unlock(p, "missing")
        /\ UNCHANGED <<files, legacy_lock, trust, seals, crashes, latest>>

AcquireLegacyLock(p) ==
    LET u == proc[p].user
    IN  /\ proc[p].at = "legacylock"
        /\ \/ /\ legacy_lock[u] = Free
              /\ legacy_lock' = [legacy_lock EXCEPT ![u] = p]
              /\ Goto(p, "legacy")
              /\ UNCHANGED <<files, lock, trust, seals, crashes, latest>>
           \/ /\ legacy_lock[u] # Free
              /\ Fail(p)

\* The file may have been emptied for another root since it was seen.
MigrateLegacyUser(p) ==
    LET q == proc[p]
        here == legacy[q.user] # NoFile /\ legacy[q.user].ids[q.root] # 0
    IN  /\ q.at = "legacy"
        /\ \/ /\ here
              /\ identity' = [identity EXCEPT ![q.root][q.user] =
                                  legacy[q.user].ids[q.root]]
              /\ Goto(p, "rewrite")
              /\ UNCHANGED legacy_lock
           \/ /\ ~here
              /\ Goto(p, "found")
              /\ legacy_lock' = UnlockedUser(p)
              /\ UNCHANGED identity
        /\ UNCHANGED <<current, combined, legacy, lock, trust, seals, crashes, latest>>

\* What belongs to other roots stays in the file; an empty one is removed.
RewriteLegacyUser(p) ==
    LET q == proc[p]
        left == [legacy[q.user] EXCEPT !.ids[q.root] = 0]
        empty == ~left.rest /\ \A r \in Roots : left.ids[r] = 0
    IN  /\ q.at = "rewrite"
        /\ legacy' = [legacy EXCEPT ![q.user] = IF empty THEN NoFile ELSE left]
        /\ legacy_lock' = UnlockedUser(p)
        /\ Goto(p, "found")
        /\ UNCHANGED <<identity, current, combined, lock, trust, seals, crashes, latest>>

\* The sealed identity is read, the lock dropped, and only then it is opened, with
\* the right passphrase or a wrong one: either way the command's files stay.
OpenIdentity(p) ==
    /\ proc[p].at = "found"
    /\ \/ /\ identity[proc[p].root][proc[p].user] # 0
          /\ Fail(p)
       \/ /\ identity[proc[p].root][proc[p].user] = 0
          /\ Unlock(p, "missing")
          /\ UNCHANGED <<files, legacy_lock, trust, seals, crashes, latest>>

\* AutoKeychain: nothing else can supply the identity.
NoKeychainAvailable(p) == proc[p].at = "missing" /\ Fail(p)

----------------------------------------------------------------------------
\* The process is killed, or the machine loses power.
Crash(p) ==
    /\ proc[p].at # "idle" /\ crashes < MaxCrashes
    /\ crashes' = crashes + 1
    /\ Done(p)
    /\ lock' = Unlocked(p)
    /\ legacy_lock' = UnlockedUser(p)
    /\ UNCHANGED <<files, trust, seals, latest>>

Start(p) ==
    \E r \in Roots :
       \/ \E u \in Users : BeginInit(p, r, u) \/ BeginClaim(p, r, u) \/ BeginSelect(p, r, u)
       \/ BeginAct(p, r) \/ BeginClear(p, r)

Run(p) ==
    \/ EstablishTrust(p) \/ SealIdentity(p) \/ AcquireLock(p)
    \/ ReadCombined(p) \/ (\E u \in Users : SplitIdentity(p, u)) \/ SplitCurrent(p)
    \/ SplitConflict(p) \/ RemoveCombined(p)
    \/ StoreIdentity(p) \/ WriteCurrentUser(p) \/ ReadCurrentUser(p)
    \/ FindIdentity(p) \/ AcquireLegacyLock(p) \/ MigrateLegacyUser(p)
    \/ RewriteLegacyUser(p) \/ OpenIdentity(p) \/ NoKeychainAvailable(p)

Next == \E p \in Procs : Start(p) \/ Run(p) \/ Crash(p)

Spec == Init /\ [][Next]_vars

----------------------------------------------------------------------------
(* Properties. *)

TypeOK ==
    /\ identity \in [Roots -> [Users -> 0..OldSeals + MaxSeals]]
    /\ current \in [Roots -> Users \cup {Nobody}]
    /\ combined \in [Roots -> Combined \cup {NoFile}]
    /\ legacy \in [Users -> Legacy \cup {NoFile}]
    /\ lock \in [Roots -> Procs \cup {Free}]
    /\ legacy_lock \in [Users -> Procs \cup {Free}]
    /\ trust \in [Roots -> BOOLEAN]
    /\ proc \in [Procs -> [at : Stages, cmd : Commands, root : Roots,
                           user : Users \cup {Nobody}, seal : 0..OldSeals + MaxSeals,
                           stored : BOOLEAN]]
    /\ seals \in 0..MaxSeals
    /\ crashes \in 0..MaxCrashes
    /\ latest \in [Roots -> [Users -> 0..OldSeals + MaxSeals]]

\* The latest seal of an identity is always in one of the files that an unlock
\* consults, whatever migrations were interrupted where.
IdentityNeverLost ==
    \A r \in Roots, u \in Users :
       latest[r][u] # 0 =>
          \/ identity[r][u] = latest[r][u]
          \/ combined[r] # NoFile /\ combined[r].ids[u] = latest[r][u]
          \/ legacy[u] # NoFile /\ legacy[u].ids[r] = latest[r][u]

\* A migration never brings an older seal back: the identity an unlock opens is the
\* one sealed last, with the passphrase chosen last.
OnlyLatest ==
    \A r \in Roots, u \in Users : identity[r][u] \in {0, latest[r][u]}

\* Nothing the commands do, and no crash between their writes, sets the split files
\* of a root against a combined file that was not in conflict with them: such a root
\* would refuse every later operation.
MigrationNotWedged ==
    [][\A r \in Roots :
          (combined[r] # NoFile /\ ~Conflicting(r) /\ combined'[r] # NoFile)
             => ~Conflicting(r)']_vars
=============================================================================
