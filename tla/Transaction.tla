---------------------------- MODULE Transaction ----------------------------
(***************************************************************************)
(* How thorax keeps a vault file and this machine's rollback memory        *)
(* together (crates/thorax-ops/src/session.rs, transaction.rs, trust.rs,   *)
(* conflicts.rs, invite.rs, enrollment.rs over crates/thorax-store).       *)
(*                                                                         *)
(* Processes work in worktrees that share one root-state directory: one    *)
(* ratchet file, one transaction journal and one advisory root lock per    *)
(* trusted root.  A mutation writes the journal, then the ratchet, then    *)
(* the vault, then removes the journal; a process that dies in between     *)
(* leaves the journal for the next load in the same worktree.  Git changes *)
(* vault files at any moment and takes no lock.                            *)
(*                                                                         *)
(* A vault file is one of a set of byte images; all this module needs of   *)
(* an image is the watermarks validation derives from it, whether it       *)
(* validates without issues, and which images an update may append to it.  *)
(* Every acquirer of the workspace lock already holds the exclusive root   *)
(* lock, so the root lock alone orders the processes.  A step that the     *)
(* code performs under the shared root lock is one atomic action that      *)
(* waits for the exclusive lock to be free.  The legacy join journal,      *)
(* which nothing writes any more, is left out.                             *)
(***************************************************************************)
EXTENDS Naturals

CONSTANTS
    Procs,         \* thorax processes
    Workspaces,    \* worktrees sharing the root-state directory
    WorkspaceOf,   \* the worktree each process works in
    Keys,          \* record keys
    Images,        \* vault file contents
    Genesis,       \* the image every worktree starts from
    Watermarks,    \* admitted_watermarks of each image
    Clean,         \* the images that validate without issues
    Successors,    \* the images an update may turn an image into
    MaxEdits,      \* bound on changes made by git
    MaxCrashes,    \* bound on crashes
    NoProc, NoJournal, NoSession

Ratchets == [Keys -> Nat]

Journals == [origin : Workspaces,
             vaultBefore : Images, ratchetBefore : Ratchets,
             nextVault : Images, nextRatchet : Ratchets]

\* LockedSession: vault_bytes, ratchet, the ratchet its report was validated
\* against, and whether a transaction was pending.
Sessions == [vault : Images, ratchet : Ratchets, judged : Ratchets, pending : BOOLEAN]

ASSUME TransactionAssumption ==
    /\ WorkspaceOf \in [Procs -> Workspaces]
    /\ Genesis \in Clean
    /\ Clean \subseteq Images
    /\ Watermarks \in [Images -> Ratchets]
    /\ Successors \in [Images -> SUBSET Images]
    /\ MaxEdits \in Nat /\ MaxCrashes \in Nat

ASSUME NullAssumption ==
    /\ NoProc \notin Procs
    /\ NoJournal \notin Journals
    /\ NoJournal \notin [at : Workspaces, before : Images, next : Images]
    /\ NoSession \notin Sessions

VARIABLES
    vaultFile,     \* the vault file of each worktree
    ratchetFile,   \* the persisted ratchet of the root
    journal,       \* the durable transaction journal of the root
    rootLock,      \* the holder of the exclusive root-state lock
    pc,            \* where each process is
    session,       \* each process's LockedSession snapshot
    plan,          \* the transaction each process is carrying out
    acked,         \* per key, the highest counter a finished transaction
                   \* reported and nobody has deliberately forgotten since
    edits,         \* changes git has made
    crashes        \* processes that have died

files == <<vaultFile, ratchetFile, journal>>
vars  == <<vaultFile, ratchetFile, journal, rootLock, pc, session, plan, acked,
           edits, crashes>>

(* ------------------------------- ratchets ------------------------------ *)

Larger(m, n)  == IF m >= n THEN m ELSE n
Smaller(m, n) == IF m <= n THEN m ELSE n

\* Watermarks only ever grow: the maximum per key (apply_update,
\* absorb_record, merge_ratchet).
merge_ratchet(r, s) == [k \in Keys |-> Larger(r[k], s[k])]

Covers(r, s) == \A k \in Keys : s[k] <= r[k]

\* RatchetUpdate: the watermarks validating an image against a ratchet raises.
raised_watermarks(image, r) ==
    [k \in Keys |-> IF Watermarks[image][k] > r[k] THEN Watermarks[image][k] ELSE 0]

apply_update(r, image) == merge_ratchet(r, raised_watermarks(image, r))

\* ConflictKind::Rollback: the remembered watermark is above the image.
RolledBack(image, r, k) == r[k] > Watermarks[image][k]

\* read_strongest_ratchet_locked: a durable journal counts immediately.
read_strongest_ratchet ==
    IF journal = NoJournal THEN ratchetFile
                           ELSE merge_ratchet(ratchetFile, journal.nextRatchet)

(* ------------------------------ the system ----------------------------- *)

PCs == {"idle", "recover", "read", "absorb", "ready", "commit", "prepared",
        "complete", "write_vault", "verify", "abandon", "claim"}

\* Program points at which a process holds the exclusive root lock.
Locked == {"commit", "complete", "write_vault", "verify", "abandon"}

TypeOK ==
    /\ vaultFile \in [Workspaces -> Images]
    /\ ratchetFile \in Ratchets
    /\ journal \in Journals \cup {NoJournal}
    /\ rootLock \in Procs \cup {NoProc}
    /\ pc \in [Procs -> PCs]
    /\ session \in [Procs -> Sessions \cup {NoSession}]
    /\ plan \in [Procs -> Journals \cup {NoJournal}]
    /\ acked \in Ratchets
    /\ edits \in Nat
    /\ crashes \in Nat

\* init_vault has written the ratchet and the vault; every worktree is a
\* checkout of that vault.
Init ==
    /\ vaultFile = [w \in Workspaces |-> Genesis]
    /\ ratchetFile = Watermarks[Genesis]
    /\ journal = NoJournal
    /\ rootLock = NoProc
    /\ pc = [p \in Procs |-> "idle"]
    /\ session = [p \in Procs |-> NoSession]
    /\ plan = [p \in Procs |-> NoJournal]
    /\ acked = Watermarks[Genesis]
    /\ edits = 0
    /\ crashes = 0

Here(p) == vaultFile[WorkspaceOf[p]]
Goto(p, l) == pc' = [pc EXCEPT ![p] = l]
SetSession(p, s) == session' = [session EXCEPT ![p] = s]
Validated(v, r, pending) ==
    [vault |-> v, ratchet |-> r, judged |-> r, pending |-> pending]
SetPlan(p, t) == plan' = [plan EXCEPT ![p] = t]

LockFree == rootLock = NoProc
Release(p) == rootLock' = IF rootLock = p THEN NoProc ELSE rootLock

(* ------------------------------- loading ------------------------------- *)

\* Mutant: a load never looks for a journal to recover.
LoadStart_skips(p) ==
    /\ pc[p] = "idle" /\ LockFree
    /\ Goto(p, "read")
    /\ UNCHANGED <<files, rootLock, session, plan, acked, edits, crashes>>

\* recover_for_root, first half: is there a journal of this worktree?  The
\* shared lock is dropped before the exclusive one is taken.
LoadStart(p) ==
    /\ pc[p] = "idle" /\ LockFree
    /\ Goto(p, IF journal # NoJournal /\ journal.origin = WorkspaceOf[p]
               THEN "recover" ELSE "read")
    /\ UNCHANGED <<files, rootLock, session, plan, acked, edits, crashes>>

\* recover_transaction_if_origin, second half: the journal is read again
\* under the exclusive lock.
RecoverLock(p) ==
    /\ pc[p] = "recover" /\ LockFree
    /\ IF journal # NoJournal /\ journal.origin = WorkspaceOf[p]
       THEN rootLock' = p /\ SetPlan(p, journal) /\ Goto(p, "complete")
       ELSE Goto(p, "read") /\ UNCHANGED <<rootLock, plan>>
    /\ UNCHANGED <<files, session, acked, edits, crashes>>

\* LockedSession::load under the shared lock.
LoadRead(p) ==
    /\ pc[p] = "read" /\ LockFree
    /\ SetSession(p, Validated(Here(p), read_strongest_ratchet, journal # NoJournal))
    /\ Goto(p, "absorb")
    /\ UNCHANGED <<files, rootLock, plan, acked, edits, crashes>>

\* absorb_clean_trust_raises: the report is clean and raised something.
update(s)  == raised_watermarks(s.vault, s.judged)
Raises(p)  == session[p].vault \in Clean /\ \E k \in Keys : update(session[p])[k] > 0

\* Nothing to raise, a transaction pending, or the lock contended: the raises
\* stay in memory.
AbsorbInMemory(p) ==
    /\ pc[p] = "absorb"
    /\ ~Raises(p) \/ session[p].pending \/ ~LockFree
    /\ session' = [session EXCEPT ![p].ratchet =
                      IF Raises(p) THEN merge_ratchet(@, update(session[p])) ELSE @]
    /\ Goto(p, "ready")
    /\ UNCHANGED <<files, rootLock, plan, acked, edits, crashes>>

\* Mutant: the raises are persisted although a transaction is pending.
AbsorbToDisk_unchecked(p) ==
    /\ pc[p] = "absorb" /\ Raises(p) /\ ~session[p].pending /\ LockFree
    /\ ratchetFile' = merge_ratchet(ratchetFile, update(session[p]))
    /\ session' = [session EXCEPT ![p].ratchet = ratchetFile']
    /\ Goto(p, "ready")
    /\ UNCHANGED <<vaultFile, journal, rootLock, plan, acked, edits, crashes>>

\* Mutant: the ratchet read when loading is written back, not a fresh copy.
AbsorbToDisk_stale(p) ==
    /\ pc[p] = "absorb" /\ Raises(p) /\ ~session[p].pending /\ LockFree
    /\ journal = NoJournal
    /\ ratchetFile' = merge_ratchet(session[p].ratchet, update(session[p]))
    /\ session' = [session EXCEPT ![p].ratchet = ratchetFile']
    /\ Goto(p, "ready")
    /\ UNCHANGED <<vaultFile, journal, rootLock, plan, acked, edits, crashes>>

\* Under the exclusive lock the raises found when loading are folded into the
\* ratchet as it now is on disk; the report is not made again.
AbsorbToDisk(p) ==
    /\ pc[p] = "absorb" /\ Raises(p) /\ ~session[p].pending /\ LockFree
    /\ journal = NoJournal
    /\ LET r == merge_ratchet(ratchetFile, update(session[p]))
       IN  /\ ratchetFile' = r
           /\ session' = [session EXCEPT ![p].ratchet = r]
    /\ Goto(p, "ready")
    /\ UNCHANGED <<vaultFile, journal, rootLock, plan, acked, edits, crashes>>

\* A transaction became pending since the read: the load fails.
AbsorbRefused(p) ==
    /\ pc[p] = "absorb" /\ Raises(p) /\ ~session[p].pending /\ LockFree
    /\ journal # NoJournal
    /\ SetSession(p, NoSession)
    /\ Goto(p, "idle")
    /\ UNCHANGED <<files, rootLock, plan, acked, edits, crashes>>

\* reload_if_stale_locked: validate again unless vault and ratchet are the
\* session's own.
Reloaded(p, r, pending) ==
    IF session[p].vault = Here(p) /\ session[p].ratchet = r
    THEN [session[p] EXCEPT !.pending = pending]
    ELSE Validated(Here(p), r, pending)

reload_if_stale(p) ==
    /\ pc[p] = "ready" /\ LockFree
    /\ SetSession(p, Reloaded(p, read_strongest_ratchet, journal # NoJournal))
    /\ UNCHANGED <<files, rootLock, pc, plan, acked, edits, crashes>>

(* ------------------------------ committing ----------------------------- *)

\* The transaction that replaces the vault of session s by u: the ratchet
\* absorbs what both the pre-state and the post-state raise.
AfterImages(p, s, u) ==
    [origin |-> WorkspaceOf[p], vaultBefore |-> s.vault, ratchetBefore |-> s.ratchet,
     nextVault |-> u,
     nextRatchet |-> apply_update(merge_ratchet(s.ratchet, update(s)), u)]

\* LockedSession::commit up to the prepared after-images: lock, no pending
\* transaction, reload, no issues, update, validate.
Commit(p) ==
    /\ pc[p] = "ready" /\ LockFree /\ journal = NoJournal
    /\ Here(p) \in Clean
    /\ LET s == Reloaded(p, ratchetFile, FALSE)
       IN  /\ SetSession(p, s)
           /\ \E u \in Successors[s.vault] \cap Clean : SetPlan(p, AfterImages(p, s, u))
    /\ rootLock' = p
    /\ Goto(p, "commit")
    /\ UNCHANGED <<files, acked, edits, crashes>>

\* prepare_invite_user and plan_join_approval: the same computation on the
\* session's own snapshot, without a lock.
Prepare(p) ==
    /\ pc[p] = "ready"
    /\ session[p].vault \in Clean
    /\ \E u \in Successors[session[p].vault] \cap Clean :
           SetPlan(p, AfterImages(p, session[p], u))
    /\ Goto(p, "prepared")
    /\ UNCHANGED <<files, rootLock, session, acked, edits, crashes>>

\* Mutant: the vault is not compared with its before-image.
Unchanged_blind(p) == journal = NoJournal /\ ratchetFile = plan[p].ratchetBefore

\* The checks commit_after_images_locked makes before it writes the journal.
Unchanged(p) ==
    /\ journal = NoJournal
    /\ Here(p) = plan[p].vaultBefore
    /\ ratchetFile = plan[p].ratchetBefore

\* commit_after_images_locked: write the journal.
WriteJournal(p) ==
    /\ \/ pc[p] = "commit"
       \/ pc[p] = "prepared" /\ LockFree
    /\ Unchanged(p)
    /\ journal' = plan[p]
    /\ rootLock' = p
    /\ Goto(p, "complete")
    /\ UNCHANGED <<vaultFile, ratchetFile, session, plan, acked, edits, crashes>>

\* TransactionPreconditionChanged, JoinPlanStale or PendingTransaction.
CommitRefused(p) ==
    /\ \/ pc[p] = "commit"
       \/ pc[p] = "prepared" /\ LockFree
    /\ ~Unchanged(p)
    /\ Release(p)
    /\ SetPlan(p, NoJournal)
    /\ Goto(p, "ready")
    /\ UNCHANGED <<files, session, acked, edits, crashes>>

(* ---------------- complete_transaction_locked, step by step ------------ *)

\* classify_file on both files.
VaultKnown(p)   == Here(p) \in {plan[p].vaultBefore, plan[p].nextVault}
RatchetKnown(p) == ratchetFile \in {plan[p].ratchetBefore, plan[p].nextRatchet}

\* An error return: the journal stays, the lock goes.  A load fails with it.
Fail(p) ==
    /\ Release(p)
    /\ SetPlan(p, NoJournal)
    /\ Goto(p, IF session[p] = NoSession THEN "idle" ELSE "ready")
    /\ UNCHANGED <<files, session, acked, edits, crashes>>

\* Mutant: the vault is written first.
CompleteRatchet_late(p) ==
    /\ pc[p] = "complete" /\ VaultKnown(p) /\ RatchetKnown(p)
    /\ vaultFile' = [vaultFile EXCEPT ![WorkspaceOf[p]] = plan[p].nextVault]
    /\ ratchetFile' = plan[p].nextRatchet
    /\ Goto(p, "verify")
    /\ UNCHANGED <<journal, rootLock, session, plan, acked, edits, crashes>>

\* Classify, then write the ratchet - before the vault.
CompleteRatchet(p) ==
    /\ pc[p] = "complete" /\ VaultKnown(p) /\ RatchetKnown(p)
    /\ ratchetFile' = plan[p].nextRatchet
    /\ Goto(p, IF Here(p) = plan[p].nextVault THEN "verify" ELSE "write_vault")
    /\ UNCHANGED <<vaultFile, journal, rootLock, session, plan, acked, edits, crashes>>

CompleteConflict(p) ==
    /\ pc[p] = "complete" /\ ~(VaultKnown(p) /\ RatchetKnown(p))
    /\ Fail(p)

\* Whatever git has put there since the classification is overwritten.
CompleteVault(p) ==
    /\ pc[p] = "write_vault"
    /\ vaultFile' = [vaultFile EXCEPT ![WorkspaceOf[p]] = plan[p].nextVault]
    /\ Goto(p, "verify")
    /\ UNCHANGED <<ratchetFile, journal, rootLock, session, plan, acked, edits, crashes>>

\* Reopen both files and compare, then remove the journal.
Verified(p) == Here(p) = plan[p].nextVault /\ ratchetFile = plan[p].nextRatchet

CompleteRemove(p) ==
    /\ pc[p] = "verify" /\ Verified(p)
    /\ journal' = NoJournal
    /\ Release(p)
    /\ acked' = merge_ratchet(acked, Watermarks[plan[p].nextVault])
    /\ IF session[p] = NoSession
       THEN Goto(p, "read") /\ UNCHANGED session
       ELSE /\ Goto(p, "ready")
            /\ SetSession(p, Validated(plan[p].nextVault, plan[p].nextRatchet, FALSE))
    /\ SetPlan(p, NoJournal)
    /\ UNCHANGED <<vaultFile, ratchetFile, edits, crashes>>

VerifyConflict(p) ==
    /\ pc[p] = "verify" /\ ~Verified(p)
    /\ Fail(p)

(* ----------------------------- abandoning ------------------------------ *)

\* Mutant: the journal's rollback protection is dropped with it.
AbandonRatchet_forgets(p) ==
    /\ pc[p] = "idle" /\ LockFree /\ journal # NoJournal
    /\ rootLock' = p
    /\ Goto(p, "abandon")
    /\ UNCHANGED <<files, session, plan, acked, edits, crashes>>

\* abandon_transaction: keep the rollback protection the journal carries ...
AbandonRatchet(p) ==
    /\ pc[p] = "idle" /\ LockFree /\ journal # NoJournal
    /\ ratchetFile' = merge_ratchet(ratchetFile, journal.nextRatchet)
    /\ rootLock' = p
    /\ Goto(p, "abandon")
    /\ UNCHANGED <<vaultFile, journal, session, plan, acked, edits, crashes>>

\* ... then remove it.
AbandonRemove(p) ==
    /\ pc[p] = "abandon"
    /\ journal' = NoJournal
    /\ Release(p)
    /\ Goto(p, "idle")
    /\ UNCHANGED <<vaultFile, ratchetFile, session, plan, acked, edits, crashes>>

(* --------------- the deliberate weakenings of local trust -------------- *)

\* Mutant: one below the counter the vault shows.
AcceptRollback_below(p, k) ==
    /\ pc[p] = "ready" /\ RolledBack(session[p].vault, session[p].judged, k)
    /\ LockFree /\ journal = NoJournal
    /\ ratchetFile' = [ratchetFile EXCEPT ![k] = Watermarks[session[p].vault][k] - 1]
    /\ acked' = [acked EXCEPT ![k] = Smaller(@, ratchetFile'[k])]
    /\ SetSession(p, Validated(Here(p), ratchetFile', FALSE))
    /\ UNCHANGED <<vaultFile, journal, rootLock, pc, plan, edits, crashes>>

\* accept_rollback: the counter comes from the conflict the session showed;
\* rewrite_ratchet applies it to the ratchet as it is under the lock.
AcceptRollback(p, k) ==
    /\ pc[p] = "ready" /\ RolledBack(session[p].vault, session[p].judged, k)
    /\ LockFree /\ journal = NoJournal
    /\ LET n == Watermarks[session[p].vault][k]
       IN  /\ ratchetFile' = [ratchetFile EXCEPT ![k] = n]
           /\ acked' = [acked EXCEPT ![k] = Smaller(@, n)]
    /\ SetSession(p, Validated(Here(p), ratchetFile', FALSE))
    /\ UNCHANGED <<vaultFile, journal, rootLock, pc, plan, edits, crashes>>

\* reset_ratchet: trust exactly what the vault shows now.
ResetRatchet(p) ==
    /\ pc[p] = "idle" /\ LockFree /\ journal = NoJournal
    /\ Here(p) \in Clean
    /\ ratchetFile' = Watermarks[Here(p)]
    /\ acked' = [k \in Keys |-> Smaller(acked[k], ratchetFile'[k])]
    /\ UNCHANGED <<vaultFile, journal, rootLock, pc, session, plan, edits, crashes>>

(* ------------------------- claiming an invitation ---------------------- *)

\* claim_invite_with_keychain on a machine that already has a ratchet: the
\* vault is read before the lock is taken ...
ClaimRead(p) ==
    /\ pc[p] = "idle"
    /\ SetSession(p, Validated(Here(p), ratchetFile, FALSE))
    /\ Goto(p, "claim")
    /\ UNCHANGED <<files, rootLock, plan, acked, edits, crashes>>

\* ... and validated against the ratchet as it is under the lock.
Claimable(p) ==
    /\ journal = NoJournal
    /\ session[p].vault \in Clean
    /\ \A k \in Keys : ~RolledBack(session[p].vault, ratchetFile, k)

ClaimWrite(p) ==
    /\ pc[p] = "claim" /\ LockFree
    /\ ratchetFile' = IF Claimable(p) THEN apply_update(ratchetFile, session[p].vault)
                                      ELSE ratchetFile
    /\ SetSession(p, NoSession)
    /\ Goto(p, "idle")
    /\ UNCHANGED <<vaultFile, journal, rootLock, plan, acked, edits, crashes>>

(* ---------------------------- the environment -------------------------- *)

\* A pull, checkout, merge or reset replaces a worktree's vault file.
GitEdit(w, v) ==
    /\ edits < MaxEdits
    /\ v # vaultFile[w]
    /\ vaultFile' = [vaultFile EXCEPT ![w] = v]
    /\ edits' = edits + 1
    /\ UNCHANGED <<ratchetFile, journal, rootLock, pc, session, plan, acked, crashes>>

\* A process dies wherever it is; the operating system drops its lock.
Die(p) ==
    /\ Release(p)
    /\ Goto(p, "idle")
    /\ SetSession(p, NoSession)
    /\ SetPlan(p, NoJournal)
    /\ UNCHANGED <<files, acked, edits>>

Crash(p) ==
    /\ pc[p] # "idle" /\ crashes < MaxCrashes
    /\ crashes' = crashes + 1
    /\ Die(p)

\* The command that owns the session ends.
Close(p) ==
    /\ pc[p] \in {"ready", "prepared"}
    /\ Die(p)
    /\ UNCHANGED crashes

Load(p)     == LoadStart(p) \/ RecoverLock(p) \/ LoadRead(p)
Absorb(p)   == AbsorbInMemory(p) \/ AbsorbToDisk(p) \/ AbsorbRefused(p)
Complete(p) == \/ CompleteRatchet(p) \/ CompleteConflict(p) \/ CompleteVault(p)
               \/ CompleteRemove(p) \/ VerifyConflict(p)

Next ==
    \/ \E p \in Procs :
          \/ Load(p) \/ Absorb(p) \/ reload_if_stale(p)
          \/ Commit(p) \/ Prepare(p) \/ WriteJournal(p) \/ CommitRefused(p)
          \/ Complete(p)
          \/ AbandonRatchet(p) \/ AbandonRemove(p)
          \/ (\E k \in Keys : AcceptRollback(p, k)) \/ ResetRatchet(p)
          \/ ClaimRead(p) \/ ClaimWrite(p)
          \/ Crash(p) \/ Close(p)
    \/ \E w \in Workspaces, v \in Images : GitEdit(w, v)

Spec == Init /\ [][Next]_vars

(***************************************************************************)
(* Fairness.  A process that holds the lock runs on; a load that keeps     *)
(* finding the lock free goes through; commands end.  The first is the     *)
(* operating system's; the others say that somebody keeps using each       *)
(* worktree and that the lock, which every holder releases, is not always  *)
(* taken at the wrong moment (acquire_advisory_lock polls it).             *)
(***************************************************************************)
Run(p) == \/ WriteJournal(p) \/ CommitRefused(p)
          \/ Complete(p) \/ AbandonRemove(p) \/ Absorb(p)

Fairness ==
    \A p \in Procs :
        /\ WF_vars(Run(p))
        /\ SF_vars(Load(p)) /\ SF_vars(ClaimWrite(p)) /\ SF_vars(Close(p))

FairSpec == Spec /\ Fairness

(* ----------------------------- properties ------------------------------ *)

\* While a journal exists the ratchet file is one of its two images, so that
\* classify_file on the ratchet never refuses a recovery, and completing the
\* journal never lowers it: nobody who writes the ratchet outside
\* complete_transaction_locked gets past ensure_no_pending_transaction_locked,
\* whatever the processes do between their unlocked reads and their locked
\* writes.
RatchetRecoverable ==
    journal # NoJournal =>
        /\ Covers(journal.nextRatchet, journal.ratchetBefore)
        /\ ratchetFile \in {journal.ratchetBefore, journal.nextRatchet}

\* What a finished transaction reported is remembered on this machine
\* until a user gives it up with accept_rollback or reset_ratchet: no crash,
\* recovery, abandon, claim, absorb or other process's commit loses it.
AckedRemembered == Covers(read_strongest_ratchet, acked)

\* The strongest ratchet (read_strongest_ratchet_locked) is never lowered by
\* anything but accept_rollback and reset_ratchet - in particular not by a
\* crash or recovery between the journal, ratchet and vault writes.
TrustMonotone ==
    [][\/ Covers(read_strongest_ratchet', read_strongest_ratchet)
       \/ \E p \in Procs : ResetRatchet(p) \/ \E k \in Keys : AcceptRollback(p, k)]_vars

\* When thorax itself replaces a vault file, the ratchet file already covers
\* every counter of the new image (complete_transaction_locked writes the
\* ratchet first), so a crash never leaves a vault this machine has written
\* and would not miss if it were rolled back.
VaultCovered ==
    [][\A w \in Workspaces :
          vaultFile'[w] # vaultFile[w] /\ edits' = edits
              => Covers(ratchetFile, Watermarks[vaultFile'[w]])]_vars

\* A transaction left behind by a crash is brought to an end by later loads in
\* its worktree, unless git has meanwhile put a third image in the vault's
\* place (then the user must abandon it).
Pending(w)  == journal # NoJournal /\ journal.origin = w
GitGotIn(w) == journal # NoJournal /\ vaultFile[w] \notin {journal.vaultBefore, journal.nextVault}

RecoveryCompletes ==
    \A w \in Workspaces : Pending(w) ~> (~Pending(w) \/ GitGotIn(w))

(***************************************************************************)
(* Refinement: with the journal standing for the vault it is going to      *)
(* write, a transaction is one atomic step (module AtomicStore).           *)
(***************************************************************************)
vaultBar ==
    [w \in Workspaces |-> IF Pending(w) /\ ~GitGotIn(w) THEN journal.nextVault
                                                        ELSE vaultFile[w]]

inDoubtBar ==
    IF journal = NoJournal THEN NoJournal
    ELSE [at |-> journal.origin, before |-> journal.vaultBefore, next |-> journal.nextVault]

Atomic == INSTANCE AtomicStore
    WITH vault <- vaultBar, trust <- read_strongest_ratchet, inDoubt <- inDoubtBar,
         Nothing <- NoJournal

\* Transactions are atomic: whatever crashes, recovers, races or is abandoned,
\* vault and rollback memory change together and a commit is built on what the
\* vault held when it took effect.
AtomicSpec == Atomic!Spec

(***************************************************************************)
(* The inductive invariant: what each process may rely on where it is.     *)
(* It ties the process holding the lock to the journal it is completing    *)
(* and to how far the ratchet file has got.                                *)
(***************************************************************************)
\* The after-image of the ratchet loses nothing and covers the new vault.
PlanSound(t) ==
    /\ Covers(t.nextRatchet, t.ratchetBefore)
    /\ Covers(t.nextRatchet, Watermarks[t.nextVault])
    /\ \A k \in Keys : t.nextRatchet[k] \in {t.ratchetBefore[k],
                           Watermarks[t.vaultBefore][k], Watermarks[t.nextVault][k]}

HoldsPlan(p) == pc[p] \in {"commit", "prepared"} =>
                    /\ plan[p] # NoJournal
                    /\ plan[p].origin = WorkspaceOf[p]
                    /\ plan[p].vaultBefore \in Clean
                    /\ plan[p].nextVault \in Successors[plan[p].vaultBefore] \cap Clean
                    /\ PlanSound(plan[p])

HoldsSession(p) ==
    pc[p] \in {"absorb", "ready", "prepared", "commit", "claim"} => session[p] # NoSession

HoldsLock(p) == pc[p] \in Locked => rootLock = p

Completing(p) ==
    /\ pc[p] \in {"complete", "write_vault", "verify"} =>
           journal # NoJournal /\ plan[p] = journal /\ journal.origin = WorkspaceOf[p]
    /\ pc[p] = "commit" => journal = NoJournal
    /\ pc[p] \in {"write_vault", "verify", "abandon"} =>
           journal # NoJournal /\ ratchetFile = journal.nextRatchet

JournalSound == journal # NoJournal => PlanSound(journal)

Inductive ==
    /\ TypeOK
    /\ \A p \in Procs : HoldsPlan(p) /\ HoldsSession(p) /\ HoldsLock(p) /\ Completing(p)
    /\ JournalSound
    /\ RatchetRecoverable
    /\ AckedRemembered
=============================================================================
