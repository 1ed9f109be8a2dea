------------------------- MODULE TransactionProofs -------------------------
(***************************************************************************)
(* Proofs about module Transaction, for every set of processes, worktrees, *)
(* keys and vault images.  All of them rest on the invariant Inductive.    *)
(***************************************************************************)
EXTENDS Transaction, TLAPS

(* ------------------------------- ratchets ------------------------------ *)

\* merge_ratchet returns a ratchet that covers both of its arguments.
LEMMA MergeCovers ==
    ASSUME NEW r \in Ratchets, NEW s \in Ratchets
    PROVE  /\ merge_ratchet(r, s) \in Ratchets
           /\ Covers(merge_ratchet(r, s), r)
           /\ Covers(merge_ratchet(r, s), s)
BY DEF merge_ratchet, Covers, Ratchets, Larger

\* Merging what is already covered changes nothing.
LEMMA MergeCovered ==
    ASSUME NEW r \in Ratchets, NEW s \in Ratchets, Covers(r, s)
    PROVE  merge_ratchet(r, s) = r /\ merge_ratchet(s, r) = r
<1>1. \A k \in Keys : Larger(r[k], s[k]) = r[k] /\ Larger(s[k], r[k]) = r[k]
  BY DEF Covers, Larger, Ratchets
<1> QED
  BY <1>1 DEF merge_ratchet, Ratchets

\* Covering is a preorder.
LEMMA CoversTransitive ==
    ASSUME NEW r \in Ratchets, NEW s \in Ratchets, NEW t \in Ratchets,
           Covers(r, s), Covers(s, t)
    PROVE  Covers(r, t)
BY DEF Covers, Ratchets

\* Every ratchet covers itself.
LEMMA CoversReflexive ==
    ASSUME NEW r \in Ratchets
    PROVE  Covers(r, r)
BY DEF Covers, Ratchets

\* The raises of a report are a ratchet.
LEMMA RaisedType ==
    ASSUME NEW v \in Images, NEW r \in Ratchets
    PROVE  raised_watermarks(v, r) \in Ratchets
BY TransactionAssumption DEF raised_watermarks, Ratchets

\* apply_update covers the old ratchet and every counter of the image.
LEMMA ApplyUpdateCovers ==
    ASSUME NEW v \in Images, NEW r \in Ratchets
    PROVE  /\ apply_update(r, v) \in Ratchets
           /\ Covers(apply_update(r, v), r)
           /\ Covers(apply_update(r, v), Watermarks[v])
<1>1. Watermarks[v] \in Ratchets
  BY TransactionAssumption
<1>2. raised_watermarks(v, r) \in Ratchets
  BY RaisedType
<1>3. apply_update(r, v) \in Ratchets /\ Covers(apply_update(r, v), r)
  BY <1>2, MergeCovers DEF apply_update
<1>4. Covers(apply_update(r, v), Watermarks[v])
  BY <1>1 DEF apply_update, merge_ratchet, raised_watermarks, Covers, Ratchets, Larger
<1> QED
  BY <1>3, <1>4

\* The transaction a session plans is well formed and loses nothing.
LEMMA AfterImagesSound ==
    ASSUME NEW p \in Procs, NEW s \in Sessions, NEW u \in Images
    PROVE  /\ AfterImages(p, s, u) \in Journals
           /\ AfterImages(p, s, u).origin = WorkspaceOf[p]
           /\ AfterImages(p, s, u).vaultBefore = s.vault
           /\ AfterImages(p, s, u).nextVault = u
           /\ PlanSound(AfterImages(p, s, u))
<1> DEFINE m == merge_ratchet(s.ratchet, update(s))
<1>1. s.vault \in Images /\ s.ratchet \in Ratchets /\ s.judged \in Ratchets
  BY DEF Sessions
<1>2. m \in Ratchets /\ Covers(m, s.ratchet)
  BY <1>1, RaisedType, MergeCovers DEF update
<1>3. /\ apply_update(m, u) \in Ratchets
      /\ Covers(apply_update(m, u), s.ratchet)
      /\ Covers(apply_update(m, u), Watermarks[u])
  BY <1>1, <1>2, ApplyUpdateCovers, CoversTransitive
<1>4. \A k \in Keys : m[k] \in {s.ratchet[k], Watermarks[s.vault][k]}
  BY <1>1, TransactionAssumption
  DEF update, merge_ratchet, raised_watermarks, Larger, Ratchets
<1>5. \A k \in Keys : apply_update(m, u)[k] \in {m[k], Watermarks[u][k]}
  BY <1>2, TransactionAssumption
  DEF apply_update, merge_ratchet, raised_watermarks, Larger, Ratchets
<1>6. WorkspaceOf[p] \in Workspaces
  BY TransactionAssumption
<1> HIDE DEF m
<1>7. AfterImages(p, s, u).nextRatchet = apply_update(m, u)
  BY DEF AfterImages, m
<1> QED
  BY <1>1, <1>3, <1>4, <1>5, <1>6, <1>7 DEF AfterImages, PlanSound, Journals

\* read_strongest_ratchet is a ratchet, covers the file, and is the journal's
\* after-image whenever there is a journal.
LEMMA Strongest ==
    ASSUME TypeOK, JournalSound, RatchetRecoverable
    PROVE  /\ read_strongest_ratchet \in Ratchets
           /\ Covers(read_strongest_ratchet, ratchetFile)
           /\ journal # NoJournal => read_strongest_ratchet = journal.nextRatchet
           /\ journal = NoJournal => read_strongest_ratchet = ratchetFile
<1>1. CASE journal = NoJournal
  BY <1>1, CoversReflexive DEF TypeOK, read_strongest_ratchet
<1>2. CASE journal # NoJournal
  <2>1. journal \in Journals /\ journal.nextRatchet \in Ratchets
        /\ journal.ratchetBefore \in Ratchets /\ ratchetFile \in Ratchets
    BY <1>2 DEF TypeOK, Journals
  <2>2. Covers(journal.nextRatchet, ratchetFile)
    BY <1>2, <2>1, CoversReflexive DEF RatchetRecoverable
  <2>3. read_strongest_ratchet = journal.nextRatchet
    BY <1>2, <2>1, <2>2, MergeCovered DEF read_strongest_ratchet
  <2> QED
    BY <1>2, <2>1, <2>2, <2>3
<1> QED
  BY <1>1, <1>2

(* --------------------------- frame lemmas ------------------------------ *)

ProcInv(p) == HoldsPlan(p) /\ HoldsSession(p) /\ HoldsLock(p) /\ Completing(p)

\* A step of process p, or of git, leaves every other process as it is.
OnlyMoves(p) ==
    \A q \in Procs : q # p => /\ pc'[q] = pc[q]
                              /\ session'[q] = session[q]
                              /\ plan'[q] = plan[q]

\* The lock is free or p's own, or the step does not touch what it guards.
Guarded(p) ==
    rootLock \in {NoProc, p} \/ UNCHANGED <<ratchetFile, journal, rootLock>>

\* What the other processes rely on survives a guarded step of p.
LEMMA OthersKeep ==
    ASSUME Inductive, NEW p \in Procs, NEW q \in Procs, q # p,
           OnlyMoves(p), Guarded(p)
    PROVE  ProcInv(q)'
<1>1. ProcInv(q)
  BY DEF Inductive, ProcInv
<1>2. pc'[q] = pc[q] /\ session'[q] = session[q] /\ plan'[q] = plan[q]
  BY DEF OnlyMoves
<1>3. CASE rootLock \in {NoProc, p}
  <2>1. pc[q] \notin Locked
    BY <1>1, <1>3, NullAssumption DEF ProcInv, HoldsLock
  <2> QED
    BY <1>1, <1>2, <2>1
    DEF ProcInv, HoldsPlan, HoldsSession, HoldsLock, Completing, Locked, PlanSound, Covers
<1>4. CASE UNCHANGED <<ratchetFile, journal, rootLock>>
  BY <1>1, <1>2, <1>4
  DEF ProcInv, HoldsPlan, HoldsSession, HoldsLock, Completing, PlanSound, Covers
<1> QED
  BY <1>3, <1>4 DEF Guarded

\* A step that writes neither the ratchet nor the journal keeps what is said
\* of them.
LEMMA FilesKeep ==
    ASSUME Inductive, UNCHANGED <<ratchetFile, journal, acked>>
    PROVE  /\ JournalSound' /\ RatchetRecoverable' /\ AckedRemembered'
           /\ read_strongest_ratchet' = read_strongest_ratchet
BY DEF Inductive, JournalSound, RatchetRecoverable, AckedRemembered,
       read_strongest_ratchet, PlanSound, Covers, merge_ratchet

\* So only p's own part is left to show for such a step.
LEMMA QuietStep ==
    ASSUME Inductive, NEW p \in Procs,
           UNCHANGED <<ratchetFile, journal, acked>>,
           OnlyMoves(p), Guarded(p), TypeOK', ProcInv(p)'
    PROVE  Inductive'
<1>1. \A q \in Procs : ProcInv(q)'
  <2> SUFFICES ASSUME NEW q \in Procs PROVE ProcInv(q)'
    OBVIOUS
  <2>1. CASE q = p
    BY <2>1
  <2>2. CASE q # p
    BY <2>2, OthersKeep
  <2> QED
    BY <2>1, <2>2
<1> QED
  BY <1>1, FilesKeep DEF Inductive, ProcInv

(* ------------------------------- loading ------------------------------- *)

\* LoadStart, RecoverLock, LoadRead.
LEMMA LoadKeeps ==
    ASSUME Inductive, NEW p \in Procs, Load(p)
    PROVE  Inductive'
<1> USE DEF Goto, SetPlan, SetSession
<1>1. CASE LoadStart(p)
  <2>1. TypeOK'
    BY <1>1 DEF Inductive, TypeOK, LoadStart, files, PCs
  <2>2. OnlyMoves(p) /\ Guarded(p)
    BY <1>1 DEF Inductive, TypeOK, LoadStart, files, OnlyMoves, Guarded
  <2>3. ProcInv(p)'
    BY <1>1 DEF Inductive, TypeOK, LoadStart, files, ProcInv, HoldsPlan, HoldsSession,
                HoldsLock, Completing, Locked
  <2> QED
    BY <1>1, <2>1, <2>2, <2>3, QuietStep DEF LoadStart, files
<1>2. CASE RecoverLock(p)
  <2>1. TypeOK'
    BY <1>2 DEF Inductive, TypeOK, RecoverLock, files, PCs
  <2>2. OnlyMoves(p) /\ Guarded(p)
    BY <1>2 DEF Inductive, TypeOK, RecoverLock, files, OnlyMoves, Guarded, LockFree
  <2>3. ProcInv(p)'
    BY <1>2 DEF Inductive, TypeOK, RecoverLock, files, ProcInv, HoldsPlan, HoldsSession,
                HoldsLock, Completing, Locked
  <2> QED
    BY <1>2, <2>1, <2>2, <2>3, QuietStep DEF RecoverLock, files
<1>3. CASE LoadRead(p)
  <2>1. Validated(Here(p), read_strongest_ratchet, journal # NoJournal) \in Sessions
    <3>1. Here(p) \in Images
      BY TransactionAssumption DEF Inductive, TypeOK, Here
    <3>2. read_strongest_ratchet \in Ratchets
      BY Strongest DEF Inductive
    <3>3. (journal # NoJournal) \in BOOLEAN
      OBVIOUS
    <3> QED
      BY <3>1, <3>2, <3>3 DEF Validated, Sessions
  <2>2. TypeOK'
    BY <1>3, <2>1 DEF Inductive, TypeOK, LoadRead, files, PCs
  <2>3. OnlyMoves(p) /\ Guarded(p)
    BY <1>3 DEF Inductive, TypeOK, LoadRead, files, OnlyMoves, Guarded
  <2>4. ProcInv(p)'
    BY <1>3, <2>1, NullAssumption
    DEF Inductive, TypeOK, LoadRead, files, ProcInv, HoldsPlan, HoldsSession, HoldsLock,
        Completing, Locked
  <2> QED
    BY <1>3, <2>2, <2>3, <2>4, QuietStep DEF LoadRead, files
<1> QED
  BY <1>1, <1>2, <1>3 DEF Load

\* AbsorbInMemory and AbsorbRefused write nothing; AbsorbToDisk raises the
\* ratchet file when no journal exists.
LEMMA AbsorbKeeps ==
    ASSUME Inductive, NEW p \in Procs, Absorb(p)
    PROVE  Inductive' /\ Covers(read_strongest_ratchet', read_strongest_ratchet)
<1> USE DEF Goto, SetPlan, SetSession
<1>1. pc[p] = "absorb"
  BY DEF Absorb, AbsorbInMemory, AbsorbToDisk, AbsorbRefused
<1>2. session[p] \in Sessions
  BY <1>1 DEF Inductive, TypeOK, HoldsSession
<1>3. /\ session[p].vault \in Images
      /\ session[p].ratchet \in Ratchets
      /\ update(session[p]) \in Ratchets
  BY <1>2, RaisedType DEF Sessions, update
<1>4. read_strongest_ratchet \in Ratchets
  BY Strongest DEF Inductive
<1>5. CASE AbsorbInMemory(p)
  <2> DEFINE r == IF Raises(p) THEN merge_ratchet(session[p].ratchet, update(session[p]))
                               ELSE session[p].ratchet
  <2>1. r \in Ratchets
    BY <1>3, MergeCovers
  <2>2. session' = [session EXCEPT ![p].ratchet = r]
    BY <1>5 DEF AbsorbInMemory
  <2>3. session' \in [Procs -> Sessions \cup {NoSession}] /\ session'[p] \in Sessions
    BY <1>2, <2>1, <2>2 DEF Inductive, TypeOK, Sessions
  <2>4. TypeOK'
    BY <1>5, <2>3 DEF Inductive, TypeOK, AbsorbInMemory, files, PCs
  <2>5. OnlyMoves(p) /\ Guarded(p)
    BY <1>5, <2>2 DEF Inductive, TypeOK, AbsorbInMemory, files, OnlyMoves, Guarded
  <2>6. ProcInv(p)'
    BY <1>5, <2>3, NullAssumption
    DEF Inductive, TypeOK, AbsorbInMemory, files, ProcInv, HoldsPlan, HoldsSession,
        HoldsLock, Completing, Locked
  <2> QED
    BY <1>4, <1>5, <2>4, <2>5, <2>6, QuietStep, FilesKeep, CoversReflexive
    DEF AbsorbInMemory, files
<1>6. CASE AbsorbRefused(p)
  <2>1. TypeOK'
    BY <1>6 DEF Inductive, TypeOK, AbsorbRefused, files, PCs
  <2>2. OnlyMoves(p) /\ Guarded(p)
    BY <1>6 DEF Inductive, TypeOK, AbsorbRefused, files, OnlyMoves, Guarded
  <2>3. ProcInv(p)'
    BY <1>6 DEF Inductive, TypeOK, AbsorbRefused, files, ProcInv, HoldsPlan, HoldsSession,
                HoldsLock, Completing, Locked
  <2> QED
    BY <1>4, <1>6, <2>1, <2>2, <2>3, QuietStep, FilesKeep, CoversReflexive
    DEF AbsorbRefused, files
<1>7. CASE AbsorbToDisk(p)
  <2> DEFINE r == merge_ratchet(ratchetFile, update(session[p]))
  <2>1. ratchetFile \in Ratchets /\ r \in Ratchets /\ Covers(r, ratchetFile)
    BY <1>3, MergeCovers DEF Inductive, TypeOK
  <2>2. /\ session' = [session EXCEPT ![p].ratchet = r]
        /\ ratchetFile' = r
        /\ journal = NoJournal /\ journal' = NoJournal
        /\ rootLock = NoProc /\ rootLock' = NoProc
        /\ pc' = [pc EXCEPT ![p] = "ready"]
        /\ UNCHANGED <<vaultFile, plan, acked, edits, crashes>>
    BY <1>7 DEF AbsorbToDisk, LockFree
  <2> HIDE DEF r
  <2>3. session' \in [Procs -> Sessions \cup {NoSession}] /\ session'[p] \in Sessions
    BY <1>2, <2>1, <2>2 DEF Inductive, TypeOK, Sessions
  <2>4. TypeOK'
    BY <2>1, <2>2, <2>3 DEF Inductive, TypeOK, PCs
  <2>5. OnlyMoves(p) /\ Guarded(p)
    BY <2>2 DEF Inductive, TypeOK, OnlyMoves, Guarded
  <2>6. ProcInv(p)'
    BY <2>2, <2>3, NullAssumption
    DEF Inductive, TypeOK, ProcInv, HoldsPlan, HoldsSession, HoldsLock, Completing, Locked
  <2>7. \A q \in Procs : ProcInv(q)'
    BY <2>5, <2>6, OthersKeep
  <2>8. JournalSound' /\ RatchetRecoverable'
    BY <2>2 DEF JournalSound, RatchetRecoverable
  <2>9. read_strongest_ratchet = ratchetFile /\ read_strongest_ratchet' = r
    BY <2>2 DEF read_strongest_ratchet
  <2>10. AckedRemembered'
    <3>1. acked \in Ratchets /\ Covers(ratchetFile, acked) /\ acked' = acked
      BY <2>2, <2>9 DEF Inductive, TypeOK, AckedRemembered
    <3>2. Covers(r, acked)
      BY <2>1, <3>1, CoversTransitive
    <3> QED
      BY <2>9, <3>1, <3>2 DEF AckedRemembered, Covers
  <2> QED
    BY <2>1, <2>4, <2>7, <2>8, <2>9, <2>10 DEF Inductive, ProcInv, Covers
<1> QED
  BY <1>5, <1>6, <1>7 DEF Absorb

\* A reloaded session is a session of the vault that is there and of r.
LEMMA ReloadedType ==
    ASSUME Inductive, NEW p \in Procs, pc[p] = "ready",
           NEW STATE r, NEW STATE b, r \in Ratchets, b \in BOOLEAN
    PROVE  /\ Reloaded(p, r, b) \in Sessions
           /\ Reloaded(p, r, b).vault = Here(p)
           /\ Reloaded(p, r, b).ratchet = r
<1>1. session[p] \in Sessions
  BY DEF Inductive, TypeOK, HoldsSession
<1>2. Here(p) \in Images
  BY TransactionAssumption DEF Inductive, TypeOK, Here
<1> QED
  BY <1>1, <1>2 DEF Reloaded, Validated, Sessions

\* reload_if_stale replaces p's session only.
LEMMA ReloadKeeps ==
    ASSUME Inductive, NEW p \in Procs, reload_if_stale(p)
    PROVE  Inductive'
<1> USE DEF SetSession
<1> DEFINE s == Reloaded(p, read_strongest_ratchet, journal # NoJournal)
<1>1. s \in Sessions
  <2>1. read_strongest_ratchet \in Ratchets /\ (journal # NoJournal) \in BOOLEAN
    BY Strongest DEF Inductive
  <2> QED
    BY <2>1, ReloadedType DEF reload_if_stale
<1>2. /\ session' = [session EXCEPT ![p] = s]
      /\ pc[p] = "ready"
      /\ UNCHANGED <<vaultFile, ratchetFile, journal, rootLock, pc, plan, acked, edits, crashes>>
  BY DEF reload_if_stale, files
<1> HIDE DEF s
<1>3. TypeOK'
  BY <1>1, <1>2 DEF Inductive, TypeOK
<1>4. OnlyMoves(p) /\ Guarded(p)
  BY <1>2 DEF Inductive, TypeOK, OnlyMoves, Guarded
<1>5. ProcInv(p)'
  BY <1>1, <1>2, NullAssumption
  DEF Inductive, TypeOK, ProcInv, HoldsPlan, HoldsSession, HoldsLock, Completing, Locked
<1> QED
  BY <1>2, <1>3, <1>4, <1>5, QuietStep

(* ------------------------------ committing ----------------------------- *)

\* Commit and Prepare plan a transaction that loses nothing.
LEMMA PlanKeeps ==
    ASSUME Inductive, NEW p \in Procs, Commit(p) \/ Prepare(p)
    PROVE  Inductive'
<1> USE DEF Goto, SetPlan, SetSession
<1>0. Clean \subseteq Images /\ (\A v \in Images : Successors[v] \subseteq Images)
  BY TransactionAssumption
<1>1. CASE Commit(p)
  <2> DEFINE s == Reloaded(p, ratchetFile, FALSE)
  <2>1. s \in Sessions /\ s.vault = Here(p)
    <3>1. ratchetFile \in Ratchets /\ FALSE \in BOOLEAN
      BY DEF Inductive, TypeOK
    <3> QED
      BY <1>1, <3>1, ReloadedType DEF Commit
  <2>2. PICK u \in Successors[s.vault] \cap Clean :
            /\ plan' = [plan EXCEPT ![p] = AfterImages(p, s, u)]
            /\ session' = [session EXCEPT ![p] = s]
            /\ pc' = [pc EXCEPT ![p] = "commit"]
            /\ s.vault \in Clean /\ journal = NoJournal /\ rootLock = NoProc /\ rootLock' = p
            /\ UNCHANGED <<vaultFile, ratchetFile, journal, acked, edits, crashes>>
    BY <1>1, <2>1 DEF Commit, files, LockFree
  <2> HIDE DEF s
  <2>3. /\ AfterImages(p, s, u) \in Journals
        /\ AfterImages(p, s, u).origin = WorkspaceOf[p]
        /\ AfterImages(p, s, u).vaultBefore = s.vault
        /\ AfterImages(p, s, u).nextVault = u
        /\ PlanSound(AfterImages(p, s, u))
    BY <1>0, <2>1, AfterImagesSound
  <2>4. TypeOK'
    BY <2>1, <2>2, <2>3 DEF Inductive, TypeOK, PCs
  <2>5. OnlyMoves(p) /\ Guarded(p)
    BY <2>2 DEF Inductive, TypeOK, OnlyMoves, Guarded
  <2>6. pc'[p] = "commit" /\ plan'[p] = AfterImages(p, s, u) /\ session'[p] = s
    BY <2>2 DEF Inductive, TypeOK
  <2>7. HoldsPlan(p)'
    BY <2>2, <2>3, <2>6, NullAssumption DEF HoldsPlan, PlanSound, Covers
  <2>8. HoldsSession(p)' /\ HoldsLock(p)' /\ Completing(p)'
    BY <2>1, <2>2, <2>6, NullAssumption DEF HoldsSession, HoldsLock, Completing
  <2> QED
    BY <2>2, <2>4, <2>5, <2>7, <2>8, QuietStep DEF ProcInv
<1>2. CASE Prepare(p)
  <2>1. session[p] \in Sessions
    BY <1>2 DEF Inductive, TypeOK, HoldsSession, Prepare
  <2>2. PICK u \in Successors[session[p].vault] \cap Clean :
            /\ plan' = [plan EXCEPT ![p] = AfterImages(p, session[p], u)]
            /\ pc' = [pc EXCEPT ![p] = "prepared"]
            /\ session[p].vault \in Clean
            /\ UNCHANGED <<vaultFile, ratchetFile, journal, rootLock, session,
                           acked, edits, crashes>>
    BY <1>2 DEF Prepare, files
  <2>3. /\ AfterImages(p, session[p], u) \in Journals
        /\ AfterImages(p, session[p], u).origin = WorkspaceOf[p]
        /\ AfterImages(p, session[p], u).vaultBefore = session[p].vault
        /\ AfterImages(p, session[p], u).nextVault = u
        /\ PlanSound(AfterImages(p, session[p], u))
    BY <1>0, <2>1, AfterImagesSound
  <2>4. TypeOK'
    BY <2>2, <2>3 DEF Inductive, TypeOK, PCs
  <2>5. OnlyMoves(p) /\ Guarded(p)
    BY <2>2 DEF Inductive, TypeOK, OnlyMoves, Guarded
  <2>6. pc'[p] = "prepared" /\ plan'[p] = AfterImages(p, session[p], u)
    BY <2>2 DEF Inductive, TypeOK
  <2>7. HoldsPlan(p)'
    BY <2>2, <2>3, <2>6, NullAssumption DEF HoldsPlan, PlanSound, Covers
  <2>8. HoldsSession(p)' /\ HoldsLock(p)' /\ Completing(p)'
    BY <2>1, <2>2, <2>6, NullAssumption DEF HoldsSession, HoldsLock, Completing, Locked
  <2> QED
    BY <2>2, <2>4, <2>5, <2>7, <2>8, QuietStep DEF ProcInv
<1> QED
  BY <1>1, <1>2

\* WriteJournal: the journal's after-image covers the ratchet it replaces.
LEMMA WriteJournalKeeps ==
    ASSUME Inductive, NEW p \in Procs, WriteJournal(p)
    PROVE  Inductive' /\ Covers(read_strongest_ratchet', read_strongest_ratchet)
<1>1. /\ journal = NoJournal /\ journal' = plan[p]
      /\ ratchetFile = plan[p].ratchetBefore
      /\ rootLock \in {NoProc, p} /\ rootLock' = p
      /\ pc[p] \in {"commit", "prepared"} /\ pc' = [pc EXCEPT ![p] = "complete"]
      /\ UNCHANGED <<vaultFile, ratchetFile, session, plan, acked, edits, crashes>>
  BY DEF WriteJournal, Unchanged, LockFree, Goto, Inductive, HoldsLock, Locked
<1>2. /\ plan[p] \in Journals /\ plan[p].origin = WorkspaceOf[p]
      /\ PlanSound(plan[p]) /\ plan[p] # NoJournal
      /\ plan[p].nextRatchet \in Ratchets
  BY <1>1 DEF Inductive, TypeOK, HoldsPlan, Journals
<1>3. TypeOK'
  BY <1>1, <1>2 DEF Inductive, TypeOK, PCs
<1>4. OnlyMoves(p) /\ Guarded(p)
  BY <1>1 DEF Inductive, TypeOK, OnlyMoves, Guarded
<1>5. ProcInv(p)'
  BY <1>1, <1>2
  DEF Inductive, TypeOK, ProcInv, HoldsPlan, HoldsSession, HoldsLock, Completing
<1>6. \A q \in Procs : ProcInv(q)'
  BY <1>4, <1>5, OthersKeep
<1>7. JournalSound'
  BY <1>1, <1>2 DEF JournalSound, PlanSound, Covers
<1>8. RatchetRecoverable'
  BY <1>1, <1>2 DEF RatchetRecoverable, PlanSound, Covers
<1>9. /\ read_strongest_ratchet = ratchetFile
      /\ read_strongest_ratchet' = plan[p].nextRatchet
  <2>1. read_strongest_ratchet = ratchetFile
    BY <1>1 DEF read_strongest_ratchet
  <2>2. merge_ratchet(ratchetFile, plan[p].nextRatchet) = plan[p].nextRatchet
    BY <1>1, <1>2, MergeCovered DEF Inductive, TypeOK, PlanSound
  <2>3. read_strongest_ratchet' = merge_ratchet(ratchetFile, plan[p].nextRatchet)
    BY <1>1, <1>2 DEF read_strongest_ratchet, merge_ratchet
  <2> QED
    BY <2>1, <2>2, <2>3
<1>10. Covers(read_strongest_ratchet', read_strongest_ratchet)
  BY <1>1, <1>2, <1>9 DEF PlanSound, Covers
<1>11. AckedRemembered'
  <2>1. Covers(ratchetFile, acked) /\ acked \in Ratchets /\ ratchetFile \in Ratchets
    BY <1>9 DEF Inductive, TypeOK, AckedRemembered
  <2>2. Covers(plan[p].nextRatchet, acked)
    BY <1>1, <1>2, <2>1, CoversTransitive DEF PlanSound
  <2> QED
    BY <1>1, <1>9, <2>2 DEF AckedRemembered, Covers
<1> QED
  BY <1>3, <1>6, <1>7, <1>8, <1>10, <1>11 DEF Inductive, ProcInv

\* CommitRefused and every error return of complete_transaction_locked write
\* nothing and give the lock back.
LEMMA RefusalKeeps ==
    ASSUME Inductive, NEW p \in Procs,
           CommitRefused(p) \/ CompleteConflict(p) \/ VerifyConflict(p)
    PROVE  Inductive'
<1> USE DEF Goto, SetPlan
<1>1. /\ rootLock \in {NoProc, p} /\ rootLock' = NoProc
      /\ plan' = [plan EXCEPT ![p] = NoJournal]
      /\ UNCHANGED <<vaultFile, ratchetFile, journal, session, acked, edits, crashes>>
  BY DEF CommitRefused, CompleteConflict, VerifyConflict, Fail, Release, files, LockFree,
         Inductive, HoldsLock, Locked
<1>2. PICK l \in {"idle", "ready"} :
          pc' = [pc EXCEPT ![p] = l] /\ (l = "ready" => session[p] # NoSession)
  BY DEF CommitRefused, CompleteConflict, VerifyConflict, Fail, Inductive, HoldsSession
<1>3. TypeOK'
  BY <1>1, <1>2 DEF Inductive, TypeOK, PCs
<1>4. OnlyMoves(p) /\ Guarded(p)
  BY <1>1, <1>2 DEF Inductive, TypeOK, OnlyMoves, Guarded
<1>5. ProcInv(p)'
  BY <1>1, <1>2 DEF Inductive, TypeOK, ProcInv, HoldsPlan, HoldsSession, HoldsLock,
                    Completing, Locked
<1> QED
  BY <1>1, <1>3, <1>4, <1>5, QuietStep

(* ------------------------------ completing ----------------------------- *)

\* Writing the ratchet moves it from one image of the journal to the other.
LEMMA CompleteRatchetKeeps ==
    ASSUME Inductive, NEW p \in Procs, CompleteRatchet(p)
    PROVE  Inductive' /\ read_strongest_ratchet' = read_strongest_ratchet
<1>1. /\ pc[p] = "complete" /\ rootLock = p
      /\ journal # NoJournal /\ plan[p] = journal /\ journal.origin = WorkspaceOf[p]
  BY DEF CompleteRatchet, Inductive, HoldsLock, Completing, Locked
<1>2. /\ ratchetFile' = journal.nextRatchet
      /\ UNCHANGED <<vaultFile, journal, rootLock, session, plan, acked, edits, crashes>>
  BY <1>1 DEF CompleteRatchet
<1>3. PICK l \in {"verify", "write_vault"} : pc' = [pc EXCEPT ![p] = l]
  BY DEF CompleteRatchet, Goto
<1>4. journal \in Journals /\ journal.nextRatchet \in Ratchets
  BY <1>1 DEF Inductive, TypeOK, Journals
<1>5. TypeOK'
  BY <1>2, <1>3, <1>4 DEF Inductive, TypeOK, PCs
<1>6. OnlyMoves(p) /\ Guarded(p)
  BY <1>1, <1>2, <1>3 DEF Inductive, TypeOK, OnlyMoves, Guarded
<1>7. ProcInv(p)'
  BY <1>1, <1>2, <1>3
  DEF Inductive, TypeOK, ProcInv, HoldsPlan, HoldsSession, HoldsLock, Completing, Locked
<1>8. \A q \in Procs : ProcInv(q)'
  BY <1>6, <1>7, OthersKeep
<1>9. JournalSound'
  BY <1>2 DEF Inductive, JournalSound, PlanSound, Covers
<1>10. RatchetRecoverable'
  BY <1>2 DEF Inductive, RatchetRecoverable, Covers
<1>11. read_strongest_ratchet' = journal.nextRatchet
  <2>1. merge_ratchet(journal.nextRatchet, journal.nextRatchet) = journal.nextRatchet
    BY <1>4, MergeCovered, CoversReflexive
  <2> QED
    BY <1>1, <1>2, <2>1 DEF read_strongest_ratchet, merge_ratchet
<1>12. read_strongest_ratchet = journal.nextRatchet
  BY <1>1, Strongest DEF Inductive
<1>13. AckedRemembered'
  BY <1>2, <1>11, <1>12 DEF Inductive, AckedRemembered, Covers
<1> QED
  BY <1>5, <1>8, <1>9, <1>10, <1>11, <1>12, <1>13 DEF Inductive, ProcInv

\* Writing the vault touches nothing the invariant speaks of.
LEMMA CompleteVaultKeeps ==
    ASSUME Inductive, NEW p \in Procs, CompleteVault(p)
    PROVE  /\ Inductive'
           /\ vaultFile' = [vaultFile EXCEPT ![WorkspaceOf[p]] = journal.nextVault]
           /\ Covers(ratchetFile, Watermarks[journal.nextVault])
<1>1. /\ pc[p] = "write_vault" /\ rootLock = p
      /\ journal # NoJournal /\ plan[p] = journal /\ journal.origin = WorkspaceOf[p]
      /\ ratchetFile = journal.nextRatchet
  BY DEF CompleteVault, Inductive, HoldsLock, Completing, Locked
<1>2. /\ vaultFile' = [vaultFile EXCEPT ![WorkspaceOf[p]] = journal.nextVault]
      /\ pc' = [pc EXCEPT ![p] = "verify"]
      /\ UNCHANGED <<ratchetFile, journal, rootLock, session, plan, acked, edits, crashes>>
  BY <1>1 DEF CompleteVault, Goto
<1>3. journal.nextVault \in Images
  BY <1>1 DEF Inductive, TypeOK, Journals
<1>4. TypeOK'
  BY <1>2, <1>3 DEF Inductive, TypeOK, PCs
<1>5. OnlyMoves(p) /\ Guarded(p)
  BY <1>1, <1>2 DEF Inductive, TypeOK, OnlyMoves, Guarded
<1>6. ProcInv(p)'
  BY <1>1, <1>2
  DEF Inductive, TypeOK, ProcInv, HoldsPlan, HoldsSession, HoldsLock, Completing, Locked
<1>7. Covers(ratchetFile, Watermarks[journal.nextVault])
  BY <1>1 DEF Inductive, JournalSound, PlanSound
<1> QED
  BY <1>2, <1>4, <1>5, <1>6, <1>7, QuietStep

\* Removing the journal: by then the ratchet file is its after-image.
LEMMA CompleteRemoveKeeps ==
    ASSUME Inductive, NEW p \in Procs, CompleteRemove(p)
    PROVE  Inductive' /\ read_strongest_ratchet' = read_strongest_ratchet
<1> USE DEF Goto, SetPlan, SetSession
<1>1. /\ pc[p] = "verify" /\ rootLock = p
      /\ journal # NoJournal /\ plan[p] = journal
      /\ ratchetFile = journal.nextRatchet
  BY DEF CompleteRemove, Inductive, HoldsLock, Completing, Locked
<1>2. /\ journal' = NoJournal /\ rootLock' = NoProc
      /\ acked' = merge_ratchet(acked, Watermarks[journal.nextVault])
      /\ plan' = [plan EXCEPT ![p] = NoJournal]
      /\ UNCHANGED <<vaultFile, ratchetFile, edits, crashes>>
  BY <1>1 DEF CompleteRemove, Release
<1>3. /\ journal.nextVault \in Images /\ journal.nextRatchet \in Ratchets
      /\ Watermarks[journal.nextVault] \in Ratchets /\ acked \in Ratchets
  BY <1>1, TransactionAssumption DEF Inductive, TypeOK, Journals
<1>4. Validated(journal.nextVault, journal.nextRatchet, FALSE) \in Sessions
  BY <1>3 DEF Validated, Sessions
<1>5. /\ session' \in [Procs -> Sessions \cup {NoSession}]
      /\ pc' \in [Procs -> PCs]
      /\ pc'[p] \in {"read", "ready"}
      /\ pc'[p] = "ready" => session'[p] # NoSession
      /\ \A q \in Procs : q # p => pc'[q] = pc[q] /\ session'[q] = session[q]
  <2>1. CASE session[p] = NoSession
    BY <2>1 DEF CompleteRemove, Inductive, TypeOK, PCs
  <2>2. CASE session[p] # NoSession
    BY <2>2, <1>1, <1>4, NullAssumption DEF CompleteRemove, Inductive, TypeOK, PCs
  <2> QED
    BY <2>1, <2>2
<1>6. TypeOK'
  BY <1>2, <1>3, <1>5, MergeCovers DEF Inductive, TypeOK
<1>7. OnlyMoves(p) /\ Guarded(p)
  BY <1>1, <1>2, <1>5 DEF Inductive, TypeOK, OnlyMoves, Guarded
<1>8. ProcInv(p)'
  BY <1>2, <1>5 DEF ProcInv, HoldsPlan, HoldsSession, HoldsLock, Completing, Locked
<1>9. \A q \in Procs : ProcInv(q)'
  BY <1>7, <1>8, OthersKeep
<1>10. JournalSound' /\ RatchetRecoverable'
  BY <1>2 DEF JournalSound, RatchetRecoverable
<1>11. /\ read_strongest_ratchet' = journal.nextRatchet
       /\ read_strongest_ratchet = journal.nextRatchet
  BY <1>1, <1>2, Strongest DEF Inductive, read_strongest_ratchet
<1>12. AckedRemembered'
  <2>1. Covers(journal.nextRatchet, acked)
    BY <1>11 DEF Inductive, AckedRemembered
  <2>2. Covers(journal.nextRatchet, Watermarks[journal.nextVault])
    BY <1>1 DEF Inductive, JournalSound, PlanSound
  <2>3. Covers(journal.nextRatchet, merge_ratchet(acked, Watermarks[journal.nextVault]))
    BY <2>1, <2>2, <1>3 DEF Covers, merge_ratchet, Larger, Ratchets
  <2> QED
    BY <1>2, <1>11, <2>3 DEF AckedRemembered, Covers
<1> QED
  BY <1>6, <1>9, <1>10, <1>11, <1>12 DEF Inductive, ProcInv

(* ------------------------------ abandoning ----------------------------- *)

\* Abandoning first makes the ratchet file the journal's after-image ...
LEMMA AbandonRatchetKeeps ==
    ASSUME Inductive, NEW p \in Procs, AbandonRatchet(p)
    PROVE  Inductive' /\ read_strongest_ratchet' = read_strongest_ratchet
<1>1. /\ journal # NoJournal /\ rootLock = NoProc /\ rootLock' = p
      /\ pc' = [pc EXCEPT ![p] = "abandon"]
      /\ UNCHANGED <<vaultFile, journal, session, plan, acked, edits, crashes>>
  BY DEF AbandonRatchet, LockFree, Goto
<1>2. read_strongest_ratchet = journal.nextRatchet
  BY <1>1, Strongest DEF Inductive
<1>3. ratchetFile' = journal.nextRatchet
  BY <1>1, <1>2 DEF AbandonRatchet, read_strongest_ratchet
<1>4. journal.nextRatchet \in Ratchets
  BY <1>1 DEF Inductive, TypeOK, Journals
<1>5. TypeOK'
  BY <1>1, <1>3, <1>4 DEF Inductive, TypeOK, PCs
<1>6. OnlyMoves(p) /\ Guarded(p)
  BY <1>1 DEF Inductive, TypeOK, OnlyMoves, Guarded
<1>7. ProcInv(p)'
  BY <1>1, <1>3
  DEF Inductive, TypeOK, ProcInv, HoldsPlan, HoldsSession, HoldsLock, Completing, Locked
<1>8. \A q \in Procs : ProcInv(q)'
  BY <1>6, <1>7, OthersKeep
<1>9. JournalSound'
  BY <1>1 DEF Inductive, JournalSound, PlanSound, Covers
<1>10. RatchetRecoverable'
  BY <1>1, <1>3 DEF Inductive, RatchetRecoverable, Covers
<1>11. read_strongest_ratchet' = journal.nextRatchet
  <2>1. merge_ratchet(journal.nextRatchet, journal.nextRatchet) = journal.nextRatchet
    BY <1>4, MergeCovered, CoversReflexive
  <2> QED
    BY <1>1, <1>3, <2>1 DEF read_strongest_ratchet, merge_ratchet
<1>12. AckedRemembered'
  BY <1>1, <1>2, <1>11 DEF Inductive, AckedRemembered, Covers
<1> QED
  BY <1>2, <1>5, <1>8, <1>9, <1>10, <1>11, <1>12 DEF Inductive, ProcInv

\* ... so that nothing is lost when the journal goes.
LEMMA AbandonRemoveKeeps ==
    ASSUME Inductive, NEW p \in Procs, AbandonRemove(p)
    PROVE  Inductive' /\ read_strongest_ratchet' = read_strongest_ratchet
<1>1. /\ journal # NoJournal /\ rootLock = p
      /\ ratchetFile = journal.nextRatchet
  BY DEF AbandonRemove, Inductive, HoldsLock, Completing, Locked
<1>2. /\ journal' = NoJournal /\ rootLock' = NoProc
      /\ pc' = [pc EXCEPT ![p] = "idle"]
      /\ UNCHANGED <<vaultFile, ratchetFile, session, plan, acked, edits, crashes>>
  BY <1>1 DEF AbandonRemove, Release, Goto
<1>3. TypeOK'
  BY <1>2 DEF Inductive, TypeOK, PCs
<1>4. OnlyMoves(p) /\ Guarded(p)
  BY <1>1, <1>2 DEF Inductive, TypeOK, OnlyMoves, Guarded
<1>5. ProcInv(p)'
  BY <1>2
  DEF Inductive, TypeOK, ProcInv, HoldsPlan, HoldsSession, HoldsLock, Completing, Locked
<1>6. \A q \in Procs : ProcInv(q)'
  BY <1>4, <1>5, OthersKeep
<1>7. JournalSound' /\ RatchetRecoverable'
  BY <1>2 DEF JournalSound, RatchetRecoverable
<1>8. /\ read_strongest_ratchet' = journal.nextRatchet
      /\ read_strongest_ratchet = journal.nextRatchet
  BY <1>1, <1>2, Strongest DEF Inductive, read_strongest_ratchet
<1>9. AckedRemembered'
  BY <1>2, <1>8 DEF Inductive, AckedRemembered, Covers
<1> QED
  BY <1>3, <1>6, <1>7, <1>8, <1>9 DEF Inductive, ProcInv

(* ------------------ weakenings, claims, the environment ---------------- *)

\* accept_rollback and reset_ratchet rewrite the ratchet only when there is no
\* journal, and acked forgets exactly what the user gave up.
LEMMA WeakeningKeeps ==
    ASSUME Inductive, NEW p \in Procs,
           ResetRatchet(p) \/ \E k \in Keys : AcceptRollback(p, k)
    PROVE  Inductive'
<1> USE DEF SetSession
<1>1. /\ rootLock = NoProc /\ journal = NoJournal /\ journal' = NoJournal
      /\ UNCHANGED <<vaultFile, rootLock, pc, plan, edits, crashes>>
  BY DEF ResetRatchet, AcceptRollback, LockFree
<1>2. read_strongest_ratchet = ratchetFile /\ read_strongest_ratchet' = ratchetFile'
  BY <1>1 DEF read_strongest_ratchet
<1>3. ratchetFile \in Ratchets /\ acked \in Ratchets /\ Covers(ratchetFile, acked)
  BY <1>2 DEF Inductive, TypeOK, AckedRemembered
<1>4. Here(p) \in Images
  BY TransactionAssumption DEF Inductive, TypeOK, Here
<1>5. /\ ratchetFile' \in Ratchets /\ acked' \in Ratchets /\ Covers(ratchetFile', acked')
      /\ session' \in [Procs -> Sessions \cup {NoSession}]
      /\ \A q \in Procs : session[q] # NoSession => session'[q] # NoSession
      /\ \A q \in Procs : q # p => session'[q] = session[q]
  <2>1. CASE ResetRatchet(p)
    <3>1. ratchetFile' = Watermarks[Here(p)] /\ Watermarks[Here(p)] \in Ratchets
      BY <1>4, <2>1, TransactionAssumption DEF ResetRatchet
    <3>2. acked' = [k \in Keys |-> Smaller(acked[k], ratchetFile'[k])] /\ session' = session
      BY <2>1 DEF ResetRatchet
    <3>3. acked' \in Ratchets /\ Covers(ratchetFile', acked')
      BY <1>3, <3>1, <3>2 DEF Ratchets, Covers, Smaller
    <3> QED
      BY <3>1, <3>2, <3>3 DEF Inductive, TypeOK
  <2>2. CASE \E k \in Keys : AcceptRollback(p, k)
    <3>1. PICK k \in Keys : AcceptRollback(p, k)
      BY <2>2
    <3>2. session[p] \in Sessions
      BY <3>1 DEF AcceptRollback, Inductive, TypeOK, HoldsSession
    <3> DEFINE n == Watermarks[session[p].vault][k]
    <3>3. n \in Nat
      BY <3>2, TransactionAssumption DEF Sessions, Ratchets
    <3>4. /\ ratchetFile' = [ratchetFile EXCEPT ![k] = n]
          /\ acked' = [acked EXCEPT ![k] = Smaller(acked[k], n)]
          /\ session' = [session EXCEPT ![p] = Validated(Here(p), ratchetFile', FALSE)]
      BY <3>1 DEF AcceptRollback
    <3> HIDE DEF n
    <3>5. ratchetFile' \in Ratchets /\ acked' \in Ratchets /\ Covers(ratchetFile', acked')
      BY <1>3, <3>3, <3>4 DEF Ratchets, Covers, Smaller
    <3>6. Validated(Here(p), ratchetFile', FALSE) \in Sessions
      BY <1>4, <3>5 DEF Validated, Sessions
    <3> QED
      BY <3>4, <3>5, <3>6, NullAssumption DEF Inductive, TypeOK
  <2> QED
    BY <2>1, <2>2
<1>6. TypeOK'
  BY <1>1, <1>5 DEF Inductive, TypeOK
<1>7. OnlyMoves(p) /\ Guarded(p)
  BY <1>1, <1>5 DEF OnlyMoves, Guarded
<1>8. pc[p] \notin Locked
  BY <1>1, NullAssumption DEF Inductive, HoldsLock
<1>9. ProcInv(p)'
  BY <1>1, <1>5, <1>8
  DEF Inductive, ProcInv, HoldsPlan, HoldsSession, HoldsLock, Completing, Locked,
      PlanSound, Covers
<1>10. \A q \in Procs : ProcInv(q)'
  BY <1>7, <1>9, OthersKeep
<1>11. JournalSound' /\ RatchetRecoverable'
  BY <1>1 DEF JournalSound, RatchetRecoverable
<1>12. AckedRemembered'
  BY <1>2, <1>5 DEF AckedRemembered, Covers
<1> QED
  BY <1>6, <1>10, <1>11, <1>12 DEF Inductive, ProcInv

\* A claim reads without a lock and later raises the ratchet at most.
LEMMA ClaimKeeps ==
    ASSUME Inductive, NEW p \in Procs, ClaimRead(p) \/ ClaimWrite(p)
    PROVE  Inductive' /\ Covers(read_strongest_ratchet', read_strongest_ratchet)
<1> USE DEF Goto, SetSession
<1>0. read_strongest_ratchet \in Ratchets /\ ratchetFile \in Ratchets
  BY Strongest DEF Inductive, TypeOK
<1>1. CASE ClaimRead(p)
  <2>1. Validated(Here(p), ratchetFile, FALSE) \in Sessions
    BY <1>0, TransactionAssumption DEF Inductive, TypeOK, Here, Validated, Sessions
  <2>2. TypeOK'
    BY <1>1, <2>1 DEF Inductive, TypeOK, ClaimRead, files, PCs
  <2>3. OnlyMoves(p) /\ Guarded(p)
    BY <1>1 DEF Inductive, TypeOK, ClaimRead, files, OnlyMoves, Guarded
  <2>4. ProcInv(p)'
    BY <1>1, <2>1, NullAssumption
    DEF Inductive, TypeOK, ClaimRead, files, ProcInv, HoldsPlan, HoldsSession, HoldsLock,
        Completing, Locked
  <2> QED
    BY <1>0, <1>1, <2>2, <2>3, <2>4, QuietStep, FilesKeep, CoversReflexive
    DEF ClaimRead, files
<1>2. CASE ClaimWrite(p)
  <2>1. session[p] \in Sessions /\ session[p].vault \in Images
    BY <1>2 DEF ClaimWrite, Inductive, TypeOK, HoldsSession, Sessions
  <2>2. /\ rootLock = NoProc
        /\ session' = [session EXCEPT ![p] = NoSession]
        /\ pc' = [pc EXCEPT ![p] = "idle"]
        /\ UNCHANGED <<vaultFile, journal, rootLock, plan, acked, edits, crashes>>
    BY <1>2 DEF ClaimWrite, LockFree
  <2>3. CASE ~Claimable(p)
    <3>1. ratchetFile' = ratchetFile
      BY <1>2, <2>3 DEF ClaimWrite
    <3>2. TypeOK'
      BY <2>2, <3>1 DEF Inductive, TypeOK, PCs
    <3>3. OnlyMoves(p) /\ Guarded(p)
      BY <2>2 DEF Inductive, TypeOK, OnlyMoves, Guarded
    <3>4. ProcInv(p)'
      BY <2>2 DEF Inductive, TypeOK, ProcInv, HoldsPlan, HoldsSession, HoldsLock,
                  Completing, Locked
    <3> QED
      BY <1>0, <2>2, <3>1, <3>2, <3>3, <3>4, QuietStep, FilesKeep, CoversReflexive
  <2>4. CASE Claimable(p)
    <3> DEFINE r == apply_update(ratchetFile, session[p].vault)
    <3>1. ratchetFile' = r /\ journal = NoJournal /\ journal' = NoJournal
      BY <1>2, <2>2, <2>4 DEF ClaimWrite, Claimable
    <3>2. r \in Ratchets /\ Covers(r, ratchetFile)
      BY <1>0, <2>1, ApplyUpdateCovers
    <3> HIDE DEF r
    <3>3. TypeOK'
      BY <2>2, <3>1, <3>2 DEF Inductive, TypeOK, PCs
    <3>4. OnlyMoves(p) /\ Guarded(p)
      BY <2>2 DEF Inductive, TypeOK, OnlyMoves, Guarded
    <3>5. ProcInv(p)'
      BY <2>2 DEF Inductive, TypeOK, ProcInv, HoldsPlan, HoldsSession, HoldsLock,
                  Completing, Locked
    <3>6. \A q \in Procs : ProcInv(q)'
      BY <3>4, <3>5, OthersKeep
    <3>7. JournalSound' /\ RatchetRecoverable'
      BY <3>1 DEF JournalSound, RatchetRecoverable
    <3>8. read_strongest_ratchet = ratchetFile /\ read_strongest_ratchet' = r
      BY <3>1 DEF read_strongest_ratchet
    <3>9. AckedRemembered'
      <4>1. Covers(ratchetFile, acked) /\ acked \in Ratchets
        BY <3>8 DEF Inductive, TypeOK, AckedRemembered
      <4>2. Covers(r, acked)
        BY <1>0, <3>2, <4>1, CoversTransitive
      <4> QED
        BY <2>2, <3>8, <4>2 DEF AckedRemembered, Covers
    <3> QED
      BY <3>2, <3>3, <3>6, <3>7, <3>8, <3>9 DEF Inductive, ProcInv, Covers
  <2> QED
    BY <2>3, <2>4
<1> QED
  BY <1>1, <1>2

\* A process that ends, or dies, writes nothing.
LEMMA DeathKeeps ==
    ASSUME Inductive, NEW p \in Procs, Crash(p) \/ Close(p)
    PROVE  Inductive'
<1> USE DEF Goto, SetPlan, SetSession
<1>1. /\ UNCHANGED <<vaultFile, ratchetFile, journal, acked, edits>>
      /\ rootLock' = (IF rootLock = p THEN NoProc ELSE rootLock)
      /\ pc' = [pc EXCEPT ![p] = "idle"]
      /\ session' = [session EXCEPT ![p] = NoSession]
      /\ plan' = [plan EXCEPT ![p] = NoJournal]
      /\ crashes' \in Nat
  BY DEF Crash, Close, Die, Release, files, Inductive, TypeOK
<1>2. TypeOK'
  BY <1>1 DEF Inductive, TypeOK, PCs
<1>3. OnlyMoves(p) /\ Guarded(p)
  BY <1>1 DEF Inductive, TypeOK, OnlyMoves, Guarded
<1>4. ProcInv(p)'
  BY <1>1 DEF Inductive, TypeOK, ProcInv, HoldsPlan, HoldsSession, HoldsLock, Completing,
              Locked
<1> QED
  BY <1>1, <1>2, <1>3, <1>4, QuietStep

\* Git replaces a vault file and nothing else.
LEMMA GitEditKeeps ==
    ASSUME Inductive, NEW w \in Workspaces, NEW v \in Images, GitEdit(w, v)
    PROVE  Inductive'
<1>1. /\ UNCHANGED <<ratchetFile, journal, rootLock, pc, session, plan, acked, crashes>>
      /\ vaultFile' = [vaultFile EXCEPT ![w] = v]
      /\ edits' = edits + 1
  BY DEF GitEdit
<1>2. TypeOK'
  BY <1>1 DEF Inductive, TypeOK
<1>3. \A p \in Procs : ProcInv(p)'
  BY <1>1 DEF Inductive, ProcInv, HoldsPlan, HoldsSession, HoldsLock, Completing,
              PlanSound, Covers
<1> QED
  BY <1>1, <1>2, <1>3, FilesKeep DEF Inductive, ProcInv

\* A stuttering step.
LEMMA StutterKeeps ==
    ASSUME Inductive, UNCHANGED vars
    PROVE  Inductive'
<1>1. TypeOK'
  BY DEF Inductive, TypeOK, vars
<1>2. \A p \in Procs : ProcInv(p)'
  BY DEF Inductive, ProcInv, HoldsPlan, HoldsSession, HoldsLock, Completing, PlanSound,
         Covers, vars
<1> QED
  BY <1>1, <1>2, FilesKeep DEF Inductive, ProcInv, vars

(* ------------------------------ theorems ------------------------------- *)

\* After init_vault there is no journal and nobody holds anything.
LEMMA InitInductive == Init => Inductive
<1> SUFFICES ASSUME Init PROVE Inductive
  OBVIOUS
<1>1. Genesis \in Images /\ Watermarks[Genesis] \in Ratchets
  BY TransactionAssumption
<1>2. TypeOK
  BY <1>1 DEF Init, TypeOK, PCs
<1>3. \A p \in Procs : HoldsPlan(p) /\ HoldsSession(p) /\ HoldsLock(p) /\ Completing(p)
  BY DEF Init, HoldsPlan, HoldsSession, HoldsLock, Completing, Locked
<1>4. JournalSound /\ RatchetRecoverable
  BY DEF Init, JournalSound, RatchetRecoverable
<1>5. AckedRemembered
  BY <1>1, CoversReflexive DEF Init, AckedRemembered, read_strongest_ratchet
<1> QED
  BY <1>2, <1>3, <1>4, <1>5 DEF Inductive

\* Every step keeps the invariant.
LEMMA StepInductive == Inductive /\ [Next]_vars => Inductive'
<1> SUFFICES ASSUME Inductive, [Next]_vars PROVE Inductive'
  OBVIOUS
<1>1. CASE UNCHANGED vars
  BY <1>1, StutterKeeps
<1>2. ASSUME NEW p \in Procs, Load(p) \/ Absorb(p) \/ reload_if_stale(p) PROVE Inductive'
  BY <1>2, LoadKeeps, AbsorbKeeps, ReloadKeeps
<1>3. ASSUME NEW p \in Procs,
             Commit(p) \/ Prepare(p) \/ WriteJournal(p) \/ CommitRefused(p)
      PROVE  Inductive'
  BY <1>3, PlanKeeps, WriteJournalKeeps, RefusalKeeps
<1>4. ASSUME NEW p \in Procs, Complete(p) PROVE Inductive'
  BY <1>4, CompleteRatchetKeeps, CompleteVaultKeeps, CompleteRemoveKeeps, RefusalKeeps
  DEF Complete
<1>5. ASSUME NEW p \in Procs, AbandonRatchet(p) \/ AbandonRemove(p) PROVE Inductive'
  BY <1>5, AbandonRatchetKeeps, AbandonRemoveKeeps
<1>6. ASSUME NEW p \in Procs,
             (\E k \in Keys : AcceptRollback(p, k)) \/ ResetRatchet(p)
                 \/ ClaimRead(p) \/ ClaimWrite(p) \/ Crash(p) \/ Close(p)
      PROVE  Inductive'
  BY <1>6, WeakeningKeeps, ClaimKeeps, DeathKeeps
<1>7. ASSUME NEW w \in Workspaces, NEW v \in Images, GitEdit(w, v) PROVE Inductive'
  BY <1>7, GitEditKeeps
<1> QED
  BY <1>1, <1>2, <1>3, <1>4, <1>5, <1>6, <1>7 DEF Next

\* The invariant everything else follows from.
THEOREM InductiveInvariant == Spec => []Inductive
BY InitInductive, StepInductive, PTL DEF Spec

\* Every file, session and plan stays well formed.
THEOREM TypeCorrect == Spec => []TypeOK
<1>1. Inductive => TypeOK
  BY DEF Inductive
<1> QED
  BY <1>1, InductiveInvariant, PTL

\* However processes interleave and crash, a journal always finds the ratchet
\* file in one of its two images.
THEOREM RecoveryNeverBlockedByRatchet == Spec => []RatchetRecoverable
<1>1. Inductive => RatchetRecoverable
  BY DEF Inductive
<1> QED
  BY <1>1, InductiveInvariant, PTL

\* What a finished transaction reported stays remembered until the user gives
\* it up.
THEOREM FinishedTransactionsRemembered == Spec => []AckedRemembered
<1>1. Inductive => AckedRemembered
  BY DEF Inductive
<1> QED
  BY <1>1, InductiveInvariant, PTL

\* A process forgets nothing unless it resets the ratchet or accepts a rollback.
LEMMA ProcessRemembers ==
    ASSUME Inductive, NEW p \in Procs,
           \/ Load(p) \/ Absorb(p) \/ reload_if_stale(p)
           \/ Commit(p) \/ Prepare(p) \/ WriteJournal(p) \/ CommitRefused(p)
           \/ Complete(p)
           \/ AbandonRatchet(p) \/ AbandonRemove(p)
           \/ ClaimRead(p) \/ ClaimWrite(p)
           \/ Crash(p) \/ Close(p)
    PROVE  Covers(read_strongest_ratchet', read_strongest_ratchet)
<1>1. Covers(read_strongest_ratchet, read_strongest_ratchet)
  BY Strongest, CoversReflexive DEF Inductive
<1>2. ASSUME UNCHANGED <<ratchetFile, journal>>
      PROVE  Covers(read_strongest_ratchet', read_strongest_ratchet)
  BY <1>1, <1>2 DEF read_strongest_ratchet, merge_ratchet, Covers
<1>3. CASE Load(p) \/ reload_if_stale(p)
  BY <1>2, <1>3 DEF Load, LoadStart, RecoverLock, LoadRead, reload_if_stale, files
<1>4. CASE Absorb(p)
  BY <1>4, AbsorbKeeps
<1>5. CASE Commit(p) \/ Prepare(p) \/ CommitRefused(p)
  BY <1>2, <1>5 DEF Commit, Prepare, CommitRefused, files
<1>6. CASE WriteJournal(p)
  BY <1>6, WriteJournalKeeps
<1>7. CASE Complete(p)
  <2>1. CASE CompleteRatchet(p)
    BY <1>1, <2>1, CompleteRatchetKeeps DEF Covers
  <2>2. CASE CompleteRemove(p)
    BY <1>1, <2>2, CompleteRemoveKeeps DEF Covers
  <2>3. CASE CompleteConflict(p) \/ CompleteVault(p) \/ VerifyConflict(p)
    BY <1>2, <2>3 DEF CompleteConflict, CompleteVault, VerifyConflict, Fail, files
  <2> QED
    BY <1>7, <2>1, <2>2, <2>3 DEF Complete
<1>8. CASE AbandonRatchet(p)
  BY <1>1, <1>8, AbandonRatchetKeeps DEF Covers
<1>9. CASE AbandonRemove(p)
  BY <1>1, <1>9, AbandonRemoveKeeps DEF Covers
<1>10. CASE ClaimRead(p) \/ ClaimWrite(p)
  BY <1>10, ClaimKeeps
<1>11. CASE Crash(p) \/ Close(p)
  BY <1>2, <1>11 DEF Crash, Close, Die, files
<1> QED
  BY <1>3, <1>4, <1>5, <1>6, <1>7, <1>8, <1>9, <1>10, <1>11

\* Rollback memory is monotone: nothing but accept_rollback and reset_ratchet
\* lowers the strongest ratchet, whatever crashes and whoever recovers.
THEOREM TrustNeverDrops == Spec => TrustMonotone
<1> DEFINE Kept == \/ Covers(read_strongest_ratchet', read_strongest_ratchet)
                   \/ \E p \in Procs : ResetRatchet(p) \/ \E k \in Keys : AcceptRollback(p, k)
<1>1. Inductive /\ [Next]_vars => [Kept]_vars
  <2> SUFFICES ASSUME Inductive, Next PROVE Kept
    OBVIOUS
  <2>1. CASE \E w \in Workspaces, v \in Images : GitEdit(w, v)
    <3>1. UNCHANGED <<ratchetFile, journal>>
      BY <2>1 DEF GitEdit
    <3>2. Covers(read_strongest_ratchet, read_strongest_ratchet)
      BY Strongest, CoversReflexive DEF Inductive
    <3> QED
      BY <3>1, <3>2 DEF read_strongest_ratchet, merge_ratchet, Covers
  <2>2. ASSUME NEW p \in Procs, ResetRatchet(p) \/ \E k \in Keys : AcceptRollback(p, k)
        PROVE  Kept
    BY <2>2
  <2> QED
    BY <2>1, <2>2, ProcessRemembers DEF Next
<1> QED
  BY <1>1, InductiveInvariant, PTL DEF Spec, TrustMonotone

\* Ratchet before vault: thorax never writes a vault this machine would not
\* miss.
THEOREM VaultWrittenAfterRatchet == Spec => VaultCovered
<1> DEFINE Cov == \A w \in Workspaces :
                     vaultFile'[w] # vaultFile[w] /\ edits' = edits
                         => Covers(ratchetFile, Watermarks[vaultFile'[w]])
<1>1. Inductive /\ [Next]_vars => [Cov]_vars
  <2> SUFFICES ASSUME Inductive, Next PROVE Cov
    OBVIOUS
  <2>1. CASE vaultFile' = vaultFile
    BY <2>1
  <2>2. ASSUME NEW p \in Procs, CompleteVault(p) PROVE Cov
    BY <2>2, CompleteVaultKeeps DEF Inductive, TypeOK
  <2>3. ASSUME NEW w \in Workspaces, NEW v \in Images, GitEdit(w, v) PROVE Cov
    BY <2>3 DEF GitEdit, Inductive, TypeOK
  <2>4. ASSUME NEW p \in Procs, Load(p) \/ Absorb(p) \/ reload_if_stale(p)
        PROVE  vaultFile' = vaultFile
    BY <2>4 DEF Load, Absorb, LoadStart, RecoverLock, LoadRead, AbsorbInMemory,
                AbsorbToDisk, AbsorbRefused, reload_if_stale, files
  <2>5. ASSUME NEW p \in Procs,
               Commit(p) \/ Prepare(p) \/ WriteJournal(p) \/ CommitRefused(p)
        PROVE  vaultFile' = vaultFile
    BY <2>5 DEF Commit, Prepare, WriteJournal, CommitRefused, files
  <2>6. ASSUME NEW p \in Procs, Complete(p), ~CompleteVault(p)
        PROVE  vaultFile' = vaultFile
    BY <2>6 DEF Complete, CompleteRatchet, CompleteConflict, CompleteRemove,
                VerifyConflict, Fail, files
  <2>7. ASSUME NEW p \in Procs,
               \/ AbandonRatchet(p) \/ AbandonRemove(p)
               \/ (\E k \in Keys : AcceptRollback(p, k)) \/ ResetRatchet(p)
        PROVE  vaultFile' = vaultFile
    BY <2>7 DEF AbandonRatchet, AbandonRemove, AcceptRollback, ResetRatchet
  <2>8. ASSUME NEW p \in Procs, ClaimRead(p) \/ ClaimWrite(p) \/ Crash(p) \/ Close(p)
        PROVE  vaultFile' = vaultFile
    BY <2>8 DEF ClaimRead, ClaimWrite, Crash, Close, Die, files
  <2> QED
    BY <2>1, <2>2, <2>3, <2>4, <2>5, <2>6, <2>7, <2>8 DEF Next
<1> QED
  BY <1>1, InductiveInvariant, PTL DEF Spec, VaultCovered

----------------------------------------------------------------------------
(* Transaction implements AtomicStore: the journal, the two file writes and *)
(* the crash recovery together behave like one atomic commit.               *)

\* The abstract actions speak of the mapped state.
LEMMA MappedQuiet ==
    ASSUME UNCHANGED <<vaultFile, ratchetFile, journal, edits>>
    PROVE  UNCHANGED Atomic!avars
<1>1. vaultBar' = vaultBar
  BY DEF vaultBar, Pending, GitGotIn
<1>2. inDoubtBar' = inDoubtBar
  BY DEF inDoubtBar
<1>3. read_strongest_ratchet' = read_strongest_ratchet
  BY DEF read_strongest_ratchet, merge_ratchet
<1> QED
  BY <1>1, <1>2, <1>3 DEF Atomic!avars

\* Without a journal the mapped vaults are the files.
LEMMA MappedWithoutJournal ==
    ASSUME TypeOK, journal = NoJournal
    PROVE  vaultBar = vaultFile /\ inDoubtBar = NoJournal
BY DEF vaultBar, Pending, inDoubtBar, TypeOK

\* The initial state is the abstract one.
LEMMA RefinesInit == Init => Atomic!AInit
<1> SUFFICES ASSUME Init PROVE Atomic!AInit
  OBVIOUS
<1>1. vaultBar = vaultFile /\ inDoubtBar = NoJournal
  BY InitInductive, MappedWithoutJournal DEF Init, Inductive
<1>2. read_strongest_ratchet = ratchetFile
  BY DEF Init, read_strongest_ratchet
<1> QED
  BY <1>1, <1>2 DEF Init, Atomic!AInit

\* Writing the journal is the commit.
LEMMA RefinesCommit ==
    ASSUME Inductive, NEW p \in Procs, WriteJournal(p)
    PROVE  Atomic!ANext
<1> DEFINE w == WorkspaceOf[p]
           t == plan[p]
<1>1. /\ journal = NoJournal /\ journal' = t
      /\ vaultFile[w] = t.vaultBefore /\ ratchetFile = t.ratchetBefore
      /\ pc[p] \in {"commit", "prepared"}
      /\ UNCHANGED <<vaultFile, ratchetFile, edits>>
  BY DEF WriteJournal, Unchanged, Here
<1>2. /\ t \in Journals /\ t # NoJournal /\ t.origin = w
      /\ t.vaultBefore \in Clean
      /\ t.nextVault \in Successors[t.vaultBefore] \cap Clean
      /\ PlanSound(t)
  BY <1>1 DEF Inductive, TypeOK, HoldsPlan
<1>3. w \in Workspaces /\ t.nextVault \in Images /\ vaultFile \in [Workspaces -> Images]
  BY <1>2, TransactionAssumption DEF Inductive, TypeOK, Journals
<1>4. vaultBar = vaultFile /\ inDoubtBar = NoJournal
  BY <1>1, MappedWithoutJournal DEF Inductive
<1>5. vaultBar' = [vaultFile EXCEPT ![w] = t.nextVault]
  BY <1>1, <1>2, <1>3 DEF vaultBar, Pending, GitGotIn
<1>6. inDoubtBar' = [at |-> w, before |-> t.vaultBefore, next |-> t.nextVault]
  BY <1>1, <1>2 DEF inDoubtBar
<1>7. read_strongest_ratchet = ratchetFile /\ read_strongest_ratchet' = t.nextRatchet
  <2>1. Inductive'
    BY WriteJournalKeeps
  <2>2. TypeOK' /\ JournalSound' /\ RatchetRecoverable'
    BY <2>1 DEF Inductive
  <2>3. merge_ratchet(ratchetFile, t.nextRatchet) = t.nextRatchet
    BY <1>1, <1>2, MergeCovered DEF Inductive, TypeOK, PlanSound, Journals
  <2> QED
    BY <1>1, <1>2, <2>3 DEF read_strongest_ratchet, merge_ratchet
<1>8. /\ Atomic!Keeps(read_strongest_ratchet')
      /\ Atomic!Absorbs(read_strongest_ratchet', vaultBar[w], t.nextVault)
  BY <1>1, <1>2, <1>4, <1>7 DEF Atomic!Keeps, Atomic!Absorbs, PlanSound, Covers
<1>9. Atomic!ACommit(w, t.nextVault)
  BY <1>1, <1>2, <1>4, <1>5, <1>6, <1>8 DEF Atomic!ACommit
<1> QED
  BY <1>3, <1>9 DEF Atomic!ANext

\* Writing the vault is invisible, unless git had got in.
LEMMA RefinesVaultWrite ==
    ASSUME Inductive, NEW p \in Procs, CompleteVault(p)
    PROVE  Atomic!ANext
<1>1. /\ journal # NoJournal /\ journal.origin = WorkspaceOf[p]
      /\ UNCHANGED <<ratchetFile, journal, edits>>
  BY DEF CompleteVault, Inductive, Completing
<1>2. vaultFile' = [vaultFile EXCEPT ![journal.origin] = journal.nextVault]
  BY <1>1, CompleteVaultKeeps
<1>3. /\ journal.origin \in Workspaces /\ vaultFile \in [Workspaces -> Images]
      /\ journal.nextVault \in Images
  BY <1>1 DEF Inductive, TypeOK, Journals
<1>4. vaultBar' = [vaultBar EXCEPT ![journal.origin] = journal.nextVault]
  BY <1>1, <1>2, <1>3 DEF vaultBar, Pending, GitGotIn
<1>5. /\ inDoubtBar # NoJournal /\ inDoubtBar' = inDoubtBar
      /\ inDoubtBar.at = journal.origin /\ inDoubtBar.next = journal.nextVault
  <2>1. journal.vaultBefore \in Images
    BY <1>1 DEF Inductive, TypeOK, Journals
  <2> QED
    BY <1>1, <1>3, <2>1, NullAssumption DEF inDoubtBar
<1>6. read_strongest_ratchet' = read_strongest_ratchet
  BY <1>1 DEF read_strongest_ratchet, merge_ratchet
<1>7. Atomic!AReassert
  BY <1>1, <1>4, <1>5, <1>6 DEF Atomic!AReassert
<1> QED
  BY <1>7 DEF Atomic!ANext

\* Removing the journal settles the commit.
LEMMA RefinesSettle ==
    ASSUME Inductive, NEW p \in Procs, CompleteRemove(p)
    PROVE  Atomic!ANext
<1>1. /\ journal # NoJournal /\ plan[p] = journal /\ journal.origin = WorkspaceOf[p]
      /\ vaultFile[journal.origin] = journal.nextVault
      /\ journal' = NoJournal
      /\ UNCHANGED <<vaultFile, ratchetFile, edits>>
  BY DEF CompleteRemove, Verified, Here, Inductive, Completing
<1>2. /\ journal.origin \in Workspaces /\ vaultFile \in [Workspaces -> Images]
      /\ journal.vaultBefore \in Images /\ journal.nextVault \in Images
  BY <1>1 DEF Inductive, TypeOK, Journals
<1>3. vaultBar = vaultFile /\ vaultBar' = vaultFile
  BY <1>1, <1>2 DEF vaultBar, Pending, GitGotIn
<1>4. /\ inDoubtBar # NoJournal /\ inDoubtBar' = NoJournal
      /\ inDoubtBar.at = journal.origin /\ inDoubtBar.next = journal.nextVault
  BY <1>1, <1>2, NullAssumption DEF inDoubtBar
<1>5. read_strongest_ratchet' = read_strongest_ratchet
  BY CompleteRemoveKeeps
<1>6. Atomic!ASettle
  BY <1>1, <1>3, <1>4, <1>5 DEF Atomic!ASettle
<1> QED
  BY <1>6 DEF Atomic!ANext

\* Abandoning takes the vault back at most, never the memory.
LEMMA RefinesAbandon ==
    ASSUME Inductive, NEW p \in Procs, AbandonRemove(p)
    PROVE  Atomic!ANext
<1>1. /\ journal # NoJournal /\ journal' = NoJournal
      /\ UNCHANGED <<vaultFile, ratchetFile, edits>>
  BY DEF AbandonRemove, Inductive, Completing
<1>2. /\ journal.origin \in Workspaces /\ vaultFile \in [Workspaces -> Images]
      /\ journal.vaultBefore \in Images /\ journal.nextVault \in Images
  BY <1>1 DEF Inductive, TypeOK, Journals
<1>3. vaultBar' = vaultFile
  BY <1>1, <1>2 DEF vaultBar, Pending
<1>4. /\ inDoubtBar # NoJournal /\ inDoubtBar' = NoJournal
      /\ inDoubtBar.at = journal.origin /\ inDoubtBar.next = journal.nextVault
      /\ inDoubtBar.before = journal.vaultBefore
  BY <1>1, <1>2, NullAssumption DEF inDoubtBar
<1>5. \/ vaultBar = vaultFile
      \/ /\ vaultBar[journal.origin] = journal.nextVault
         /\ vaultFile = [vaultBar EXCEPT ![journal.origin] = journal.vaultBefore]
  <2>1. CASE vaultFile[journal.origin] = journal.vaultBefore
    BY <1>1, <1>2, <2>1 DEF vaultBar, Pending, GitGotIn
  <2>2. CASE vaultFile[journal.origin] # journal.vaultBefore
    BY <1>1, <1>2, <2>2 DEF vaultBar, Pending, GitGotIn
  <2> QED
    BY <2>1, <2>2
<1>6. read_strongest_ratchet' = read_strongest_ratchet
  BY AbandonRemoveKeeps
<1>7. Atomic!AAbandon
  BY <1>1, <1>3, <1>4, <1>5, <1>6 DEF Atomic!AAbandon
<1> QED
  BY <1>7 DEF Atomic!ANext

\* Moving the ratchet file to the journal's after-image is invisible.
LEMMA RefinesRatchetWrite ==
    ASSUME Inductive, NEW p \in Procs, CompleteRatchet(p) \/ AbandonRatchet(p)
    PROVE  UNCHANGED Atomic!avars
<1>1. UNCHANGED <<vaultFile, journal, edits>>
  BY DEF CompleteRatchet, AbandonRatchet
<1>2. vaultBar' = vaultBar /\ inDoubtBar' = inDoubtBar
  BY <1>1 DEF vaultBar, Pending, GitGotIn, inDoubtBar
<1>3. read_strongest_ratchet' = read_strongest_ratchet
  BY CompleteRatchetKeeps, AbandonRatchetKeeps
<1> QED
  BY <1>1, <1>2, <1>3 DEF Atomic!avars

\* absorb_clean_trust_raises and a claim raise the memory by what a vault shows.
LEMMA RefinesRaise ==
    ASSUME Inductive, NEW p \in Procs,
           AbsorbToDisk(p) \/ (ClaimWrite(p) /\ Claimable(p))
    PROVE  Atomic!ANext
<1> DEFINE v == session[p].vault
<1>1. /\ journal = NoJournal /\ journal' = NoJournal
      /\ pc[p] \in {"absorb", "claim"}
      /\ UNCHANGED <<vaultFile, edits>>
  BY DEF AbsorbToDisk, ClaimWrite, Claimable
<1>2. session[p] \in Sessions
  BY <1>1 DEF Inductive, TypeOK, HoldsSession
<1>3. /\ v \in Images /\ session[p].judged \in Ratchets /\ ratchetFile \in Ratchets
      /\ Watermarks[v] \in Ratchets
  BY <1>2, TransactionAssumption DEF Sessions, Inductive, TypeOK
<1>4. \E j \in Ratchets : ratchetFile' = merge_ratchet(ratchetFile, raised_watermarks(v, j))
  BY <1>3 DEF AbsorbToDisk, ClaimWrite, update, apply_update
<1>5. PICK j \in Ratchets : ratchetFile' = merge_ratchet(ratchetFile, raised_watermarks(v, j))
  BY <1>4
<1>6. \A k \in Keys : /\ ratchetFile[k] <= ratchetFile'[k]
                      /\ ratchetFile'[k] \in {ratchetFile[k], Watermarks[v][k]}
  BY <1>3, <1>5 DEF merge_ratchet, raised_watermarks, Larger, Ratchets
<1>7. vaultBar = vaultFile /\ vaultBar' = vaultFile /\ inDoubtBar = NoJournal
      /\ inDoubtBar' = NoJournal
  BY <1>1 DEF vaultBar, Pending, inDoubtBar, Inductive, TypeOK
<1>8. read_strongest_ratchet = ratchetFile /\ read_strongest_ratchet' = ratchetFile'
  BY <1>1 DEF read_strongest_ratchet
<1>9. Atomic!ARaise(v)
  BY <1>1, <1>6, <1>7, <1>8 DEF Atomic!ARaise, Atomic!Keeps
<1> QED
  BY <1>3, <1>9 DEF Atomic!ANext

\* accept_rollback and reset_ratchet forget as the abstract store may.
LEMMA RefinesForget ==
    ASSUME Inductive, NEW p \in Procs,
           ResetRatchet(p) \/ \E k \in Keys : AcceptRollback(p, k)
    PROVE  Atomic!ANext
<1>1. /\ journal = NoJournal /\ journal' = NoJournal
      /\ UNCHANGED <<vaultFile, edits>>
  BY DEF ResetRatchet, AcceptRollback
<1>2. vaultBar = vaultFile /\ vaultBar' = vaultFile /\ inDoubtBar = NoJournal
      /\ inDoubtBar' = NoJournal
  BY <1>1 DEF vaultBar, Pending, inDoubtBar, Inductive, TypeOK
<1>3. read_strongest_ratchet = ratchetFile /\ read_strongest_ratchet' = ratchetFile'
  BY <1>1 DEF read_strongest_ratchet
<1>4. CASE ResetRatchet(p)
  <2>1. Here(p) \in Images /\ ratchetFile' = Watermarks[Here(p)]
    BY <1>4, TransactionAssumption DEF ResetRatchet, Here, Inductive, TypeOK
  <2>2. PICK v \in Images : ratchetFile' = Watermarks[v]
    BY <2>1
  <2>3. Atomic!AForget(v)
    BY <1>1, <1>2, <1>3, <2>2 DEF Atomic!AForget
  <2> QED
    BY <2>3 DEF Atomic!ANext
<1>5. CASE \E k \in Keys : AcceptRollback(p, k)
  <2>1. PICK k \in Keys : AcceptRollback(p, k)
    BY <1>5
  <2>2. session[p].vault \in Images
    BY <2>1 DEF AcceptRollback, Inductive, TypeOK, HoldsSession, Sessions
  <2>3. PICK v \in Images : ratchetFile' = [ratchetFile EXCEPT ![k] = Watermarks[v][k]]
    BY <2>1, <2>2 DEF AcceptRollback
  <2>4. Atomic!AForget(v)
    BY <1>1, <1>2, <1>3, <2>3 DEF Atomic!AForget
  <2> QED
    BY <2>4 DEF Atomic!ANext
<1> QED
  BY <1>4, <1>5

\* Git edits one mapped vault.
LEMMA RefinesEdit ==
    ASSUME Inductive, NEW w \in Workspaces, NEW v \in Images, GitEdit(w, v)
    PROVE  Atomic!ANext
<1>1. /\ vaultFile' = [vaultFile EXCEPT ![w] = v] /\ edits' = edits + 1
      /\ UNCHANGED <<ratchetFile, journal>>
      /\ vaultFile \in [Workspaces -> Images]
  BY DEF GitEdit, Inductive, TypeOK
<1>2. PICK x \in Images : vaultBar' = [vaultBar EXCEPT ![w] = x]
  <2>1. CASE Pending(w) /\ v \in {journal.vaultBefore, journal.nextVault}
    <3>1. journal.nextVault \in Images
      BY <2>1 DEF Pending, Inductive, TypeOK, Journals
    <3>2. vaultBar' = [vaultBar EXCEPT ![w] = journal.nextVault]
      BY <1>1, <2>1 DEF vaultBar, Pending, GitGotIn
    <3> QED
      BY <3>1, <3>2
  <2>2. CASE ~(Pending(w) /\ v \in {journal.vaultBefore, journal.nextVault})
    <3>1. vaultBar' = [vaultBar EXCEPT ![w] = v]
      BY <1>1, <2>2 DEF vaultBar, Pending, GitGotIn
    <3> QED
      BY <3>1
  <2> QED
    BY <2>1, <2>2
<1>3. inDoubtBar' = inDoubtBar /\ read_strongest_ratchet' = read_strongest_ratchet
  BY <1>1 DEF inDoubtBar, read_strongest_ratchet, merge_ratchet
<1>4. Atomic!AEdit(w, x)
  BY <1>1, <1>2, <1>3 DEF Atomic!AEdit
<1> QED
  BY <1>4 DEF Atomic!ANext

\* Every step of the implementation is a step of the abstract store or none.
LEMMA RefinesStep == Inductive /\ [Next]_vars => [Atomic!ANext]_(Atomic!avars)
<1> SUFFICES ASSUME Inductive, [Next]_vars PROVE [Atomic!ANext]_(Atomic!avars)
  OBVIOUS
<1>1. CASE UNCHANGED vars
  BY <1>1, MappedQuiet DEF vars
<1>2. ASSUME NEW p \in Procs, Load(p) \/ Absorb(p) \/ reload_if_stale(p)
      PROVE  [Atomic!ANext]_(Atomic!avars)
  <2>1. CASE AbsorbToDisk(p)
    BY <2>1, RefinesRaise
  <2>2. CASE ~AbsorbToDisk(p)
    <3>1. UNCHANGED <<vaultFile, ratchetFile, journal, edits>>
      BY <1>2, <2>2 DEF Load, Absorb, LoadStart, RecoverLock, LoadRead, AbsorbInMemory,
                        AbsorbRefused, reload_if_stale, files
    <3> QED
      BY <3>1, MappedQuiet
  <2> QED
    BY <2>1, <2>2
<1>3. ASSUME NEW p \in Procs,
             Commit(p) \/ Prepare(p) \/ WriteJournal(p) \/ CommitRefused(p)
      PROVE  [Atomic!ANext]_(Atomic!avars)
  <2>1. CASE WriteJournal(p)
    BY <2>1, RefinesCommit
  <2>2. CASE Commit(p) \/ Prepare(p) \/ CommitRefused(p)
    <3>1. UNCHANGED <<vaultFile, ratchetFile, journal, edits>>
      BY <2>2 DEF Commit, Prepare, CommitRefused, files
    <3> QED
      BY <3>1, MappedQuiet
  <2> QED
    BY <1>3, <2>1, <2>2
<1>4. ASSUME NEW p \in Procs, Complete(p) PROVE [Atomic!ANext]_(Atomic!avars)
  <2>1. CASE CompleteConflict(p) \/ VerifyConflict(p)
    <3>1. UNCHANGED <<vaultFile, ratchetFile, journal, edits>>
      BY <2>1 DEF CompleteConflict, VerifyConflict, Fail, files
    <3> QED
      BY <3>1, MappedQuiet
  <2> QED
    BY <1>4, <2>1, RefinesRatchetWrite, RefinesVaultWrite, RefinesSettle DEF Complete
<1>5. ASSUME NEW p \in Procs, AbandonRatchet(p) \/ AbandonRemove(p)
      PROVE  [Atomic!ANext]_(Atomic!avars)
  BY <1>5, RefinesRatchetWrite, RefinesAbandon
<1>6. ASSUME NEW p \in Procs,
             (\E k \in Keys : AcceptRollback(p, k)) \/ ResetRatchet(p)
      PROVE  [Atomic!ANext]_(Atomic!avars)
  BY <1>6, RefinesForget
<1>7. ASSUME NEW p \in Procs, ClaimRead(p) \/ ClaimWrite(p) \/ Crash(p) \/ Close(p)
      PROVE  [Atomic!ANext]_(Atomic!avars)
  <2>1. CASE ClaimWrite(p) /\ Claimable(p)
    BY <2>1, RefinesRaise
  <2>2. CASE ~(ClaimWrite(p) /\ Claimable(p))
    <3>1. UNCHANGED <<vaultFile, ratchetFile, journal, edits>>
      BY <1>7, <2>2 DEF ClaimRead, ClaimWrite, Crash, Close, Die, files
    <3> QED
      BY <3>1, MappedQuiet
  <2> QED
    BY <2>1, <2>2
<1>8. ASSUME NEW w \in Workspaces, NEW v \in Images, GitEdit(w, v)
      PROVE  [Atomic!ANext]_(Atomic!avars)
  BY <1>8, RefinesEdit
<1> QED
  BY <1>1, <1>2, <1>3, <1>4, <1>5, <1>6, <1>7, <1>8 DEF Next

\* Transactions are atomic, for every set of processes, worktrees, keys and
\* images: Transaction implements AtomicStore.
THEOREM TransactionsAreAtomic == Spec => AtomicSpec
BY RefinesInit, RefinesStep, InductiveInvariant, PTL DEF Spec, AtomicSpec, Atomic!Spec
=============================================================================
