---------------------------- MODULE UpdateProofs ----------------------------
(* Theorems about Update: whatever the transport serves, however many       *)
(* commands run side by side and wherever one of them dies, no accepted     *)
(* release is forgotten, one epoch has one manifest, and what is installed  *)
(* was verified.                                                            *)
EXTENDS Update, WellFoundedInduction, TLAPS

Processes ==
  [at : Stages, cmd : Commands, current : Versions, sure : BOOLEAN,
   recording : BOOLEAN, manifest : Manifests, got : Digests, loaded : States]

(* A command that is past fetch_latest_manifest works on a manifest that    *)
(* was verified, past accept_seen on one that was accepted, and past the    *)
(* download on the bytes that manifest names.                               *)
Checked(q) ==
  /\ q.at \notin {"idle", "fetch"} => Validated(q.manifest)
  /\ q.at \in {"compare", "prompt", "download", "replace"} \/ q.recording
       => q.manifest \in accepted
  /\ q.at \notin {"lock", "load", "markers", "advance"} => ~q.recording
  /\ q.at = "replace" => q.got = Artifact(q.manifest).digest

(* Under the lock, what a command has loaded is what the file holds.        *)
Current(p) ==
  LET q == proc[p]
  IN  /\ q.at \in {"load", "markers", "advance"} => lock = p
      /\ q.at \in {"markers", "advance"} => q.loaded = state
      /\ q.at = "markers" => present
      /\ q.at = "advance" => present \/ markers = {}

(* The state file is missing only before the first release is accepted or   *)
(* migrated; afterwards it is at least as high as everything ever accepted, *)
(* and knows the manifest of its own epoch.                                 *)
Remembered ==
  /\ ~present => state = NoState /\ accepted = {} /\ markers = inherited
  /\ present =>
       /\ state.seen # NoRelease /\ validate_state(state)
       /\ \A i \in inherited : i <= state.seen.epoch
  /\ \A m \in accepted :
       /\ Validated(m)
       /\ m.epoch <= state.seen.epoch
       /\ m.epoch = state.seen.epoch => m.hash = state.seen.hash

Inductive ==
  /\ TypeOK
  /\ \A p \in Procs : Checked(proc[p]) /\ Current(p)
  /\ Remembered
  /\ OneManifestPerEpoch
  /\ InstalledIsVerified

----------------------------------------------------------------------------
(* The markers of older versions *)

(* A bounded set of naturals has a largest member, and Max finds it.        *)
LEMMA MaxOfMarkers ==
  ASSUME NEW S, S # {}, NEW B \in Nat, S \subseteq 0..B
  PROVE  Max(S) \in S /\ \A e \in S : e <= Max(S)
<1> DEFINE T == {B - e : e \in S}
           R == OpToRel(<, Nat)
<1>1. T \subseteq Nat /\ T # {}
  OBVIOUS
<1>2. PICK x \in T : \A y \in T : ~(<<y, x>> \in R)
  BY <1>1, WFMin, NatLessThanWellFounded
<1>3. PICK m \in S : x = B - m
  BY <1>2
<1>4. ASSUME NEW e \in S
      PROVE  m >= e
  <2>1. B - e \in T /\ B - e \in Nat /\ x \in Nat
    BY <1>1
  <2>2. ~(B - e < x)
    BY <1>2, <2>1 DEF OpToRel
  <2> QED
    BY <1>3, <2>1, <2>2
<1>5. \E k \in S : \A e \in S : k >= e
  BY <1>4
<1> QED
  BY <1>5 DEF Max

LEMMA MarkersBounded ==
  ASSUME TypeOK
  PROVE  markers \subseteq 0..MaxEpoch /\ inherited \subseteq 0..MaxEpoch
BY UpdateAssumption DEF TypeOK

----------------------------------------------------------------------------
(* Types *)

LEMMA ReleaseType ==
  /\ \A m \in Manifests : Release(m) \in Releases
  /\ \A r \in Releases : r.epoch \in Nat /\ r # NoRelease
  /\ NoState \in States
<1>1. UNION OldMarkers \subseteq Nat
  BY UpdateAssumption
<1>2. ASSUME NEW r \in Releases
      PROVE  r.epoch \in Nat
  BY <1>1, UpdateAssumption DEF Releases, Release
<1> QED
  BY <1>2, UpdateAssumption DEF Releases, NoState, States

LEMMA IdleType ==
  /\ Idle \in Processes /\ Idle.at = "idle" /\ ~Idle.recording
BY ReleaseType, UpdateAssumption DEF Idle, Processes, Stages, Commands, Versions, Digests

LEMMA FieldTypes ==
  ASSUME TypeOK, NEW p \in Procs
  PROVE  /\ proc[p] \in Processes
         /\ proc[p].at \in Stages /\ proc[p].cmd \in Commands
         /\ proc[p].current \in Versions /\ proc[p].sure \in BOOLEAN
         /\ proc[p].recording \in BOOLEAN /\ proc[p].manifest \in Manifests
         /\ proc[p].got \in Digests /\ proc[p].loaded \in States
         /\ Release(proc[p].manifest) \in Releases
         /\ Release(proc[p].manifest).epoch = proc[p].manifest.epoch
         /\ Release(proc[p].manifest).hash = proc[p].manifest.hash
         /\ proc[p].manifest.epoch \in Nat /\ proc[p].manifest.hash # NoHash
         /\ proc[p].manifest.version \in Versions
<1>1. proc[p] \in Processes
  BY DEF TypeOK, Processes
<1>2. proc[p].manifest \in Manifests
  BY <1>1 DEF Processes
<1> QED
  BY <1>1, <1>2, ReleaseType, UpdateAssumption DEF Processes, Release, Versions

(* A release is its version, its epoch and its hash.                        *)
LEMMA ReleaseShape ==
  ASSUME NEW r \in Releases
  PROVE  r = [version |-> r.version, epoch |-> r.epoch, hash |-> r.hash]
BY DEF Releases, Release

(* A release that is not refused is what is remembered next, and nothing    *)
(* higher, nor another manifest of its epoch, was remembered before.        *)
LEMMA Advances ==
  ASSUME NEW r \in Releases \cup {NoRelease}, NEW o \in Releases, ~Refused(r, o)
  PROVE  /\ advance(r, o) = o
         /\ r # NoRelease =>
              /\ r.epoch <= o.epoch
              /\ r.epoch = o.epoch => r.hash \in {NoHash, o.hash}
<1>1. CASE r = NoRelease
  BY <1>1 DEF advance
<1>2. CASE r # NoRelease
  <2>1. r \in Releases /\ r.epoch \in Nat /\ o.epoch \in Nat
    BY <1>2, ReleaseType
  <2>2. /\ r.epoch <= o.epoch
        /\ r.epoch = o.epoch => o.version = r.version /\ r.hash \in {NoHash, o.hash}
    BY <1>2, <2>1 DEF Refused, Rollback, Equivocation
  <2>3. CASE o.epoch > r.epoch
    BY <1>2, <2>1, <2>2, <2>3 DEF advance
  <2>4. CASE o.epoch = r.epoch
    <3>1. advance(r, o) = [r EXCEPT !.hash = IF @ = NoHash THEN o.hash ELSE @]
      BY <1>2, <2>1, <2>4 DEF advance
    <3>2. /\ r = [version |-> o.version, epoch |-> o.epoch, hash |-> r.hash]
          /\ o = [version |-> o.version, epoch |-> o.epoch, hash |-> o.hash]
      BY <2>1, <2>2, <2>4, ReleaseShape
    <3>3. [r EXCEPT !.hash = IF @ = NoHash THEN o.hash ELSE @]
            = [version |-> o.version, epoch |-> o.epoch,
               hash |-> IF r.hash = NoHash THEN o.hash ELSE r.hash]
      BY <3>2
    <3> QED
      BY <2>2, <2>4, <3>1, <3>2, <3>3
  <2> QED
    BY <2>1, <2>2, <2>3, <2>4
<1> QED
  BY <1>1, <1>2

LEMMA InitInductive ==
  ASSUME Init
  PROVE  Inductive
<1>1. TypeOK
  <2>1. state \in States /\ markers \subseteq UNION OldMarkers
    BY ReleaseType DEF Init
  <2>2. FirstVersion \in Versions /\ NoHash \in Digests
    BY DEF Versions, Digests
  <2>3. binary \in [version : Versions, digest : Digests]
    BY <2>2 DEF Init
  <2>4. proc \in [Procs -> Processes]
    BY IdleType DEF Init
  <2>5. started \in 0..MaxCommands /\ crashes \in 0..MaxCrashes
    BY UpdateAssumption DEF Init
  <2>6. lock \in Procs \cup {Free} /\ present \in BOOLEAN
        /\ notice \in Versions \cup {NoNotice}
    BY DEF Init
  <2>7. accepted \subseteq Manifests /\ inherited \subseteq UNION OldMarkers
    BY <2>1 DEF Init
  <2> QED
    BY <2>1, <2>3, <2>4, <2>5, <2>6, <2>7 DEF TypeOK, Processes
<1>2. \A p \in Procs : Checked(proc[p]) /\ Current(p)
  BY IdleType DEF Init, Checked, Current
<1>3. Remembered
  BY DEF Init, Remembered
<1>4. OneManifestPerEpoch /\ InstalledIsVerified
  BY DEF Init, OneManifestPerEpoch, InstalledIsVerified
<1> QED
  BY <1>1, <1>2, <1>3, <1>4 DEF Inductive

----------------------------------------------------------------------------
(* Steps that leave the state file alone *)

Aside(p) ==
  /\ proc' \in [Procs -> Processes]
  /\ \A q \in Procs \ {p} : proc'[q] = proc[q] /\ (lock = q => lock' = q)
  /\ lock' \in Procs \cup {Free}

(* A step of p that leaves the state alone does not disturb the others.     *)
LEMMA OthersKeep ==
  ASSUME Inductive, NEW p \in Procs, Aside(p), TypeOK',
         UNCHANGED <<state, present, accepted, inherited>>,
         markers' \subseteq markers, present \/ markers' = markers,
         InstalledIsVerified',
         Checked(proc[p])', Current(p)'
  PROVE  Inductive'
<1>1. ASSUME NEW q \in Procs, q # p
      PROVE  Checked(proc[q])' /\ Current(q)'
  <2>1. proc'[q] = proc[q] /\ (lock = q => lock' = q)
    BY <1>1 DEF Aside
  <2>2. Checked(proc[q]) /\ Current(q)
    BY DEF Inductive
  <2>3. Checked(proc[q])'
    BY <2>1, <2>2 DEF Checked
  <2>4. Current(q)'
    BY <2>1, <2>2 DEF Current
  <2> QED
    BY <2>3, <2>4
<1>2. Remembered'
  BY DEF Inductive, Remembered
<1>3. OneManifestPerEpoch'
  BY DEF Inductive, OneManifestPerEpoch
<1> QED
  BY <1>1, <1>2, <1>3 DEF Inductive

(* What a step leaves alone beside the command, the lock and the notice.    *)
Quiet == UNCHANGED <<state, present, markers, binary, accepted, inherited, started>>

LEMMA QuietStep ==
  ASSUME Inductive, NEW p \in Procs, Aside(p), Quiet,
         notice' \in Versions \cup {NoNotice}, crashes' \in 0..MaxCrashes,
         Checked(proc[p])', Current(p)'
  PROVE  Inductive'
<1>1. TypeOK'
  BY DEF Inductive, TypeOK, Quiet, Aside, Processes
<1>2. InstalledIsVerified'
  BY DEF Inductive, InstalledIsVerified, Quiet
<1> QED
  BY <1>1, <1>2, OthersKeep DEF Quiet

(* The record of p becomes r.                                               *)
LEMMA Becomes ==
  ASSUME TypeOK, NEW p \in Procs, NEW STATE r, r \in Processes,
         proc' = [proc EXCEPT ![p] = r]
  PROVE  /\ proc' \in [Procs -> Processes] /\ proc'[p] = r
         /\ \A q \in Procs \ {p} : proc'[q] = proc[q]
BY DEF TypeOK, Processes

LEMMA EndRecord ==
  ASSUME Inductive, NEW p \in Procs, End(p)
  PROVE  Aside(p) /\ Checked(proc[p])' /\ Current(p)'
<1>1. TypeOK
  BY DEF Inductive
<1>2. /\ proc' \in [Procs -> Processes] /\ proc'[p] = Idle
      /\ \A q \in Procs \ {p} : proc'[q] = proc[q]
  BY <1>1, IdleType, Becomes DEF End
<1>3. lock' \in Procs \cup {Free} /\ \A q \in Procs \ {p} : lock = q => lock' = q
  BY <1>1 DEF End, LockAfter, TypeOK
<1>4. Checked(proc[p])' /\ Current(p)'
  BY <1>2, IdleType DEF Checked, Current
<1> QED
  BY <1>2, <1>3, <1>4 DEF Aside

LEMMA EndStep ==
  ASSUME Inductive, NEW p \in Procs, End(p), Quiet,
         notice' \in Versions \cup {NoNotice}, crashes' \in 0..MaxCrashes
  PROVE  Inductive'
BY EndRecord, QuietStep

LEMMA FailStep ==
  ASSUME Inductive, NEW p \in Procs, Fail(p), Quiet, UNCHANGED crashes
  PROVE  Inductive'
<1>1. notice' \in Versions \cup {NoNotice} /\ crashes' \in 0..MaxCrashes
  BY DEF Inductive, TypeOK, Fail, write_passive_cache
<1> QED
  BY <1>1, EndStep DEF Fail

LEMMA CrashStep ==
  ASSUME Inductive, NEW p \in Procs, Crash(p)
  PROVE  Inductive'
<1>1. crashes' \in 0..MaxCrashes /\ notice' \in Versions \cup {NoNotice}
  BY UpdateAssumption DEF Inductive, TypeOK, Crash
<1> QED
  BY <1>1, EndStep DEF Crash, Quiet

LEMMA StartStep ==
  ASSUME Inductive, NEW p \in Procs, NEW cmd \in Commands, NEW STATE v, v \in Versions,
         Start(p, cmd, v)
  PROVE  Inductive'
<1> DEFINE new == [Idle EXCEPT !.at = "fetch", !.cmd = cmd, !.current = v,
                               !.sure = cmd # "update"]
<1>1. TypeOK
  BY DEF Inductive
<1>2. new \in Processes /\ new.at = "fetch" /\ ~new.recording
  BY IdleType DEF Processes, Stages
<1>3. /\ proc' \in [Procs -> Processes] /\ proc'[p] = new
      /\ \A q \in Procs \ {p} : proc'[q] = proc[q]
  BY <1>1, <1>2, Becomes DEF Start
<1> HIDE DEF new
<1>4. Checked(proc[p])' /\ Current(p)'
  BY <1>2, <1>3 DEF Checked, Current
<1>5. Aside(p)
  BY <1>1, <1>3 DEF Aside, Start, TypeOK
<1>6. TypeOK'
  BY <1>1, <1>3, UpdateAssumption DEF TypeOK, Start, Processes
<1>7. InstalledIsVerified'
  BY DEF Inductive, InstalledIsVerified, Start
<1> QED
  BY <1>4, <1>5, <1>6, <1>7, OthersKeep DEF Start

LEMMA StartsStep ==
  ASSUME Inductive, NEW p \in Procs,
         (\E cmd \in Commands : cmd_update(p, cmd)) \/ bootstrap(p)
           \/ passive_update_notice(p)
  PROVE  Inductive'
<1>1. binary.version \in Versions
  BY DEF Inductive, TypeOK
<1>2. \A cmd \in Commands : Start(p, cmd, binary.version) => Inductive'
  BY <1>1, StartStep
<1>3. \A v \in Versions : Start(p, "bootstrap", v) => Inductive'
  BY StartStep DEF Commands
<1> QED
  BY <1>2, <1>3 DEF cmd_update, bootstrap, passive_update_notice, Commands

(* p takes up the manifest or moves on; no lock, no file, no notice.        *)
LEMMA MoveStep ==
  ASSUME Inductive, NEW p \in Procs, NEW STATE r, r \in Processes,
         proc' = [proc EXCEPT ![p] = r],
         UNCHANGED <<lock, notice, crashes>>, Quiet,
         r.at \notin {"load", "markers", "advance"}, Checked(r)
  PROVE  Inductive'
<1>1. TypeOK
  BY DEF Inductive
<1>2. /\ proc' \in [Procs -> Processes] /\ proc'[p] = r
      /\ \A q \in Procs \ {p} : proc'[q] = proc[q]
  BY <1>1, Becomes
<1>3. Checked(proc[p])'
  BY <1>2 DEF Checked, Quiet
<1>4. Current(p)'
  BY <1>2 DEF Current
<1>5. Aside(p)
  BY <1>1, <1>2 DEF Aside, TypeOK
<1>6. notice' \in Versions \cup {NoNotice} /\ crashes' \in 0..MaxCrashes
  BY <1>1 DEF TypeOK
<1> QED
  BY <1>3, <1>4, <1>5, <1>6, QuietStep

LEMMA FetchStep ==
  ASSUME Inductive, NEW p \in Procs, fetch_latest_manifest(p)
  PROVE  Inductive'
<1>1. TypeOK /\ Checked(proc[p]) /\ proc[p].at = "fetch" /\ proc[p] \in Processes
  BY FieldTypes DEF Inductive, fetch_latest_manifest
<1>2. Quiet /\ UNCHANGED crashes
  BY DEF fetch_latest_manifest, Unchanged, Quiet
<1>3. CASE Fail(p)
  BY <1>2, <1>3, FailStep
<1>4. ASSUME NEW m \in Manifests, Validated(m),
             proc' = [proc EXCEPT ![p].at = "lock", ![p].manifest = m],
             UNCHANGED <<lock, notice>>
      PROVE  Inductive'
  <2> DEFINE new == [proc[p] EXCEPT !.at = "lock", !.manifest = m]
  <2>1. /\ new \in Processes /\ new.at = "lock" /\ new.manifest = m
        /\ new.recording = proc[p].recording
    BY <1>1 DEF Processes, Stages
  <2>2. proc' = [proc EXCEPT ![p] = new]
    BY <1>4
  <2> HIDE DEF new
  <2>3. Checked(new)
    BY <1>1, <1>4, <2>1 DEF Checked
  <2> QED
    BY <1>2, <1>4, <2>1, <2>2, <2>3, MoveStep
<1> QED
  BY <1>3, <1>4 DEF fetch_latest_manifest

LEMMA AcquireLockStep ==
  ASSUME Inductive, NEW p \in Procs, acquire_lock(p)
  PROVE  Inductive'
<1>1. TypeOK /\ Checked(proc[p]) /\ proc[p].at = "lock" /\ proc[p] \in Processes
  BY FieldTypes DEF Inductive, acquire_lock
<1>2. Quiet /\ UNCHANGED crashes
  BY DEF acquire_lock, Unchanged, Quiet
<1>3. CASE Fail(p)
  BY <1>2, <1>3, FailStep
<1>4. CASE lock = Free /\ lock' = p /\ Goto(p, "load") /\ UNCHANGED notice
  <2> DEFINE new == [proc[p] EXCEPT !.at = "load"]
  <2>1. /\ new \in Processes /\ new.at = "load" /\ new.manifest = proc[p].manifest
        /\ new.recording = proc[p].recording
    BY <1>1 DEF Processes, Stages
  <2>2. proc' = [proc EXCEPT ![p] = new]
    BY <1>4 DEF Goto
  <2> HIDE DEF new
  <2>3. /\ proc' \in [Procs -> Processes] /\ proc'[p] = new
        /\ \A q \in Procs \ {p} : proc'[q] = proc[q]
    BY <1>1, <2>1, <2>2, Becomes
  <2>4. Checked(proc[p])'
    BY <1>1, <1>2, <2>1, <2>3 DEF Checked, Quiet
  <2>5. Current(p)'
    BY <1>4, <2>1, <2>3 DEF Current
  <2>6. Aside(p)
    BY <1>4, <2>3, UpdateAssumption DEF Aside
  <2>7. notice' \in Versions \cup {NoNotice} /\ crashes' \in 0..MaxCrashes
    BY <1>1, <1>2, <1>4 DEF TypeOK
  <2> QED
    BY <1>2, <2>4, <2>5, <2>6, <2>7, QuietStep
<1> QED
  BY <1>3, <1>4 DEF acquire_lock

LEMMA CompareStep ==
  ASSUME Inductive, NEW p \in Procs, Compare(p)
  PROVE  Inductive'
<1>1. /\ TypeOK /\ Checked(proc[p]) /\ proc[p].at = "compare" /\ proc[p] \in Processes
      /\ proc[p].manifest.version \in Versions
  BY FieldTypes DEF Inductive, Compare
<1>2. Quiet /\ UNCHANGED crashes
  BY DEF Compare, Unchanged, Quiet
<1>3. crashes' \in 0..MaxCrashes
  BY <1>1, <1>2 DEF TypeOK
<1>4. ASSUME End(p), notice' \in Versions \cup {NoNotice}
      PROVE  Inductive'
  BY <1>2, <1>3, <1>4, EndStep
<1>5. CASE /\ proc' = [proc EXCEPT ![p].at = "lock", ![p].recording = TRUE]
           /\ UNCHANGED <<lock, notice>>
  <2> DEFINE new == [proc[p] EXCEPT !.at = "lock", !.recording = TRUE]
  <2>1. new \in Processes /\ new.at = "lock" /\ new.manifest = proc[p].manifest
    BY <1>1 DEF Processes, Stages
  <2>2. proc' = [proc EXCEPT ![p] = new]
    BY <1>5
  <2> HIDE DEF new
  <2>3. Checked(new)
    BY <1>1, <2>1 DEF Checked
  <2> QED
    BY <1>2, <1>5, <2>1, <2>2, <2>3, MoveStep
<1>6. ASSUME NEW stage \in {"download", "prompt"}, Goto(p, stage), UNCHANGED <<lock, notice>>
      PROVE  Inductive'
  <2> DEFINE new == [proc[p] EXCEPT !.at = stage]
  <2>1. /\ new \in Processes /\ new.at = stage /\ new.manifest = proc[p].manifest
        /\ new.recording = proc[p].recording
    BY <1>1 DEF Processes, Stages
  <2>2. proc' = [proc EXCEPT ![p] = new]
    BY <1>6 DEF Goto
  <2> HIDE DEF new
  <2>3. Checked(new)
    BY <1>1, <2>1 DEF Checked
  <2> QED
    BY <1>2, <1>6, <2>1, <2>2, <2>3, MoveStep
<1>7. notice \in Versions \cup {NoNotice}
  BY <1>1 DEF TypeOK
<1>8. CASE UNCHANGED notice /\ End(p)
  BY <1>4, <1>7, <1>8
<1>9. ASSUME NEW STATE t, t \in Versions \cup {NoNotice}, write_passive_cache(t), End(p)
      PROVE  Inductive'
  BY <1>4, <1>9 DEF write_passive_cache
<1> QED
  BY <1>1, <1>5, <1>6, <1>8, <1>9 DEF Compare

LEMMA NothingQuiet ==
  ASSUME Inductive, Nothing
  PROVE  /\ Quiet /\ UNCHANGED <<crashes, notice>>
         /\ notice' \in Versions \cup {NoNotice} /\ crashes' \in 0..MaxCrashes
BY DEF Inductive, TypeOK, Nothing, Unchanged, Quiet

LEMMA PromptStep ==
  ASSUME Inductive, NEW p \in Procs, Prompt(p)
  PROVE  Inductive'
<1>1. TypeOK /\ Checked(proc[p]) /\ proc[p].at = "prompt" /\ proc[p] \in Processes
  BY FieldTypes DEF Inductive, Prompt
<1>2. /\ Quiet /\ UNCHANGED <<crashes, notice>>
      /\ notice' \in Versions \cup {NoNotice} /\ crashes' \in 0..MaxCrashes
  BY NothingQuiet DEF Prompt
<1>3. CASE End(p)
  BY <1>2, <1>3, EndStep
<1>4. CASE proc' = [proc EXCEPT ![p].at = "fetch", ![p].sure = TRUE] /\ UNCHANGED lock
  <2> DEFINE new == [proc[p] EXCEPT !.at = "fetch", !.sure = TRUE]
  <2>1. /\ new \in Processes /\ new.at = "fetch" /\ new.manifest = proc[p].manifest
        /\ new.recording = proc[p].recording
    BY <1>1 DEF Processes, Stages
  <2>2. proc' = [proc EXCEPT ![p] = new]
    BY <1>4
  <2> HIDE DEF new
  <2>3. Checked(new)
    BY <1>1, <2>1 DEF Checked
  <2> QED
    BY <1>2, <1>4, <2>1, <2>2, <2>3, MoveStep
<1> QED
  BY <1>3, <1>4 DEF Prompt

LEMMA DownloadStep ==
  ASSUME Inductive, NEW p \in Procs, Download(p)
  PROVE  Inductive'
<1>1. TypeOK /\ Checked(proc[p]) /\ proc[p].at = "download" /\ proc[p] \in Processes
  BY FieldTypes DEF Inductive, Download
<1>2. /\ Quiet /\ UNCHANGED <<crashes, notice>>
      /\ notice' \in Versions \cup {NoNotice} /\ crashes' \in 0..MaxCrashes
  BY NothingQuiet DEF Download
<1>3. CASE End(p)
  BY <1>2, <1>3, EndStep
<1>4. ASSUME NEW b \in Bytes, verify_artifact_bytes(proc[p].manifest, b),
             NEW got \in extract_installable_artifact(Artifact(proc[p].manifest), b),
             proc' = [proc EXCEPT ![p].at = "replace", ![p].got = got], UNCHANGED lock
      PROVE  Inductive'
  <2> DEFINE new == [proc[p] EXCEPT !.at = "replace", !.got = got]
  <2>1. got = Artifact(proc[p].manifest).digest /\ got \in Digests
    BY <1>4 DEF verify_artifact_bytes, extract_installable_artifact, Digests
  <2>2. /\ new \in Processes /\ new.at = "replace" /\ new.manifest = proc[p].manifest
        /\ new.recording = proc[p].recording /\ new.got = got
    BY <1>1, <2>1 DEF Processes, Stages
  <2>3. proc' = [proc EXCEPT ![p] = new]
    BY <1>4
  <2> HIDE DEF new
  <2>4. Checked(new)
    BY <1>1, <2>1, <2>2 DEF Checked
  <2> QED
    BY <1>2, <1>4, <2>2, <2>3, <2>4, MoveStep
<1> QED
  BY <1>3, <1>4 DEF Download

LEMMA ReplaceStep ==
  ASSUME Inductive, NEW p \in Procs, Replace(p)
  PROVE  Inductive'
<1>1. /\ TypeOK /\ Checked(proc[p]) /\ proc[p].at = "replace" /\ proc[p] \in Processes
      /\ proc[p].manifest.version \in Versions /\ proc[p].got \in Digests
  BY FieldTypes DEF Inductive, Replace
<1>2. /\ UNCHANGED <<state, present, markers, notice, accepted, inherited, started, crashes>>
      /\ notice' \in Versions \cup {NoNotice} /\ crashes' \in 0..MaxCrashes
  BY <1>1 DEF Replace, Unchanged, TypeOK
<1>3. CASE End(p) /\ UNCHANGED binary
  BY <1>2, <1>3, EndStep DEF Quiet
<1>4. CASE /\ binary' = [version |-> proc[p].manifest.version, digest |-> proc[p].got]
           /\ proc' = [proc EXCEPT ![p].at = "lock", ![p].recording = TRUE]
           /\ UNCHANGED lock
  <2> DEFINE new == [proc[p] EXCEPT !.at = "lock", !.recording = TRUE]
  <2>1. new \in Processes /\ new.at = "lock" /\ new.manifest = proc[p].manifest
    BY <1>1 DEF Processes, Stages
  <2>2. proc' = [proc EXCEPT ![p] = new]
    BY <1>4
  <2> HIDE DEF new
  <2>3. /\ proc' \in [Procs -> Processes] /\ proc'[p] = new
        /\ \A q \in Procs \ {p} : proc'[q] = proc[q]
    BY <1>1, <2>1, <2>2, Becomes
  <2>4. Checked(proc[p])'
    BY <1>1, <1>2, <2>1, <2>3 DEF Checked
  <2>5. Current(p)'
    BY <2>1, <2>3 DEF Current
  <2>6. Aside(p)
    BY <1>1, <1>4, <2>3 DEF Aside, TypeOK
  <2>7. TypeOK'
    BY <1>1, <1>2, <1>4, <2>3 DEF TypeOK, Processes
  <2>8. /\ proc[p].manifest \in accepted /\ Validated(proc[p].manifest)
        /\ proc[p].got = Artifact(proc[p].manifest).digest
    BY <1>1 DEF Checked
  <2>9. InstalledIsVerified'
    BY <1>2, <1>4, <2>8 DEF InstalledIsVerified
  <2> QED
    BY <1>2, <2>4, <2>5, <2>6, <2>7, <2>9, OthersKeep
<1> QED
  BY <1>3, <1>4 DEF Replace

----------------------------------------------------------------------------
(* Steps under the lock *)

(* p loads s and moves on.                                                  *)
LEMMA LoadRecord ==
  ASSUME TypeOK, NEW p \in Procs, NEW STATE s, s \in States, NEW stage \in Stages,
         Load(p, s, stage)
  PROVE  /\ proc' \in [Procs -> Processes]
         /\ \A q \in Procs \ {p} : proc'[q] = proc[q]
         /\ proc'[p].at = stage /\ proc'[p].loaded = s
         /\ proc'[p].manifest = proc[p].manifest
         /\ proc'[p].recording = proc[p].recording /\ proc'[p].got = proc[p].got
<1> DEFINE new == [proc[p] EXCEPT !.at = stage, !.loaded = s]
<1>1. proc[p] \in Processes
  BY FieldTypes
<1>2. /\ new \in Processes /\ new.at = stage /\ new.loaded = s
      /\ new.manifest = proc[p].manifest
      /\ new.recording = proc[p].recording /\ new.got = proc[p].got
  BY <1>1 DEF Processes
<1>3. proc' = [proc EXCEPT ![p] = new]
  BY DEF Load
<1> HIDE DEF new
<1> QED
  BY <1>2, <1>3, Becomes

(* Nobody else has loaded the state while p holds the lock.                 *)
LEMMA Alone ==
  ASSUME Inductive, NEW p \in Procs, proc[p].at \in {"load", "markers", "advance"},
         NEW q \in Procs \ {p}
  PROVE  proc[q].at \notin {"load", "markers", "advance"} /\ lock = p
BY DEF Inductive, Current

(* A write of the state by the holder of the lock disturbs nobody.          *)
LEMMA OthersUndisturbed ==
  ASSUME Inductive, NEW p \in Procs, proc[p].at \in {"load", "markers", "advance"},
         Aside(p), accepted \subseteq accepted', NEW q \in Procs \ {p}
  PROVE  Checked(proc[q])' /\ Current(q)'
<1>1. proc'[q] = proc[q] /\ proc[q].at \notin {"load", "markers", "advance"}
  BY Alone DEF Aside
<1>2. Checked(proc[q])
  BY DEF Inductive
<1>3. Checked(proc[q])'
  BY <1>1, <1>2 DEF Checked
<1>4. Current(q)'
  BY <1>1 DEF Current
<1> QED
  BY <1>3, <1>4

LEMMA LoadStep ==
  ASSUME Inductive, NEW p \in Procs, load_or_migrate(p)
  PROVE  Inductive'
<1>1. /\ TypeOK /\ Checked(proc[p]) /\ proc[p].at = "load" /\ lock = p
      /\ Remembered
  BY DEF Inductive, load_or_migrate, Current
<1>2. UNCHANGED <<markers, lock, binary, notice, accepted, started, crashes, inherited>>
  BY DEF load_or_migrate, Unchanged
<1>3. ASSUME Load(p, state, "advance"), UNCHANGED <<state, present>>,
             present \/ markers = {}
      PROVE  Inductive'
  <2>1. state \in States /\ "advance" \in Stages
    BY <1>1 DEF TypeOK, Stages
  <2>2. /\ proc' \in [Procs -> Processes]
        /\ \A q \in Procs \ {p} : proc'[q] = proc[q]
        /\ proc'[p].at = "advance" /\ proc'[p].loaded = state
        /\ proc'[p].manifest = proc[p].manifest
        /\ proc'[p].recording = proc[p].recording
    BY <1>1, <1>3, <2>1, LoadRecord
  <2>3. Checked(proc[p])'
    BY <1>1, <1>2, <2>2 DEF Checked
  <2>4. Current(p)'
    BY <1>1, <1>2, <1>3, <2>2 DEF Current
  <2>5. Aside(p)
    BY <1>1, <1>2, <2>2 DEF Aside, TypeOK
  <2>6. notice' \in Versions \cup {NoNotice} /\ crashes' \in 0..MaxCrashes
    BY <1>1, <1>2 DEF TypeOK
  <2> QED
    BY <1>2, <1>3, <2>3, <2>4, <2>5, <2>6, QuietStep DEF Quiet
<1>4. CASE \E s \in read_state_file : Load(p, s, "advance") /\ UNCHANGED <<state, present>>
  BY <1>3, <1>4 DEF read_state_file
<1>5. CASE ~present /\ markers = {} /\ Load(p, NoState, "advance") /\ UNCHANGED <<state, present>>
  BY <1>1, <1>3, <1>5 DEF Remembered
<1>6. CASE ~present /\ markers # {} /\ write_state(Migrated) /\ Load(p, Migrated, "markers")
  <2> DEFINE e == Max(markers)
  <2>1. e \in markers /\ \A i \in markers : i <= e
    BY <1>1, <1>6, MarkersBounded, MaxOfMarkers, UpdateAssumption
  <2> HIDE DEF e
  <2> DEFINE r == [version |-> version_from_epoch(e), epoch |-> e, hash |-> NoHash]
  <2>2. r \in Releases /\ r.epoch = e
    BY <1>1, <2>1 DEF TypeOK, Releases
  <2>3. Migrated = [seen |-> r, installed |-> NoRelease]
    BY DEF Migrated, NoState, e
  <2>4. Migrated \in States /\ Migrated.seen = r /\ Migrated.installed = NoRelease
    BY <2>2, <2>3 DEF States
  <2>5. state' = Migrated /\ present' = TRUE /\ validate_state(Migrated)
    BY <1>6 DEF write_state
  <2>6. "markers" \in Stages
    BY DEF Stages
  <2>7. /\ proc' \in [Procs -> Processes]
        /\ \A q \in Procs \ {p} : proc'[q] = proc[q]
        /\ proc'[p].at = "markers" /\ proc'[p].loaded = Migrated
        /\ proc'[p].manifest = proc[p].manifest
        /\ proc'[p].recording = proc[p].recording
    BY <1>1, <1>6, <2>4, <2>6, LoadRecord
  <2>8. Checked(proc[p])'
    BY <1>1, <1>2, <2>7 DEF Checked
  <2>9. Current(p)'
    BY <1>1, <1>2, <2>5, <2>7 DEF Current
  <2>10. Aside(p)
    BY <1>1, <1>2, <2>7 DEF Aside, TypeOK
  <2>11. TypeOK'
    BY <1>1, <1>2, <2>4, <2>5, <2>7 DEF TypeOK, Processes
  <2>12. Remembered'
    <3>1. accepted' = {} /\ inherited' = markers
      BY <1>1, <1>2, <1>6 DEF Remembered
    <3>2. state'.seen = r /\ r # NoRelease /\ r.epoch = e
      BY <2>2, <2>4, <2>5, ReleaseType
    <3>3. validate_state(state)'
      BY <2>4, <2>5 DEF validate_state
    <3> QED
      BY <2>1, <2>5, <3>1, <3>2, <3>3 DEF Remembered
  <2>13. OneManifestPerEpoch' /\ InstalledIsVerified'
    BY <1>2 DEF Inductive, OneManifestPerEpoch, InstalledIsVerified
  <2>14. \A q \in Procs \ {p} : Checked(proc[q])' /\ Current(q)'
    BY <1>1, <1>2, <2>10, OthersUndisturbed
  <2> QED
    BY <2>8, <2>9, <2>11, <2>12, <2>13, <2>14 DEF Inductive
<1> QED
  BY <1>4, <1>5, <1>6 DEF load_or_migrate

LEMMA RemoveMarkerStep ==
  ASSUME Inductive, NEW p \in Procs, RemoveMarker(p)
  PROVE  Inductive'
<1>1. /\ TypeOK /\ Checked(proc[p]) /\ proc[p].at = "markers" /\ Current(p)
      /\ present /\ proc[p] \in Processes
  BY FieldTypes DEF Inductive, RemoveMarker, Current
<1>2. UNCHANGED <<state, present, lock, binary, notice, accepted, started, crashes, inherited>>
  BY DEF RemoveMarker, Unchanged
<1>3. CASE (\E e \in markers : markers' = markers \ {e}) /\ UNCHANGED proc
  <2>1. TypeOK' /\ markers' \subseteq markers
    BY <1>1, <1>2, <1>3 DEF TypeOK
  <2>2. Aside(p) /\ InstalledIsVerified'
    BY <1>1, <1>2, <1>3 DEF Aside, TypeOK, Processes, Inductive, InstalledIsVerified
  <2>3. Checked(proc[p])' /\ Current(p)'
    BY <1>1, <1>2, <1>3 DEF Checked, Current
  <2> QED
    BY <1>1, <1>2, <2>1, <2>2, <2>3, OthersKeep
<1>4. CASE markers = {} /\ Goto(p, "advance") /\ UNCHANGED markers
  <2> DEFINE new == [proc[p] EXCEPT !.at = "advance"]
  <2>1. /\ new \in Processes /\ new.at = "advance" /\ new.manifest = proc[p].manifest
        /\ new.recording = proc[p].recording /\ new.loaded = proc[p].loaded
    BY <1>1 DEF Processes, Stages
  <2>2. proc' = [proc EXCEPT ![p] = new]
    BY <1>4 DEF Goto
  <2> HIDE DEF new
  <2>3. /\ proc' \in [Procs -> Processes] /\ proc'[p] = new
        /\ \A q \in Procs \ {p} : proc'[q] = proc[q]
    BY <1>1, <2>1, <2>2, Becomes
  <2>4. Checked(proc[p])' /\ Current(p)'
    BY <1>1, <1>2, <2>1, <2>3 DEF Checked, Current
  <2>5. Aside(p)
    BY <1>1, <1>2, <2>3 DEF Aside, TypeOK
  <2>6. notice' \in Versions \cup {NoNotice} /\ crashes' \in 0..MaxCrashes
    BY <1>1, <1>2 DEF TypeOK
  <2> QED
    BY <1>2, <1>4, <2>4, <2>5, <2>6, QuietStep DEF Quiet
<1> QED
  BY <1>3, <1>4 DEF RemoveMarker

(* The seen release of the state that p has loaded.                         *)
LEMMA LoadedState ==
  ASSUME Inductive, NEW p \in Procs, proc[p].at = "advance"
  PROVE  /\ TypeOK /\ Checked(proc[p]) /\ lock = p /\ proc[p].loaded = state
         /\ Remembered /\ (present \/ inherited = {})
         /\ state \in States
         /\ state.seen \in Releases \cup {NoRelease}
         /\ state.installed \in Releases \cup {NoRelease}
         /\ present <=> state.seen # NoRelease
<1>1. TypeOK /\ Remembered /\ Checked(proc[p]) /\ Current(p)
  BY DEF Inductive
<1>2. state \in States
  BY <1>1 DEF TypeOK
<1> QED
  BY <1>1, <1>2 DEF Current, Remembered, States, NoState

LEMMA AcceptSeenStep ==
  ASSUME Inductive, NEW p \in Procs, accept_seen(p)
  PROVE  Inductive'
<1> DEFINE m == proc[p].manifest
           o == Release(m)
<1>1. /\ proc[p].at = "advance" /\ ~proc[p].recording
      /\ UNCHANGED <<markers, binary, started, crashes, inherited>>
  BY DEF accept_seen, Unchanged
<1>2. /\ TypeOK /\ Checked(proc[p]) /\ lock = p /\ proc[p].loaded = state
      /\ Remembered /\ (present \/ inherited = {})
      /\ state \in States /\ state.seen \in Releases \cup {NoRelease}
      /\ state.installed \in Releases \cup {NoRelease}
      /\ present <=> state.seen # NoRelease
  BY <1>1, LoadedState
<1>3. /\ m \in Manifests /\ o \in Releases /\ o.epoch = m.epoch /\ o.hash = m.hash
      /\ m.epoch \in Nat /\ m.hash # NoHash /\ Validated(m)
  BY <1>1, <1>2, FieldTypes DEF Checked
<1>4. CASE Fail(p) /\ UNCHANGED <<state, present, accepted>>
  BY <1>1, <1>4, FailStep DEF Quiet
<1>5. CASE /\ ~Refused(state.seen, o)
           /\ write_state([state EXCEPT !.seen = advance(@, o)])
           /\ accepted' = accepted \cup {m}
           /\ lock' = LockAfter(p)
           /\ Load(p, NoState, "compare")
           /\ UNCHANGED notice
  <2>1. /\ advance(state.seen, o) = o
        /\ state.seen # NoRelease =>
             /\ state.seen.epoch <= o.epoch
             /\ state.seen.epoch = o.epoch => state.seen.hash \in {NoHash, o.hash}
    BY <1>2, <1>3, <1>5, Advances
  <2>2. /\ state' \in States /\ state'.seen = o /\ state'.installed = state.installed
        /\ present' = TRUE /\ validate_state(state')
    BY <1>2, <1>3, <1>5, <2>1 DEF write_state, States
  <2>3. NoState \in States /\ "compare" \in Stages
    BY ReleaseType DEF Stages
  <2>4. /\ proc' \in [Procs -> Processes]
        /\ \A q \in Procs \ {p} : proc'[q] = proc[q]
        /\ proc'[p].at = "compare" /\ proc'[p].manifest = m
        /\ proc'[p].recording = proc[p].recording
    BY <1>2, <1>5, <2>3, LoadRecord
  <2>5. Checked(proc[p])' /\ Current(p)'
    BY <1>1, <1>3, <1>5, <2>4 DEF Checked, Current
  <2>6. Aside(p)
    BY <1>2, <1>5, <2>4 DEF Aside, LockAfter
  <2>7. TypeOK'
    BY <1>1, <1>2, <1>3, <1>5, <2>2, <2>4, <2>6 DEF TypeOK, Processes, Aside
  <2>8. \A n \in accepted : n.epoch \in Nat /\ n.hash # NoHash
    BY <1>2, UpdateAssumption DEF TypeOK
  <2>9. ASSUME NEW n \in accepted
        PROVE  /\ Validated(n) /\ n.epoch <= o.epoch
               /\ n.epoch = o.epoch => n.hash = o.hash
    <3>1. present
      BY <1>2, <2>9 DEF Remembered
    <3>2. state.seen \in Releases /\ state.seen.epoch \in Nat
      BY <1>2, <3>1, ReleaseType
    <3>3. /\ Validated(n) /\ n.epoch <= state.seen.epoch
          /\ n.epoch = state.seen.epoch => n.hash = state.seen.hash
      BY <1>2 DEF Remembered
    <3> QED
      BY <1>2, <1>3, <2>1, <2>8, <3>1, <3>2, <3>3
  <2>10. Remembered'
    <3>1. \A i \in inherited : i <= o.epoch
      <4>1. CASE present
        <5>1. state.seen.epoch \in Nat /\ state.seen.epoch <= o.epoch
          BY <1>2, <2>1, <4>1, ReleaseType
        <5>2. inherited \subseteq Nat
          BY <1>2, MarkersBounded
        <5> QED
          BY <1>2, <1>3, <4>1, <5>1, <5>2 DEF Remembered
      <4> QED
        BY <1>2, <4>1
    <3>2. \A n \in accepted' : /\ Validated(n) /\ n.epoch <= o.epoch
                               /\ n.epoch = o.epoch => n.hash = o.hash
      BY <1>3, <1>5, <2>9
    <3>3. o # NoRelease
      BY <1>3, ReleaseType
    <3> QED
      BY <1>1, <2>2, <3>1, <3>2, <3>3 DEF Remembered
  <2>11. OneManifestPerEpoch'
    BY <1>3, <1>5, <2>9 DEF Inductive, OneManifestPerEpoch
  <2>12. InstalledIsVerified'
    BY <1>1, <1>5 DEF Inductive, InstalledIsVerified
  <2>13. \A q \in Procs \ {p} : Checked(proc[q])' /\ Current(q)'
    BY <1>1, <1>5, <2>6, OthersUndisturbed
  <2> QED
    BY <2>5, <2>7, <2>10, <2>11, <2>12, <2>13 DEF Inductive
<1> QED
  BY <1>2, <1>4, <1>5 DEF accept_seen

LEMMA RecordInstalledStep ==
  ASSUME Inductive, NEW p \in Procs, record_installed(p)
  PROVE  Inductive'
<1> DEFINE m == proc[p].manifest
           o == Release(m)
           raises == state.seen = NoRelease \/ o.epoch >= state.seen.epoch
           next == [seen |-> IF raises THEN advance(state.seen, o) ELSE state.seen,
                    installed |-> advance(state.installed, o)]
<1>1. /\ proc[p].at = "advance" /\ proc[p].recording /\ End(p)
      /\ UNCHANGED <<markers, binary, notice, accepted, started, crashes, inherited>>
  BY DEF record_installed, Unchanged
<1>2. /\ TypeOK /\ Checked(proc[p]) /\ lock = p /\ proc[p].loaded = state
      /\ Remembered /\ (present \/ inherited = {})
      /\ state \in States /\ state.seen \in Releases \cup {NoRelease}
      /\ state.installed \in Releases \cup {NoRelease}
      /\ present <=> state.seen # NoRelease
  BY <1>1, LoadedState
<1>3. /\ m \in Manifests /\ o \in Releases /\ o.epoch = m.epoch /\ o.hash = m.hash
      /\ m.epoch \in Nat /\ m.hash # NoHash /\ m \in accepted
  BY <1>1, <1>2, FieldTypes DEF Checked
<1>4. /\ notice' \in Versions \cup {NoNotice} /\ crashes' \in 0..MaxCrashes
  BY <1>1, <1>2 DEF TypeOK
<1>5. CASE UNCHANGED <<state, present>>
  BY <1>1, <1>4, <1>5, EndStep DEF Quiet
<1>6. CASE /\ ~(raises /\ Refused(state.seen, o)) /\ ~Refused(state.installed, o)
           /\ write_state(next)
  <2>1. /\ present /\ state.seen \in Releases /\ state.seen.epoch \in Nat
        /\ m.epoch <= state.seen.epoch
        /\ m.epoch = state.seen.epoch => m.hash = state.seen.hash
    BY <1>2, <1>3, ReleaseType DEF Remembered
  <2>2. advance(state.installed, o) = o
    BY <1>2, <1>3, <1>6, Advances
  <2>3. raises => advance(state.seen, o) = o
    BY <1>2, <1>3, <1>6, Advances
  <2>4. /\ next.seen \in Releases /\ next.seen.epoch = state.seen.epoch
        /\ next.seen.hash = state.seen.hash /\ next.installed = o
    <3>1. next.installed = o
      BY <2>2
    <3>2. CASE raises
      <4>1. next.seen = o
        BY <2>3, <3>2
      <4>2. state.seen # NoRelease
        BY <2>1, ReleaseType
      <4>3. o.epoch >= state.seen.epoch
        BY <3>2, <4>2
      <4>4. o.epoch = state.seen.epoch
        BY <1>3, <2>1, <4>3
      <4> HIDE DEF next
      <4> QED
        BY <1>3, <2>1, <3>1, <4>1, <4>4
    <3>3. CASE ~raises
      <4>1. next.seen = state.seen
        BY <3>3
      <4> HIDE DEF next
      <4> QED
        BY <2>1, <3>1, <4>1
    <3> QED
      BY <3>2, <3>3
  <2>5. next \in States
    BY <1>3, <2>2, <2>4 DEF States
  <2> HIDE DEF next
  <2>6. state' = next /\ present' = TRUE /\ validate_state(next)
    BY <1>6 DEF write_state
  <2>7. Aside(p) /\ Checked(proc[p])' /\ Current(p)'
    BY <1>1, EndRecord
  <2>8. TypeOK'
    BY <1>1, <1>2, <2>5, <2>6, <2>7 DEF TypeOK, Aside, Processes
  <2>9. Remembered'
    <3>1. next.seen # NoRelease
      BY <2>4, ReleaseType
    <3> QED
      BY <1>1, <1>2, <2>1, <2>4, <2>6, <3>1 DEF Remembered
  <2>10. OneManifestPerEpoch' /\ InstalledIsVerified'
    BY <1>1 DEF Inductive, OneManifestPerEpoch, InstalledIsVerified
  <2>11. \A q \in Procs \ {p} : Checked(proc[q])' /\ Current(q)'
    BY <1>1, <2>7, OthersUndisturbed
  <2> QED
    BY <2>7, <2>8, <2>9, <2>10, <2>11 DEF Inductive
<1> QED
  BY <1>2, <1>5, <1>6 DEF record_installed

LEMMA NextInductive ==
  ASSUME Inductive, [Next]_vars
  PROVE  Inductive'
<1>1. CASE UNCHANGED vars
  BY <1>1 DEF Inductive, vars, TypeOK, Checked, Current, Remembered,
     OneManifestPerEpoch, InstalledIsVerified
<1>2. CASE Next
  BY <1>2, StartsStep, FetchStep, AcquireLockStep, LoadStep, RemoveMarkerStep,
     AcceptSeenStep, CompareStep, PromptStep, DownloadStep, ReplaceStep,
     RecordInstalledStep, CrashStep DEF Next
<1> QED
  BY <1>1, <1>2

----------------------------------------------------------------------------
(* What the three properties rest on: a command works on what it has        *)
(* verified and accepted, and what it loaded under the lock is what it      *)
(* replaces.                                                                *)
THEOREM Invariance == Spec => []Inductive
<1>1. Init => Inductive
  BY InitInductive
<1>2. Inductive /\ [Next]_vars => Inductive'
  BY NextInductive
<1> QED
  BY <1>1, <1>2, PTL DEF Spec

(* The state file, the markers and every command in flight keep their type. *)
THEOREM TypesCorrect == Spec => []TypeOK
<1>1. Inductive => TypeOK
  BY DEF Inductive
<1> QED
  BY <1>1, Invariance, PTL

(* Whatever was accepted on this machine, by this version or by one that    *)
(* still kept a file per epoch, stays at or below what accept_seen compares *)
(* with, through every migration, crash and interleaving.                   *)
THEOREM NoReplay == Spec => []FloorKept
<1>1. Inductive => FloorKept
  <2> SUFFICES ASSUME Inductive
               PROVE  FloorKept
    OBVIOUS
  <2>1. Remembered /\ TypeOK
    BY DEF Inductive
  <2>2. CASE present
    BY <2>1, <2>2 DEF FloorKept, Floor, Remembered
  <2>3. CASE ~present
    <3>1. inherited \subseteq Nat /\ markers = inherited /\ accepted = {}
      BY <2>1, <2>3, MarkersBounded DEF Remembered
    <3>2. Floor = markers
      BY <2>3 DEF Floor
    <3> QED
      BY <2>3, <3>1, <3>2 DEF FloorKept
  <2> QED
    BY <2>2, <2>3
<1> QED
  BY <1>1, Invariance, PTL

(* No two manifests of one epoch are ever accepted: the signer cannot show  *)
(* this machine one release twice.                                          *)
THEOREM NoEquivocation == Spec => []OneManifestPerEpoch
<1>1. Inductive => OneManifestPerEpoch
  BY DEF Inductive
<1> QED
  BY <1>1, Invariance, PTL

(* The binary in place is the artifact of a manifest that was signed,       *)
(* validated and accepted before it was downloaded.                         *)
THEOREM OnlyVerifiedInstalled == Spec => []InstalledIsVerified
<1>1. Inductive => InstalledIsVerified
  BY DEF Inductive
<1> QED
  BY <1>1, Invariance, PTL
=============================================================================
