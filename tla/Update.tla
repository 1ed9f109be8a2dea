--------------------------------- MODULE Update ---------------------------------
(***************************************************************************)
(* How a machine moves from one release to the next: thorax update, the    *)
(* installer's bootstrap and the daily notice (thorax-update).             *)
(*                                                                         *)
(* A signed manifest is fetched, verified, and remembered before anything  *)
(* it says is used; the binary is replaced afterwards and recorded after   *)
(* that.  What is remembered is the highest release seen and the highest   *)
(* one installed, in one file under one lock; older versions left a file   *)
(* per epoch, which the first reader migrates.  The release transport is   *)
(* not trusted: it may serve any manifest that was ever signed, and any    *)
(* bytes for an artifact.  A process may die between any two writes.       *)
(***************************************************************************)
EXTENDS Naturals, FiniteSets, FiniteSetsExt

CONSTANTS Procs,
          Manifests,    \* what the transport may serve
          Bytes,        \* what it may serve for an artifact
          Platform,     \* the target triple of this machine
          FirstVersion, \* the version installed at first
          OldMarkers,   \* the epochs that older versions may have left as files
          MaxEpoch,     \* the largest epoch that fits (u64::MAX)
          MaxCommands,  \* how many commands are started in a behaviour
          MaxCrashes    \* how many processes die in a behaviour

CONSTANTS NoRelease, NoHash, NoNotice, Free

VARIABLES state,     \* update-state.cord, NoRelease fields while empty
          present,   \* whether the file exists
          markers,   \* the epochs with a file in release-epochs/
          lock,      \* who holds update-state.lock
          binary,    \* the installed release: its version and its bytes
          notice,    \* passive-check.txt
          proc,      \* the commands in flight
          started, crashes,
          accepted,  \* the manifests accepted so far (history variable)
          inherited  \* the epochs that older versions had accepted (history variable)

vars == <<state, present, markers, lock, binary, notice, proc, started, crashes,
          accepted, inherited>>

----------------------------------------------------------------------------
(* Versions and epochs. *)

Versions == {m.version : m \in Manifests} \cup {FirstVersion}

VersionLess(v, w) ==
    \/ v[1] < w[1]
    \/ v[1] = w[1] /\ v[2] < w[2]
    \/ v[1] = w[1] /\ v[2] = w[2] /\ v[3] < w[3]

release_epoch(v) == v[1] * 1000000 + v[2] * 1000 + v[3]
EpochDefined(v) == v[2] < 1000 /\ v[3] < 1000 /\ release_epoch(v) <= MaxEpoch

version_from_epoch(e) == <<e \div 1000000, (e % 1000000) \div 1000, e % 1000>>

----------------------------------------------------------------------------
(* What is accepted. *)

Release(m) == [version |-> m.version, epoch |-> m.epoch, hash |-> m.hash]
Releases == {Release(m) : m \in Manifests}
            \cup {[version |-> version_from_epoch(e), epoch |-> e, hash |-> NoHash] :
                     e \in UNION OldMarkers}
States == [seen : Releases \cup {NoRelease}, installed : Releases \cup {NoRelease}]
NoState == [seen |-> NoRelease, installed |-> NoRelease]

ASSUME UpdateAssumption ==
    /\ MaxEpoch \in Nat /\ MaxCommands \in Nat /\ MaxCrashes \in Nat
    /\ Manifests # {}
    /\ \A m \in Manifests : m.epoch \in Nat /\ m.hash # NoHash
    /\ OldMarkers \subseteq SUBSET (0..MaxEpoch)
    /\ NoRelease \notin Releases /\ Free \notin Procs

\* The one artifact of this platform that the updater can install.
CliArtifacts(m) == {a \in m.artifacts : a.kind = "thorax-cli" /\ a.target = Platform}
Installable(m) ==
    /\ Cardinality(CliArtifacts(m)) = 1
    /\ \A a \in CliArtifacts(m) : a.format \in {"raw", "gz"}
Artifact(m) == CHOOSE a \in CliArtifacts(m) : TRUE

validate_complete_manifest(m) ==
    /\ EpochDefined(m.version) /\ m.epoch = release_epoch(m.version)
    /\ ~m.future
    /\ m.wellformed
    /\ Installable(m)

verify_signed_manifest(m) == m.signed

Validated(m) == verify_signed_manifest(m) /\ validate_complete_manifest(m)

\* What is remembered after a release was offered, and whether it is refused.
Rollback(remembered, offered) == remembered # NoRelease /\ offered.epoch < remembered.epoch

\* Mutant: one epoch may have many manifests.
Equivocation_version(remembered, offered) ==
    /\ remembered # NoRelease /\ offered.epoch = remembered.epoch
    /\ offered.version # remembered.version

Equivocation(remembered, offered) ==
    /\ remembered # NoRelease /\ offered.epoch = remembered.epoch
    /\ \/ offered.version # remembered.version
       \/ remembered.hash # NoHash /\ offered.hash # remembered.hash

Refused(remembered, offered) ==
    Rollback(remembered, offered) \/ Equivocation(remembered, offered)

advance(remembered, offered) ==
    IF remembered = NoRelease \/ offered.epoch > remembered.epoch
    THEN offered
    ELSE [remembered EXCEPT !.hash = IF @ = NoHash THEN offered.hash ELSE @]

validate_state(s) ==
    s.installed # NoRelease =>
       s.seen # NoRelease /\ s.installed.epoch <= s.seen.epoch

\* read_state_file: none, or one that passes; one that does not is an error.
read_state_file == {s \in {state} : present /\ validate_state(s)}

\* write_state replaces the file as a whole, and reads it back.
write_state(s) == validate_state(s) /\ state' = s /\ present' = TRUE

----------------------------------------------------------------------------
(* The commands. *)

Commands == {"check", "update", "bootstrap", "passive"}
Stages == {"idle", "fetch", "lock", "load", "markers", "advance", "compare", "prompt",
           "download", "replace", "record"}

\* current: the version compiled into the running process; sure: nobody has to be
\* asked any more; recording: the lock is for record_installed; got: the verified bytes;
\* loaded: the state read under the lock.
Idle == [at |-> "idle", cmd |-> "check", current |-> FirstVersion, sure |-> FALSE,
         recording |-> FALSE, manifest |-> CHOOSE m \in Manifests : TRUE,
         got |-> NoHash, loaded |-> NoState]

Init ==
    /\ state = NoState
    /\ present = FALSE
    /\ markers \in OldMarkers
    /\ lock = Free
    /\ binary = [version |-> FirstVersion, digest |-> NoHash]
    /\ notice = NoNotice
    /\ proc = [p \in Procs |-> Idle]
    /\ started = 0 /\ crashes = 0
    /\ accepted = {}
    /\ inherited = markers

Goto(p, stage) == proc' = [proc EXCEPT ![p].at = stage]
LockAfter(p) == IF lock = p THEN Free ELSE lock

\* The end of the command.
End(p) ==
    /\ proc' = [proc EXCEPT ![p] = Idle]
    /\ lock' = LockAfter(p)

write_passive_cache(text) == notice' = text

\* An error: the passive check swallows it and remembers that there is no news.
Fail(p) ==
    /\ End(p)
    /\ IF proc[p].cmd = "passive" THEN write_passive_cache(NoNotice) ELSE UNCHANGED notice

Unchanged == UNCHANGED <<started, crashes, inherited>>
Nothing == UNCHANGED <<state, present, markers, binary, notice, accepted>> /\ Unchanged

\* thorax update [--check]: the process runs the installed binary.
Start(p, cmd, current) ==
    /\ proc[p].at = "idle" /\ started < MaxCommands
    /\ started' = started + 1
    /\ proc' = [proc EXCEPT ![p] = [Idle EXCEPT !.at = "fetch", !.cmd = cmd,
                                              !.current = current, !.sure = cmd # "update"]]
    /\ UNCHANGED <<state, present, markers, lock, binary, notice, crashes, accepted,
                   inherited>>

cmd_update(p, cmd) == cmd \in {"check", "update"} /\ Start(p, cmd, binary.version)

\* The installer's bootstrap has a version of its own, the least it installs.
bootstrap(p) == \E v \in Versions : Start(p, "bootstrap", v)

\* A day-old notice is asked for again; a younger one is shown as it stands.
passive_update_notice(p) == Start(p, "passive", binary.version)

\* fetch_latest_manifest: the network may fail, the signature or the content be bad.
fetch_latest_manifest(p) ==
    /\ proc[p].at = "fetch"
    /\ \/ Fail(p)
       \/ \E m \in Manifests :
             /\ Validated(m)
             /\ proc' = [proc EXCEPT ![p].at = "lock", ![p].manifest = m]
             /\ UNCHANGED <<lock, notice>>
    /\ UNCHANGED <<state, present, markers, binary, accepted>> /\ Unchanged

\* Ten seconds, then the command fails.
acquire_lock(p) ==
    /\ proc[p].at = "lock"
    /\ \/ /\ lock = Free
          /\ lock' = p
          /\ Goto(p, "load")
          /\ UNCHANGED notice
       \/ /\ lock # Free
          /\ Fail(p)
    /\ UNCHANGED <<state, present, markers, binary, accepted>> /\ Unchanged

\* Mutant: the migrated epoch is filed under the version that is installed.
Migrated_installed ==
    [NoState EXCEPT !.seen = [version |-> binary.version, epoch |-> Max(markers),
                              hash |-> NoHash]]

\* What the old files say was accepted: the highest epoch, and so its version.
Migrated == [NoState EXCEPT !.seen = [version |-> version_from_epoch(Max(markers)),
                                      epoch |-> Max(markers), hash |-> NoHash]]

Load(p, s, stage) == proc' = [proc EXCEPT ![p].at = stage, ![p].loaded = s]

\* The state file decides; the old files are migrated only when there is none.
load_or_migrate(p) ==
    /\ proc[p].at = "load"
    /\ \/ /\ \E s \in read_state_file : Load(p, s, "advance")
          /\ UNCHANGED <<state, present>>
       \/ /\ ~present /\ markers = {}
          /\ Load(p, NoState, "advance")
          /\ UNCHANGED <<state, present>>
       \/ /\ ~present /\ markers # {}
          /\ write_state(Migrated)
          /\ Load(p, Migrated, "markers")
    /\ UNCHANGED <<markers, lock, binary, notice, accepted>> /\ Unchanged

\* The migrated files are removed one by one.
RemoveMarker(p) ==
    /\ proc[p].at = "markers"
    /\ \/ /\ \E e \in markers : markers' = markers \ {e}
          /\ UNCHANGED proc
       \/ /\ markers = {}
          /\ Goto(p, "advance")
          /\ UNCHANGED markers
    /\ UNCHANGED <<state, present, lock, binary, notice, accepted>> /\ Unchanged

\* Mutant: the release is remembered once it is installed.
accept_seen_memory(p) ==
    /\ proc[p].at = "advance" /\ ~proc[p].recording
    /\ ~Refused(proc[p].loaded.seen, Release(proc[p].manifest))
    /\ accepted' = accepted \cup {proc[p].manifest}
    /\ lock' = LockAfter(p)
    /\ Load(p, NoState, "compare")
    /\ UNCHANGED <<state, present, notice, markers, binary>> /\ Unchanged

\* accept_seen: what is written is the state read under the lock, advanced.
accept_seen(p) ==
    LET offered == Release(proc[p].manifest)
        read == proc[p].loaded
    IN  /\ proc[p].at = "advance" /\ ~proc[p].recording
        /\ \/ /\ Refused(read.seen, offered)
              /\ Fail(p)
              /\ UNCHANGED <<state, present, accepted>>
           \/ /\ ~Refused(read.seen, offered)
              /\ write_state([read EXCEPT !.seen = advance(@, offered)])
              /\ accepted' = accepted \cup {proc[p].manifest}
              /\ lock' = LockAfter(p)
              /\ Load(p, NoState, "compare")
              /\ UNCHANGED notice
        /\ UNCHANGED <<markers, binary>> /\ Unchanged

\* What the command does with a release that was accepted.  Nothing is left to do for
\* an older one, for a question that was only asked, or before the user was.
Compare(p) ==
    LET q == proc[p]
        latest == q.manifest.version
        newer == VersionLess(q.current, latest)
        done == \/ VersionLess(latest, q.current)
                \/ ~newer /\ q.cmd = "update" /\ ~q.sure
                \/ newer /\ q.cmd = "check"
        same == ~newer /\ q.cmd \in {"check", "update"}
    IN  /\ q.at = "compare"
        /\ \/ /\ q.cmd = "passive"
              /\ write_passive_cache(IF newer THEN latest ELSE NoNotice)
              /\ End(p)
           \/ /\ q.cmd # "passive" /\ done
              /\ End(p) /\ UNCHANGED notice
           \/ /\ q.cmd # "passive" /\ ~done /\ same
              /\ proc' = [proc EXCEPT ![p].at = "lock", ![p].recording = TRUE]
              /\ UNCHANGED <<lock, notice>>
           \/ /\ q.cmd # "passive" /\ ~done /\ ~same
              /\ Goto(p, IF q.sure THEN "download" ELSE "prompt")
              /\ UNCHANGED <<lock, notice>>
        /\ UNCHANGED <<state, present, markers, binary, accepted>> /\ Unchanged

\* The user agrees to the version on the screen, and the manifest is fetched again.
Prompt(p) ==
    /\ proc[p].at = "prompt"
    /\ \/ End(p)
       \/ /\ proc' = [proc EXCEPT ![p].at = "fetch", ![p].sure = TRUE]
          /\ UNCHANGED lock
    /\ Nothing

\* What is put in place: the artifact, or what it unpacks to, which its digest fixes.
extract_installable_artifact(artifact, bytes) ==
    IF artifact.format \in {"raw", "gz"} THEN {bytes.digest} ELSE {}

\* Mutant: any bytes of the right length.
verify_artifact_bytes_size(m, bytes) == bytes.size = Artifact(m).size

verify_artifact_bytes(m, bytes) ==
    bytes.size = Artifact(m).size /\ bytes.digest = Artifact(m).digest

\* Bounded by the signed size; extraction may fail.
Download(p) ==
    /\ proc[p].at = "download"
    /\ \/ End(p)
       \/ /\ \E bytes \in Bytes :
                /\ verify_artifact_bytes(proc[p].manifest, bytes)
                /\ \E got \in extract_installable_artifact(Artifact(proc[p].manifest), bytes) :
                      proc' = [proc EXCEPT ![p].at = "replace", ![p].got = got]
          /\ UNCHANGED lock
    /\ Nothing

\* self_replace, or the bootstrap's rename in the install directory; either may fail.
Replace(p) ==
    /\ proc[p].at = "replace"
    /\ \/ End(p) /\ UNCHANGED binary
       \/ /\ binary' = [version |-> proc[p].manifest.version, digest |-> proc[p].got]
          /\ proc' = [proc EXCEPT ![p].at = "lock", ![p].recording = TRUE]
          /\ UNCHANGED lock
    /\ UNCHANGED <<state, present, markers, notice, accepted>> /\ Unchanged

\* A release below the highest one seen leaves that alone; one below the highest one
\* installed is an error, after the fact.
record_installed(p) ==
    LET offered == Release(proc[p].manifest)
        read == proc[p].loaded
        raises == read.seen = NoRelease \/ offered.epoch >= read.seen.epoch
        refused == \/ raises /\ Refused(read.seen, offered)
                   \/ Refused(read.installed, offered)
    IN  /\ proc[p].at = "advance" /\ proc[p].recording
        /\ \/ refused /\ UNCHANGED <<state, present>>
           \/ /\ ~refused
              /\ write_state([seen |-> IF raises THEN advance(read.seen, offered) ELSE read.seen,
                              installed |-> advance(read.installed, offered)])
        /\ End(p)
        /\ UNCHANGED <<markers, binary, notice, accepted>> /\ Unchanged

\* A process dies, or the machine does.
Crash(p) ==
    /\ proc[p].at # "idle" /\ crashes < MaxCrashes
    /\ crashes' = crashes + 1
    /\ End(p)
    /\ UNCHANGED <<state, present, markers, binary, notice, started, accepted, inherited>>

Next ==
    \E p \in Procs :
       \/ \E cmd \in Commands : cmd_update(p, cmd)
       \/ bootstrap(p) \/ passive_update_notice(p)
       \/ fetch_latest_manifest(p) \/ acquire_lock(p) \/ load_or_migrate(p)
       \/ RemoveMarker(p) \/ accept_seen(p) \/ Compare(p) \/ Prompt(p) \/ Download(p)
       \/ Replace(p) \/ record_installed(p) \/ Crash(p)

Spec == Init /\ [][Next]_vars

----------------------------------------------------------------------------
(* Properties. *)

Digests == {b.digest : b \in Bytes} \cup {NoHash}

TypeOK ==
    /\ state \in States
    /\ present \in BOOLEAN
    /\ markers \subseteq UNION OldMarkers
    /\ lock \in Procs \cup {Free}
    /\ binary \in [version : Versions, digest : Digests]
    /\ notice \in Versions \cup {NoNotice}
    /\ proc \in [Procs -> [at : Stages, cmd : Commands, current : Versions, sure : BOOLEAN,
                           recording : BOOLEAN, manifest : Manifests, got : Digests,
                           loaded : States]]
    /\ started \in 0..MaxCommands /\ crashes \in 0..MaxCrashes
    /\ accepted \subseteq Manifests
    /\ inherited \subseteq UNION OldMarkers

\* The floor against replays is never lost, whichever write a crash comes after and
\* however commands interleave: whatever was accepted on this machine, by this version
\* or an older one, is at or below what the next command will compare with.
Floor == IF present THEN {state.seen.epoch} ELSE markers
FloorKept ==
    /\ \A m \in accepted : \E e \in Floor : m.epoch <= e
    /\ \A i \in inherited : \E e \in Floor : i <= e
    /\ present => validate_state(state)

\* Two manifests that claim one epoch are never both accepted.
OneManifestPerEpoch ==
    \A m, n \in accepted : m.epoch = n.epoch => m.hash = n.hash

\* What is in place was signed, accepted and downloaded unaltered.
InstalledIsVerified ==
    binary.digest # NoHash =>
       \E m \in accepted :
          /\ Validated(m)
          /\ m.version = binary.version /\ Artifact(m).digest = binary.digest
=============================================================================
