# Formal model of Thorax

TLA+ modules, TLC runs and TLAPS proofs about Thorax, the secrets manager of
this repository. Paths below are relative to `src/crates/` unless they start
with `src/`. `PROJECT.json` maps every definition that models code to the lines
it models.

## 1. The system

Thorax keeps secrets in a *vault*: one file in a git repository holding a set
of individually signed, append-only records. Every client validates the vault
by itself. A machine's memory of what it has verified (the *ratchet*) lives
outside the repository and is what detects a rolled-back vault.

| Component | State | Operations | Where it gets hard |
|---|---|---|---|
| `thorax-core/authz.rs` | none (pure) | matching, subsumption, authority queries, delegation | soundness of subsumption for every pair of matchers |
| `thorax-core/validate/` | none (pure) | `validate_v1`: key resolution, authority fixpoint, last-writer-wins, rollback detection, secret queries | two passes under two authorities; contested ties; admission depends on the whole vault |
| `thorax-core/ratchet.rs` | watermark per record key, origins, format version | `apply_update` | monotone, shared by all worktrees |
| `thorax-core/merge.rs` | none (pure) | three-way union | ties, counters, unauthorised records |
| `thorax-store` | vault file, ratchet file, journal, lock files | atomic replace, compare, advisory locks | crash between two files, contended locks |
| `thorax-ops/session.rs`, `transaction.rs` | session snapshot: vault bytes, ratchet, report | load, absorb, reload, commit, recover, abandon | unlocked reads used under a lock, crash recovery, several processes and worktrees |
| `thorax-ops/secrets.rs`, `principals.rs`, `reconcile.rs`, `conflicts.rs`, `trust.rs` | through the session | set, delete, move, grant, revoke, converge, resolve, accept, reset | checks on a snapshot, effects on a reloaded vault |
| `thorax-ops/invite.rs`, `enrollment.rs` | journal, ratchet baseline | invite, claim, join, approve | first contact of a machine, plans that go stale |
| `thorax-keychain` | per root: sealed identities, the current user; two older layouts | store, select, unlock, migrate | migrations with a crash between any two files, two locks, an older seal shadowing a newer one |
| `thorax-kubernetes-controller` | identity, rollback state and projected Secrets, join requests and approvals, status, Lease | reconcile a vault, reconcile a projection, lead | every API call is a point where others act: stale caches, compare-and-swap, overlapping leaders, lost objects |
| `thorax-cli/kubernetes.rs` | none of its own | approve, publish | an approval and a vault commit that cannot be one step |
| `thorax-update` | the release seen and the release installed, a cached notice, the binary | update, check, bootstrap, notice | an untrusted transport, two installers at once, a crash around the replacement, the migration of older markers |
| `thorax-tui` | the `Model`: session tier, gates, modals, reveals, timers | messages and effects | relock, idle and clipboard timers against effects that fail, a vault that changes on disk |
| `thorax-cli`, `thorax-frontend` | a command in flight: session, resolved user, confirmation, passphrase | every command on the vault, reads, the merge driver | what was checked before a prompt is used after it; git merges in between |
| `thorax-run`, `thorax-sdk` | the injected environment; a session held open | select, derive names, spawn; get, set, move, fields | all variables or none; a report that ages while the vault changes |
| `thorax-py`, `thorax-node` | none of their own | marshal calls of the SDK | order of whole calls |

Components interact through files. Processes in several worktrees of one
repository share one ratchet, one journal and one root lock; git changes vault
files at any moment and takes no lock; members exchange records only through
git. In a cluster, the controller, the commands that feed it and everybody else
meet in the API server: there is no lock but the Lease, a cache trails every
object, and a write is refused when the resourceVersion it carries has passed.
`PROJECT.json` lists, under `hazards`, what in this code is hard to test,
each at the line where it bites.

## 2. Modules

| Module | Models | Kind |
|---|---|---|
| `Authz` | `thorax-core/src/authz.rs` | pure operators |
| `Delegation` | who can come to hold what through `grant_permission` and `add_group_member` | state machine over `Authz` |
| `AuthorityProofs` | theorems about `Delegation`, `Commands` and the operators of `Authz` and `Effective` | proofs |
| `AtomicStore` | what a transaction promises: vault and rollback memory change in one step | abstract specification |
| `Transaction` | journal, ratchet and vault files, root lock, sessions, crashes, git | state machine, refines `AtomicStore` |
| `TransactionProofs` | theorems about `Transaction`, and its refinement of `AtomicStore` | proofs |
| `Validate` | `validate_v1` and the queries on its report | pure operators |
| `VaultLog` | the operations of `thorax-ops` on a vault shared through git | state machine over `Validate` |
| `VaultLogProofs` | theorems about `VaultLog` and the operators of `Validate` | proofs |
| `Effective` | `validate_v1` for every kind of record: users, entry points, groups, memberships, grants, handles, secrets, and the authority fixpoint | pure operators over `Authz` |
| `Commands` | the commands of the client, `thorax run` and SDK sessions, step by step, on several machines | state machine over `Effective` |
| `Enrollment` | invitations, claims, CI bootstraps, join requests and approvals | state machine |
| `EnrollmentProofs` | theorems about `Enrollment` | proofs |
| `Keychain` | the files of the keychain, their migrations and the commands that go through them | state machine |
| `KeychainProofs` | theorems about `Keychain` | proofs |
| `Update` | release manifests, remembered releases, replacement of the binary | state machine |
| `UpdateProofs` | theorems about `Update` | proofs |
| `TuiSession` | the interactive client around its session | state machine |
| `TuiSessionProofs` | theorems about `TuiSession` | proofs |
| `Controller` | the Kubernetes controller's two reconcilers, its leaders, and `thorax kubernetes approve` and `publish` | state machine |
| `ControllerProofs` | theorems about `Controller` | proofs |
| `MCDelegation`, `MCTransaction`, `MCVaultLog`, `MCCommands`, `MCEnrollment`, `MCKeychain`, `MCUpdate`, `MCTuiSession`, `MCController` | instances for TLC | |

Definitions whose comment starts with `Mutant:` are deliberately wrong variants
of the definition that follows them. No specification uses them; each is put in
the place of the definition it varies to see that the property it is meant to
break is really sensitive to the code.

### Authz and Delegation

A selector is a tuple matcher and a label matcher per label key; `"none"` stands
for a key the code's label list does not mention. The structural checks of
`validate/structure.rs` (no empty prefix, no empty `In`, no empty `grantable`)
are part of the sets. Lists that the code keeps sorted and free of duplicates
are sets. `Delegation` starts from an arbitrary assignment of authority and lets
anybody confer whatever `can_create_permission` accepts, by a grant
(`delegate_permission`) or by a group (`confer_group`). Nothing is revoked,
which is the worst case for the property.

### Transaction

One process is one command: it loads (`LoadStart`, `RecoverLock`, `LoadRead`),
absorbs the raises of a clean report (`Absorb...`), then commits, prepares a
commit without a lock and carries it out later (invites and join approvals),
accepts a rollback, resets, abandons or claims. `complete_transaction_locked` is
split at every file operation: classification with the ratchet write, the vault
write, verification with the removal of the journal. A process may die at any
program point; the operating system drops its lock and whatever it wrote stays.
`GitEdit` may fall between any two steps.

A vault file is one of a set of byte images. What the module needs of an image
is given by constants: its admitted watermarks, whether it validates without
issues, and which images an update may append to it. A session carries the
ratchet it holds and, separately, the ratchet its report was made against,
because the code lets the two differ.

The root lock alone orders the processes: every acquirer of the workspace lock
holds it already. A step the code makes under the shared lock is one action that
waits until the exclusive lock is free.

### Validate and VaultLog

Records are secret values (with the recipients of the sealed payload), secret
deletions, grants and grant deletions. Only the root issues grants, each of
write over every secret, so the authority fixpoint needs one round; what chains
of delegation can do is the subject of `Delegation`. Counters are counted from
the maximum of the genesis records. `validate_v1` keeps the two passes of the
code apart: `admitted_watermarks` under the authority without rollback
exclusions, everything shown under the one with them. `Effective` does the same
for whole vaults; what the small vocabulary buys `VaultLog` is every record at
every counter from every signer, and every vault git can produce from them.

Operations check and read from the session's snapshot and commit onto the
reloaded worktree, in one action each, except where the code makes two commits
(`RelabelSecret` then `Vacate`; an access addition then `ConvergeReaders`). A
commit is atomic here, which is what `Transaction` shows of it. `ForeignCommit`
lets other members add any record they can sign, at any counter.
`cmd_merge_driver` merges two versions with a base and runs the check that the
merged vault is not rolled back; `cmd_conflicts_resolve`, `cmd_conflicts_accept`
and `cmd_trust_reset` are the three ways out of a conflict.

### Effective and Commands

A vault is a set of records, and `Effective!validate_v1` gives its report in the
steps of the code: keys of signers, the authority fixpoint with at most
`MaxRounds` rounds, deletions admitted one at a time and for good, a last writer
per key with contested ties, watermarks against the ratchet, and the second
resolution without the keys that fell behind. Selectors, matchers and grants are
those of `Authz`.

A command is a record in `cmd[m]` that moves through the phases of the source:
`Begin` loads and validates the worktree, resolves the acting user and the
references, `confirm_destructive` asks, the action named after the operation
checks in the report and prepares the records with the counter of the report
under the lock, and `commit` validates the outcome, lets the operation check that
it took effect (`took_effect`), and writes vault and ratchet. `relabel_secret_vacate`
and `converge_readers` are the second commits of a move and of an added access.
A read (`BeginRead`, then `cmd_secret_get`, `cmd_list`, `run_inject` and so on)
loads, absorbs the raises of a clean report, and gives values out in a later
step, after the prompt. An SDK session (`open_session`, `call_session`,
`Vault_...`) keeps its report between calls.

Between any two of these steps the other processes of the machine act. One of
them may load the worktree and so raise the ratchet that all of them share
(`inspect_session`), and records may arrive in the worktree (`git_merge`), from
git or from a commit of another process. A load that finds the root lock taken
keeps its raises to itself (`free`). A command therefore carries the report it
loaded, the watermarks it was made against (`memory`) and whether they were
written (`stored`). `released` remembers the counter of what each machine gave
out last, `lost` which records the deletion of a user took away. A machine has
one worktree here; several that share a ratchet are the subject of
`Transaction`.

The instance consists of four scenarios, each a vault with the commands that
people issue in it: principals, secrets, reads, and an application with an open
session. What a scenario must be is `ScenariosAssumption`: its records are
`Wellformed` (an entry point pins the key it is signed under,
`validate/structure.rs:37`; a grant id is random, so it is drawn once) and
its commands `Issuable` (a new user, a handle or a secret is given as such).

### Enrollment

The administrators share a workspace, ratchet and machine; the newcomers'
machines get what was ever pushed, in any order (`history`, `checkout`). An
administrator plans against the session's view (`prepare_invite_user`,
`plan_join_approval`, which checks a candidate's purpose, root and proof), writes
the file (`Emit`), commits (`CommitPrepared`), which is refused when vault or
ratchet are no longer those of the plan (`Stale`), and shows the string or the QR
code (`PrintInvite`), unless there is none to show or storing the default user
fails first. `Forms` are the arguments of `thorax user invite`: a file, a string,
a QR code or several of them, as JSON or not; only with `--json` may there be
none. `unfiled` remembers who was invited without a file. A machine's claim, CI bootstrap or join (`read_invite`,
`maybe_bootstrap_ci_trust`, `open_join_baseline`) reads the vault first and takes
the lock on the trust state afterwards (`ClaimRatchet`,
`ensure_ratchet_from_invite`, `JoinTrust`). A join journal of an older version
may be present; `ReadJournal` and `complete_join_commit` recover it before
anything else. The vault is abstracted to the counter of one secret, its members, the
deleted ones, who may read it and for whom it is sealed.

### Keychain

Three layouts: a file per identity and one for the current user; a combined
file per root; a file per user. Every operation splits the combined file of its
root first (`ReadCombined` to `RemoveCombined`), and an unlock that finds no
identity takes it over from the user's file. A file operation is a step, and a
process may die after each. A sealed identity is the number of the
`store_identity` that sealed it, so that an older seal can be told from a newer
one; `latest` is a history variable. `Starts` are the files older versions may
have left; `Layout` says what they have in common: an identity missing in a
newer layout is found in the next older one as it was sealed last, and the older
one may hold any older seal beside a newer one.

### Update

A manifest is fetched from a transport that may serve anything ever signed and
anything forged; `verify_signed_manifest` checks signature, epoch, dates and
shape. `accept_seen` remembers the release under the lock before anything is
downloaded; `Replace` swaps the binary and `record_installed` records it, with
possible crashes in between. Under the lock a command first loads the state
(`load_or_migrate`, into the field `loaded`), removes old markers if it migrated
them, and then compares and writes what it has loaded (`advance`). `OldMarkers`
are the per-epoch files of older versions, which the first reader migrates.
`accepted` and `inherited` are history variables: the manifests this version
accepted, and the epochs older versions had.

### TuiSession

The event loop is one thread: one dispatched message with the effects it drains
is one action. `m` is the source's `Model`, and an operator on it is the source's
function of that name (`relock`, `promote_session_if_unlocked`, `reload`,
`refresh_from_session`, `map_key`). Concurrency comes from `ExternalWrite`: the
vault on disk may be replaced, broken, or removed between any two events. Every
effect may fail. `Quit` ends the process from any screen: what it held in memory
is gone, the clipboard is not. Time is counted in ticks: a deadline is the number
of ticks it is away, and events that keep the next tick from coming are not told
from slow ones.

### Controller

One `ThoraxVault` and one `ThoraxSecret` in a namespace. A published vault is a
version number. Versions extend each other, so the rollback state of an identity
is the newest version it remembers, and validating an older one against it
reports a rollback. A version records who is a member, a count of the changes to
the projected secret, and whether it is deleted; a source may also be absent,
undecodable, or decode and fail validation.

`vr[r]` and `sr[r]` are the passes of the two reconcilers of replica `r`. A
`pc` names the API call that comes next, and one action makes it together with
the decisions up to the following call: `reconcile_vault_inner` is the chain
`VaultStart`, `VaultSource`, `VaultIdentity`, `VaultGenerate`, `VaultRatchet`,
`VaultFindRequest`, `VaultCreateRequest`, `VaultApproval`, `VaultRevision`,
`VaultVerify`, `VaultConsume...`, `VaultStatus`; `reconcile_secret_inner` is
`SecretStart` to `SecretDelete`. `seen` is the status a pass started from,
which comes from the watch's cache (`Watch`), and the purpose of a request, the
established flag and the fields of an error report derive from it. `fresh` says
that the resourceVersion a pass holds is still the object's: whoever changes the
object clears it (`Stale`). Reading the revision once more in `compare_and_swap`
and replacing with it is one step, since the server refuses the replace when the
object changed between the two.

Every call may fail (`VaultCallFails`, `SecretCallFails`); a stored rollback
state may also lose its answer (`VaultAnswerLost`). `Stop` drops a replica's
passes wherever they are; several replicas may lead at once (`Lead`). `deployed`,
which never changes, says which replicas there are and whether there is a
`ThoraxSecret`.
The environment edits the vault, publishes any version, approves, loses objects
and writes the destination. `lost` is a history variable: the identities whose
rollback state was ever lost or corrupted.

## 3. Runs

Passing runs:

| Run | Instance | Shows |
|---|---|---|
| `delegation` | 2 tuples (one a prefix of the other), 1 label with 2 values, 2 users; from every single manage grant and from the root; chains of 2 where the branching allows it | `DelegationTypeOK`, `NoAmplification`, `GranterCanExercise` |
| `transaction` | 2 processes in 2 worktrees, 2 keys, 1 git edit, 1 crash | `TypeOK`, `RatchetRecoverable`, `AckedRemembered`, `TrustMonotone`, `VaultCovered`, `AtomicSpec` (refinement) |
| `transaction_live` | 2 processes in 2 worktrees, 1 key, 1 edit, 1 crash | `RecoveryCompletes` |
| `vaultlog` | root on one machine, one more member elsewhere, 1 secret, 1 grant, counters to 3, 2 versions in git | `TypeOK`, `ShownNotBelowMemory`, `WriteTakesEffect`, `CommitsAdvanceMemory` |
| `vaultlog_moves` | the same with 2 secrets and a grant in the genesis | `SecretsAreIndependent` |
| `commands` | 2 machines, 4 identities (one names another's signing key), 4 scenarios with 9 to 11 commands each, 2 commits | `TypeOK`, `EffectiveNotBelowMemory`, `RestoredHasNoOldAccess`, `PublishedIsAdmitted`, `ReadsNeverGoBack` |
| `enrollment` | 2 administrators, 1 machine, 2 newcomers, 2 writes, 3 pushes, 1 crash; a file with a baseline, a string without one and `--json --qr` as invitations | `TypeOK`, `MemberHasInvite`, `NoLostWrite`, `FirstMemoryFromIssuer` |
| `keychain` | 2 processes, 2 roots, 2 users, 1 new seal, 1 crash; from a fresh machine, both older layouts, records of a newer version, a restored backup | `TypeOK`, `OnlyLatest`, `IdentityNeverLost`, `MigrationNotWedged` |
| `update` | 2 processes, 3 commands, 1 crash; 3 releases, an equivocating manifest and 7 defective ones | `TypeOK`, `FloorKept`, `OneManifestPerEpoch`, `InstalledIsVerified` |
| `tui_session` | 7 kinds of vaults others may put on disk; reveals last 2 ticks, the clipboard 1, the idle limit is 2 | `TypeOK`, `WorkspaceNeedsIdentity`, `SecretCopyIsTimed`, `UnattendedLocks` |
| `controller` | 1 identity, versions to 3; 1 replica with a projection, with 3 edits and 1 fault from a fresh cluster, 2 edits and 1 fault or 3 edits after an enrollment; 2 replicas leading at once with 2 edits after an enrollment | `TypeOK`, `RatchetMonotone`, `ForeignUntouched`, `Settles` |

One run finds what the code does at odds with what the repository's README says
(`src/README.md:13`: compatible signed histories are combined automatically):

| Run | Statement | What happens |
|---|---|---|
| `authority_converges` | `AuthorityConverges` | one side deletes an administrator's own grant, on the other side that administrator leaves a group that also makes it one; in the merged vault the removal counts only as long as its signer administers through the membership it removes, so the fixpoint alternates until its rounds are used up, and no command can mend a vault with that issue |

Bounds. `MaxGrants`, `MaxEdits`, `MaxCrashes`, `MaxCommits`, `MaxCommands`,
`MaxPushed` and `MaxSeals` cap counters that are unbounded in the system. One
edit and one crash suffice for every pair of neighbouring steps of a commit, a
recovery, a migration or an installation to be separated by either, and two
processes for every unlocked read to be overtaken by a complete transaction. In
`VaultLog`, `MaxCounter` is the code's `MAX_LWW_COUNTER`, small so that the
ceiling is reached. `MaxRounds` of `Commands` is 8 where the code has 64: both are
even, so an alternation of period two ends in the same phase, and every vault of
the instance that settles does so in fewer rounds. Two commits are one on each
side of a merge or two in sequence, which every property of `Commands` is about.
`Enrollment` has one machine, because machines meet only through git and the
administrators. In `Controller`, `Starts` gives how many edits and faults a
behaviour has: three edits are an approval, its commit and its publication; two
are a change of the vault and a publication of it, or two publications in either
order. A fault is a failed call, a lost answer, a crash or a lost object. With
two replicas the two edits put a new version, or the new one and the old one
again, between any two of their steps, so that they compare and swap the rollback
state over different versions; the projection and the faults are left to the
instances with one replica. What any number of replicas do to each other is
proved (section 4). One case is only proved: the restoration that replaces what
another replica repaired (the exception of `RatchetMonotone`) takes two replicas,
two edits and a fault, 14 million states.

The type invariants are broken by mistakes in the code, not by overrunning the
caps: a migration that writes the list of one layout in the place of another, a
recovery that swaps its two images, a copy that gets the time of a reveal, and so on.

Deadlock is checked in `enrollment`, `keychain`, `tui_session` and `controller`,
whose processes can always go on. It is not in the others: commands end, git may
do nothing, and the bounds stop every behaviour eventually.

Symmetry is used for processes, administrators and newcomers, which nothing
orders, and only in runs without liveness properties.

Fairness of `Controller` (`FairSpec`). Started passes go on, since tokio polls
them and each call answers or fails; an idle reconciler is started again, since
every outcome is queued anew after at most five minutes; a watch delivers the
last state; somebody gets a Lease that nobody renews. Edits, publications,
approvals and faults get no fairness.

Fairness of `Transaction` (`transaction_live`). A process between two steps of a commit,
recovery or abandon runs on (`WF` of `Run`): the operating system schedules it.
A load, a claim's locked write and the end of a command happen if they are
possible again and again (`SF`): somebody keeps using each worktree, and
`acquire_advisory_lock` polls a lock which every holder releases. Crashes and
git edits get no fairness.

## 4. Proofs

All theorems hold for arbitrary constants satisfying the named assumptions of
the modules: any number of users, selectors, processes, worktrees, keys, images,
manifests, layouts, machines, edits and crashes. The assumptions say that bounds
are natural numbers, that the markers for "nobody" or "no file" are not one of
the things they stand beside, and what the environment can supply: in `Keychain`
`StartsAssumption`, in `TuiSession` `ExternalAssumption` (whatever is put on disk
loads in one of the ways a load can end), in `Update` that every manifest has an
epoch and a hash, in `Commands` `ScenariosAssumption`. TLC evaluates each of them
on the instances.

- `AuthorityProofs`, on delegation: `DelegationTypeCorrect`,
  `DelegationNeverAmplifies` and `GranterAlwaysCanExercise`. The core is
  `SelectorSubsumesSound`: a selector subsumed by another matches only secrets
  the other matches. A step is then shown to give its receiver nothing beyond
  what its giver holds (`CreateOnlyHeld`, `GrantReach`, `MergeReach`).
- `AuthorityProofs`, on the commands: `CommandsInvariant`, and from it
  `CommandsTypeCorrect`, `CommandsNotBelowMemory`, `DeletionIsFinal` and the
  action property `CommandsReadForward`; for any people, machines, secrets,
  vaults to start from, commands, commits and merges. The argument has two parts.

  *What validation computes.* The fixpoint of `Effective` is an iteration over
  rounds inside an iteration over admitted deletions, both recursive functions
  over naturals. `RoundsExist` and `AdmissionsExist` give their values step by
  step; a claim about the last one then goes by the first step that breaks it
  (`GraphRounds`, `ResolutionComplete`), so no induction over data is needed.
  The results: `ResolutionComplete`, at the end no deletion is left that its
  signer is entitled to, and what is selected is what the authorities it ends
  with select; `ShownNotRolled` and `ShownNotBehind`, whatever the report shows
  is at or above the ratchet; `NothingLeftOut`, when no authority key is rolled
  back the second pass computes what the first did; and `AbsorbKeepsReport`,
  remembering everything a report admitted leaves that report as it was.
  The last is what makes `absorb` sound: a session goes on with the report it
  made before it raised the ratchet.

  *What a step relies on.* `CommandsInv` says that every worktree's report is
  the one of its vault and ratchet, and that every watermark is the counter of a
  record in the vault (`Reported`, `Witnessed`); that the report a command or a
  session holds was made on some such vault and is, except at its rolled keys,
  as new as the watermarks it was made against (`SessionOK`, `Remembers`); that the records about to be
  appended are well-formed, carry grant ids nobody has drawn, and, for the
  deletion of a user, have a tombstone above every counter of the report for each
  membership and grant of that user (`CommitOK`, `Appendable`, `Cascaded`); that
  a grant id has one grant on all machines together (`Drawn`), so that a merge
  never contests it; and that what deletions took away is below the ratchet
  (`LostOK`). None of the properties is inductive without the parts about
  commands in flight: a read gives out what a report of an earlier step says, and
  a deletion is final because the ratchet, raised by the commit of the
  tombstones, outlasts the authority of whoever signed them. Each command that
  leaves the vaults alone is a `LocalStep`, and `CommitKeeps` and `MergeKeeps`
  are about the two steps that change them.
- `TransactionProofs`: `TypeCorrect`, `RecoveryNeverBlockedByRatchet`,
  `FinishedTransactionsRemembered`, `TrustNeverDrops`,
  `VaultWrittenAfterRatchet`. None of these invariants is inductive alone. The
  invariant `Inductive` adds what a process may rely on at each program point:
  the lock holder is unique and its plan is the journal; past the ratchet write
  the ratchet file is the journal's after-image; a plan's after-image covers its
  before-image and the vault it will write. `StepInductive` has one lemma per
  action.
  `TransactionsAreAtomic` is the refinement, `Spec => AtomicSpec`. The
  abstract vault is the file, or the journal's after-image while the journal is
  pending and git has not put a third image in place; the abstract memory is the
  strongest ratchet. Writing the journal is the commit; removing it settles it.
- `VaultLogProofs`: `TypesCorrect`, `NothingStaleShown`, `WritersPrevail`,
  `CommitsRemembered`, `OtherSecretsUndisturbed`. Here the type invariant is
  inductive and the properties follow from what validation computes, so most of
  the proof is about the operators of `Validate`: `Highest` and the watermarks
  are attained and bound every record; authority is that of the current,
  uncontested grants (`Writers`), and adding a record of a secret leaves it as it
  was; a shown record is at its watermark, and a key below memory is excluded
  (`CurrentNotBelow`); a record at a fresh counter, above watermark, memory and
  conflict floor, is current after its commit (`FreshIsCurrent`). Every operation
  is then a refusal or the commit of one record that is admitted and at a fresh
  counter (`RecordStep`), except convergence, which commits a batch
  (`BatchStep`).
- `EnrollmentProofs`: `TypesCorrect`, `NobodyLockedOut`, `NothingTakenBack`,
  `TrustStartsAtIssuer`. `Inductive` says what a plan in flight is: its outcome is
  the enrolment of its user in the vault it expects (`Prepared`), by its commit
  the file or approval is out (`Emitted`), and a journal of an older version leads from the first vault to the one its
  approval is for (`FromFirst`, `Recovered`). That a commit takes nothing back
  then needs only the comparison with the expected vault; for a recovery it needs
  that the journal's two images are the only ones it accepts.
- `KeychainProofs`: `TypesCorrect`, `NothingLost`, `NothingRevived`,
  `NeverWedged`. The latest seal may sit in any of three files while others are
  written, so `Inductive` adds who holds which lock (`Exclusive`), what a command
  may rely on while it holds it (`Undisturbed`: the combined file is gone before
  anything but the split writes; a seal is taken over from a user's own file only
  where the root has none), and that an older layout's seal, where it is the one
  an unlock would find, is the latest (`Layered`).
- `UpdateProofs`: `TypesCorrect`, `NoReplay`, `NoEquivocation`,
  `OnlyVerifiedInstalled`. `Inductive` says that a command works on a manifest it
  has verified, then accepted, then downloaded (`Checked`), that what it loaded
  under the lock is what the file still holds (`Current`), and that the file is at
  least as high as everything ever accepted and knows the manifest of its own
  epoch (`Remembered`). The last is why one hash is enough to refuse a second
  manifest of any epoch: a lower epoch is refused as a rollback.
- `TuiSessionProofs`: `TypesCorrect`, `WorkspaceGated`, `CopyTimed`,
  `UnattendedClientLocks`. There is a lemma for each function on the `Model`
  (`lock` to `fields_sync_effect`); they all keep it `Sane`: a session has
  somebody acting or the join gate, and without a session there is a gate or
  nothing is revealed. Between two dispatches, in addition, an unlocked session
  has its fields in step, so a tick without a reload sends no message, and the
  idle clock is short of the limit but not behind the time nobody was there. That
  holds until the client quits (`Ended`), after which nothing is drawn.
- `ControllerProofs`: `TypeCorrect`, `ReadyRemembered`, `RatchetOnlyRises` and
  `ForeignKept`, for any numbers of replicas, identities, versions, edits and
  faults, with any of the replicas leading at once. That Ready is remembered depends on
  what passes in flight will write, and that on the rollback state they loaded.
  `Inductive` therefore says of every pass: an intact state that it loaded is
  still there or its replace will be refused (`BaseCurrent`); only a state that
  was lost is found tampered with (`TamperedIsLost`); what it reports as Ready,
  or is about to, is remembered (`ReadyHeld`). `SwapRaises` is the argument for
  a successful `compare_and_swap`, `SwapKeepsPromises` what it leaves of the
  other passes. `WriteIsOwn` does the same for the destination Secret: a write
  or deletion that can still succeed meets no foreign owner.

  `RatchetMonotone` has one exception, which is in the code: a restoration that
  found the state tampered with reads the revision to replace after that, so
  it can replace what another replica repaired in the meantime.

`ReadyIsRemembered` is proved and not among the properties of a run.

Every inductive invariant was checked with TLC on the run's instance before it
was proved. Some definitions were changed on the way, because they could not be
reasoned about: the arms of `CASE` expressions in `Keychain` and `Effective` that
overlapped are disjoint (TLC takes the first one, the semantics any of them);
`Update` keeps what a command loaded under the lock in `loaded`, as the code does,
where it compared with the file of the later step; the state spaces of
`Enrollment`, `Keychain`, `Update` and `TuiSession` have complete types; and the
stages of the fixpoint in `Effective` and of the resolution of a reference in
`Commands` have names, so that lemmas can be about them.

Only model-checked:
- liveness (`RecoveryCompletes`, `Settles`), which is out of the prover's reach;
- `PublishedIsAdmitted` of `Commands`. It compares the resolution of the vault
  before a commit with that of the vault after it, and needs that a record that
  is not admitted leaves the order in which deletions are admitted as it was.
  Between two deletions by one signer at one counter the order of the model is a
  `CHOOSE`, so the two resolutions cannot be followed side by side;
- the violation `AuthorityConverges`.

## 5. Known behaviours

The models show the following. Apart from the first, which is the finding of
`PROJECT.json`, they are behaviours to know about rather than to assert: no
property states their absence.

Vault and authority
- The authority of a merged vault need not settle (`validate/effective.rs:39`).
  `thorax-ops` then refuses to commit.
- With a grant rolled back as well, an older value of a secret is shown without
  a conflict, because records without authority are not compared with the
  ratchet (`validate/pipeline.rs:261-282`; `src/README.md:337`).
- `next_counter` counts admitted records only (`validate/mod.rs:341`): a record
  that becomes admitted again by a new grant can be above a later write.
- Deleting a user returns its handle to whoever held it before. Removals signed
  by an administrator stop counting when that administrator is deleted, and an
  administrator deleting itself leaves the tombstones of its own cascade without
  effect (`principals.rs:343-350`).
- `converge_readers` re-seals the plaintext of the session's report after the
  commit has reloaded, so an older value can be written over a newer one
  (`reconcile.rs:21`; the comment at 112-113 says otherwise). The record it
  writes may also have no effect while the output says `encrypted`.
- Setting one field reads the whole secret before a prompt and a lock: a field
  set by somebody else meanwhile is lost (`thorax-cli/src/secrets.rs:626`).
- Adding users, deletions and convergence do not use `rollback_counter_floor`.
- A report with an authority key rolled back is made without that key, so it may
  show records that the whole vault would not, older ones than are remembered
  included. This is why the properties of `Commands` except such reports
  (`Authoritative`); a key that is rolled back itself shows nothing even then.
- `thorax grant` on a selector does not carry its labels over
  (`thorax-cli/src/access.rs:490-505`).

Sessions and memory
- Raises kept in memory when the lock was contended are dropped by the next
  reload, although a comment says that the session still validates against them
  (`session.rs:202`, `435`). The absorbed ratchet is newer than the report
  (`session.rs:461`), and the counter to accept is read before the lock
  (`conflicts.rs:234`).
- An SDK session whose write fails after the reload goes on with the reloaded
  report, whose raises the ratchet does not have. `set` drops fields, and `move`
  overwrites an existing target (`thorax-sdk/src/lib.rs:185`).
- An SDK session reads values of the report it was opened with or reloaded last
  (`thorax-sdk/src/lib.rs:152`). Another process of the machine may have loaded a
  newer vault since, so the session can give out an older value than the machine
  remembers; `src/README.md:300` says to open a session again to see what others
  have changed. The same holds, for as long as a prompt is open, of a command
  that has loaded. `ReadsNeverGoBack` therefore compares with what the machine
  remembered when the session read the vault.
- A move is two commits: a process that ends between them, or whose second commit
  is refused, leaves the secret in both places (`secrets.rs:99`).
- A claim ignores the baseline of an invitation on a machine that knows the root
  (`invite.rs:212-220`).
- The member of an invitation that goes to no file is committed before the string
  is shown, and the string holds the only key. It is lost by a crash in between,
  by a failure of `remember_user_if_explicit` (`thorax-cli/src/users.rs:229`),
  and without any failure with `--json` and no other argument, which the check at
  173 lets through, and with `--json --qr`, which prints no string (250-251). The
  comment at 183-185 says that an oversized string can never leave such a member,
  which is so; these can. (A QR code that is too large, at 316-318, cannot
  happen: a string that fits Bech32m fits a QR code.)
- An attributes line with `diff=` alone counts as an installed merge driver
  (`merge_driver.rs:159-169`).

Keychain and update
- A combined file restored from a backup with another current user keeps its root
  from being used until somebody removes it. A claim writes the ratchet first and
  the identity after it.
- Two updates at once can end with the older of their releases installed
  (`src/README.md:379`); the floor remembers the newer one. The version that was
  confirmed may differ from the one installed, since the manifest is fetched
  twice; a crash after the replacement leaves the installation unrecorded; the
  notice may be a day old.

Interactive client
- After a failed reload or a relock of a locked session there is no session to
  probe for, so changes on disk go unnoticed until the next unlock.
- Messages of effects count as activity for the idle clock, a modal keeps the
  keyboard while the init or blocked screen is drawn, a failed save loses the
  text of the editor, and a clipboard clear that fails is not tried again.
- Quitting after a copy leaves the secret or the invitation on the clipboard: the
  deadline goes with the process (`app/update.rs:92-95`, `app/effects.rs:20`,
  `lib.rs:82-84`), where `src/README.md:262` says that copied values are cleared
  from the clipboard on a timer.
- A failed promotion keeps the open modal, so the plaintext in an editor stays
  drawn over the join gate although no identity is left (`ui/mod.rs:68-74`), and
  a rollback accepted from the blocked screen can draw a session that was not
  promoted, with an identity unlocked. `WorkspaceNeedsIdentity` is about the
  screen beneath the modals.

Controller
- A projection is made from a source newer than the persisted rollback state,
  and an older source replaces it if it arrives before that state is written
  (`controller.rs:757`; `src/README.md:348`).
- The status names the enrollment request also while a restoration waits for its
  approval, so `approve` does not find the latter (`controller.rs:1429`).
- A crash between the restored state and the deletion of its approval leaves the
  approval usable once more (534); a repair can replace what another replica
  repaired (433); the established flag comes from a cache (1428).

## 6. Not modelled

Cryptography is ideal: signatures cannot be forged, hashes do not collide,
ciphertext opens exactly for its slots. Byte encodings, paths, permissions,
presentation, argument and selector parsing, downloads and process spawning are
left out. So are the verification cache of `validate_v1` (a memo of signatures
already checked) and the manifest builder. `fsync` is assumed to do what it
says, and the ten second lock timeout appears only as contention. The Python and
Node bindings marshal calls of the SDK; Node runs them as unordered tasks behind
a mutex, which is an order of whole calls that the SDK session of `Commands`
takes already.

In `Enrollment`: a deleted identity that applies again. In `Keychain`: further
identities of the same root in a user's legacy file, which are migrated with it
or reported as a conflict (`lib.rs:1042-1047`). In `TuiSession`: cursor
movement, filters, form contents, the records behind a selection. In
`Controller`: the permissions an approval grants and the checks on its signer
(one administrator approves, and correctly; `Enrollment` has those checks);
sources over the size limit or with another root; an identity Secret that is not
the controller's; `Retain` policies, under which nothing is withdrawn; the status
of a `ThoraxSecret`, with the withdrawal that follows when writing it fails
(`controller.rs:714-726`, `768-779`), and events, which nothing reads; the clock
and renewals of the Lease: any replica may lead at any time. See `components` in `PROJECT.json` for every
part with its status.

## 7. Plan

What would extend the project most:

1. `PublishedIsAdmitted` as a theorem, after the order of equal deletions is
   part of the model.
2. `Leader`: the Lease with its clocks, renewals and deadlines, and when two
   replicas can lead at once.
3. The verification cache, and the encodings of invitations and requests.
