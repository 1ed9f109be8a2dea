------------------------------- MODULE TuiSession -------------------------------
(***************************************************************************)
(* The interactive client's session: the trust tier of the loaded vault,   *)
(* the full-screen gates, the modals, the plaintext on screen and on the   *)
(* clipboard, and the timers that take it away again (thorax-tui,          *)
(* app/update.rs, app/effects.rs, app/model.rs, event.rs, lib.rs).         *)
(*                                                                         *)
(* The event loop is one thread: a key, a click or a tick is dispatched,   *)
(* its effects are drained, and only then is the next event read, so one   *)
(* action here is one dispatch.  What runs concurrently is everybody else: *)
(* the vault file changes under the client (a git pull, another process).  *)
(* The state of the client is the record m, the source's Model; an         *)
(* operator on such a record is one of the source's functions on it.       *)
(*                                                                         *)
(* Which secret or principal is selected, and what the records say, is     *)
(* left out: a request about the selection may or may not find something   *)
(* to act on.  Time is counted in ticks of the loop.                       *)
(***************************************************************************)
EXTENDS Naturals

CONSTANTS External,      \* the vaults others may put on disk
          RevealTicks,   \* REVEAL_SECS, in ticks
          ClipTicks,     \* CLIPBOARD_CLEAR_SECS, in ticks
          IdleTicks      \* IDLE_TIMEOUT, in ticks

ASSUME TimerAssumption ==
    /\ RevealTicks \in Nat \ {0}
    /\ ClipTicks \in Nat \ {0}
    /\ IdleTicks \in Nat \ {0}

VARIABLES m,         \* the client's Model
          disk,      \* the vault file
          changed,   \* the file's fingerprint differs from vault_fingerprint
          clip,      \* what the system clipboard holds
          quiet,     \* ticks since the last key or click (history variable)
          disturbed  \* since then, a tick's effect answered (history variable)

vars == <<m, disk, changed, clip, quiet, disturbed>>

(***************************************************************************)
(* What loading the vault file gives: it may be absent, unreadable, of a   *)
(* root this machine does not trust yet, or load with or without issues    *)
(* and conflicts.  "me" is what the vault says of the local identity: a    *)
(* member; present, but promotion fails (the attested report has issues);  *)
(* or gone, so that the stored default user resolves to nobody.            *)
(***************************************************************************)
Loaded(issues, me, conf) ==
    [load |-> "ok", issues |-> issues, me |-> me, conf |-> conf]
Unloadable(why) == [load |-> why, issues |-> FALSE, me |-> "gone", conf |-> FALSE]
Vaults == {Loaded(i, w, c) : i \in BOOLEAN, w \in {"member", "unvouched", "gone"},
                             c \in BOOLEAN}
              \cup {Unloadable(w) : w \in {"missing", "untrusted", "fail"}}

ASSUME ExternalAssumption == External \subseteq Vaults

Views == {"Secrets", "Access", "Merge"}
NoModal == "none"
\* Form and picker modals whose submission is one vault mutation.
Confirms == {"ConfirmDelete", "ConfirmResolve"}
MutationModals == Confirms \cup {"FormInvite", "FormGroup", "FormRelabel", "Grant",
                                "Member"}
Notes == {"Help", "Health", "Facet"}
Modals == {NoModal, "ConfirmAccept", "FormNewSecret", "FormClaim",
           "EditorStored", "EditorNew", "InviteBundle"}
              \cup MutationModals \cup Notes

----------------------------------------------------------------------------
(* Screens and keyboard. *)

is_unlock_gate(s) ==
    s.session # "None" /\ ~s.block /\ ~s.error /\ s.acting /\ ~s.identity

is_join_gate(s) == s.join /\ ~s.block /\ ~s.error

\* What the renderer draws; each gate takes the whole terminal.
Screen(s) ==
    IF is_unlock_gate(s) THEN "unlock"
    ELSE IF s.error THEN "init"
    ELSE IF is_join_gate(s) THEN "join"
    ELSE IF s.block THEN "blocked" ELSE "workspace"

\* The modal is drawn above everything but the unlock and the init gate.
ModalShown(s) == s.modal # NoModal /\ Screen(s) \notin {"unlock", "init"}

\* Who gets a key other than Ctrl-C, which quits everywhere: not the same order
\* as the screens, a modal comes before the block, init and join screens.
map_key(s) ==
    IF is_unlock_gate(s) THEN "unlock"
    ELSE IF s.modal # NoModal THEN "modal"
    ELSE IF s.block THEN "blocked" ELSE Screen(s)

\* Clicks reach the recorded buttons whatever modal is open, but the mouse is
\* released while exposed text may be selected.
terminal_selection_enabled(s) ==
    s.reveal > 0 \/ s.merge_reveal > 0 \/ s.modal = "InviteBundle"

Clickable(s) == Screen(s) = "workspace" /\ ~terminal_selection_enabled(s)

----------------------------------------------------------------------------
(* The functions of Model. *)

lock(s) == [s EXCEPT !.identity = FALSE]

\* Mutant: locking also forgets when the clipboard is due.
relock_untimed(s) ==
    [lock(s) EXCEPT !.session = IF @ = "Unlocked" THEN "Locked" ELSE "None",
                    !.reveal = 0, !.fields = FALSE, !.merge_reveal = 0,
                    !.modal = NoModal, !.clear_in = 0]

\* relock takes the session out and puts it back only when it was unlocked.
relock(s) ==
    [lock(s) EXCEPT !.session = IF @ = "Unlocked" THEN "Locked" ELSE "None",
                    !.reveal = 0, !.fields = FALSE, !.merge_reveal = 0,
                    !.modal = NoModal]

\* The promotion of a clean locked snapshot to the cached identity.  On failure
\* the identity is dropped and the snapshot is loaded again from file d.
promote_session_if_unlocked(s, d) ==
    IF s.session # "Locked" \/ s.vault.issues \/ ~s.identity THEN s
    ELSE IF s.vault.me = "member" THEN [s EXCEPT !.session = "Unlocked"]
    ELSE IF d.load = "ok" THEN [lock(s) EXCEPT !.vault = d]
    ELSE [lock(s) EXCEPT !.session = "None", !.error = TRUE]

\* Mutant: a default user that the vault does not know leaves no join gate.
resolve_acting_unjoined(s) ==
    [s EXCEPT !.acting = s.vault.me # "gone", !.join = FALSE]

resolve_acting(s) ==
    [s EXCEPT !.acting = s.vault.me # "gone", !.join = s.vault.me = "gone"]

\* Everything the model holds besides the session, from the session.
refresh_from_session(s) ==
    IF s.session = "None" THEN s
    ELSE LET merge == s.vault.conf
             view == IF s.view = "Merge" /\ ~merge THEN "Secrets" ELSE s.view
         IN  [resolve_acting(s) EXCEPT
                !.block = s.vault.issues, !.error = FALSE, !.merge = merge,
                !.merge_reveal = 0, !.fields = FALSE,
                !.view = IF s.target THEN "Secrets" ELSE view,
                !.target = FALSE]

reload(s, d) ==
    IF d.load = "ok"
    THEN refresh_from_session(promote_session_if_unlocked(
             [s EXCEPT !.session = "Locked", !.vault = d], d))
    ELSE LET lost == [s EXCEPT !.session = "None", !.merge = FALSE]
         IN  IF d.load = "untrusted"
             THEN [lost EXCEPT !.join = TRUE, !.error = FALSE, !.acting = FALSE]
             ELSE [lost EXCEPT !.join = FALSE, !.error = TRUE]

\* The loaded fingerprint is that of the file only if the load went through.
Fingerprinted(s) == s.session # "None"

\* fields_sync_effect, run when the effects are drained: what the detail pane
\* shows of the selection is brought up to date (fields), and if the selection is
\* a readable secret its additional fields are decrypted.  The answer is a message
\* like any other and restarts the idle clock; a failed load sends none.
fields_sync_effect(s) ==
    IF s.session = "Unlocked" /\ ~s.fields
    THEN {[s EXCEPT !.fields = TRUE], [s EXCEPT !.fields = TRUE, !.idle = 0]}
    ELSE {s}

----------------------------------------------------------------------------
(* Dispatching. *)

\* A dispatch that the user's key or click starts: it counts as activity.
Input(s) ==
    /\ m' \in fields_sync_effect([s EXCEPT !.idle = 0])
    /\ quiet' = 0
    /\ disturbed' = FALSE

\* The same when neither the vault file nor the clipboard is touched.
LocalInput(s) == Input(s) /\ UNCHANGED <<disk, changed, clip>>

\* A committed invite is shown as a bundle; every other mutation by the status.
Answered(kind, s) ==
    IF kind = "FormInvite" THEN [s EXCEPT !.modal = "InviteBundle"] ELSE s

\* A vault mutation by the session.  Under the lock the session first takes over
\* a file that differs; it then fails, leaving the projections as they were, or
\* commits a vault and refreshes.  Without an unlocked session nothing happens.
Mutate(s, kind, commits) ==
    \/ /\ s.session # "Unlocked"
       /\ LocalInput(s)
    \/ /\ s.session = "Unlocked"
       /\ LocalInput(s)
    \/ /\ s.session = "Unlocked" /\ disk.load = "ok"
       /\ LocalInput([s EXCEPT !.vault = disk])
    \/ /\ s.session = "Unlocked" /\ disk.load = "ok"
       /\ ~disk.issues /\ disk.me # "gone"
       /\ disk' \in commits
       /\ changed' = FALSE
       /\ UNCHANGED clip
       /\ Input(Answered(kind, refresh_from_session([s EXCEPT !.vault = disk'])))

\* The vaults a committed mutation can leave.  A pick may end the last conflict.
ResolveCommits == {disk, [disk EXCEPT !.conf = FALSE]}

\* Deleting secrets, grants and groups leaves what is modelled of the vault;
\* deleting one's own user makes the stored default user resolve to nobody.
DeleteCommits == {disk, [disk EXCEPT !.me = "gone"]}

\* Groups, members, grants, labels and invites only add to what others may do.
AccessCommits == {disk}

Commits(kind) ==
    CASE kind = "ConfirmResolve" -> ResolveCommits
      [] kind = "ConfirmDelete" -> DeleteCommits
      [] OTHER -> AccessCommits

Closed(s) == [s EXCEPT !.modal = NoModal]

----------------------------------------------------------------------------
(* The timer. *)

\* The ticks that are left until an optional deadline; 0 where there is none.
Count(n) == IF n > 0 THEN n - 1 ELSE 0

Aged(s) ==
    [s EXCEPT !.reveal = Count(@), !.merge_reveal = Count(@), !.clear_in = Count(@),
              !.idle = IF @ < IdleTicks THEN @ + 1 ELSE @]

\* Mutant: the clock must pass the limit, at which it stops.
IdleLocked_never(s) == IF s.identity /\ s.idle > IdleTicks THEN relock(s) ELSE s

IdleLocked(s) == IF s.identity /\ s.idle >= IdleTicks THEN relock(s) ELSE s

\* What the client puts on the clipboard.
Copies == {"secret", "invite"}

\* One tick: the reveals and the clipboard expire, an idle session is locked,
\* and at most every FRESHNESS_INTERVAL (probe) a changed file is loaded again.
\* The clearing may fail after its deadline was dropped; the failure is reported
\* by a message, which restarts the idle clock.
Tick(probe) ==
    LET aged == IdleLocked(Aged(m))
        reloads == aged.session # "None" /\ probe /\ changed
        fresh == IF reloads THEN reload(aged, disk) ELSE aged
    IN  /\ changed' = (changed /\ ~(reloads /\ Fingerprinted(fresh)))
        /\ quiet' = IF quiet < IdleTicks THEN quiet + 1 ELSE quiet
        /\ disturbed' = (disturbed \/ reloads \/ m.clear_in = 1)
        /\ UNCHANGED disk
        /\ \/ /\ m.clear_in # 1
              /\ m' \in fields_sync_effect(fresh)
              /\ UNCHANGED clip
           \/ /\ m.clear_in = 1
              /\ m' \in fields_sync_effect(fresh)
              /\ clip' = "empty"
           \/ /\ m.clear_in = 1
              /\ m' \in fields_sync_effect([fresh EXCEPT !.idle = 0])
              /\ clip' = IF clip \in Copies THEN "stuck" ELSE clip

----------------------------------------------------------------------------
(* The gates. *)

\* UnlockSubmit: the passphrase is right or wrong; a right one promotes the
\* session, and only if that keeps the identity the model is refreshed.
UnlockSubmit ==
    /\ map_key(m) = "unlock"
    /\ \/ LocalInput(lock(m))
       \/ LET s == promote_session_if_unlocked([m EXCEPT !.identity = TRUE], disk)
          IN  /\ IF s.identity THEN Input(refresh_from_session(s)) ELSE Input(s)
              /\ changed' = (changed /\ ~s.identity)
              /\ UNCHANGED <<disk, clip>>

\* InitSubmit: refused where a vault file exists; it may also fail after the
\* vault was written, which leaves the client on the init gate.
InitSubmit ==
    /\ map_key(m) = "init"
    /\ \/ LocalInput(m)
       \/ /\ disk.load = "missing"
          /\ disk' = Loaded(FALSE, "member", FALSE)
          /\ UNCHANGED clip
          /\ \/ /\ Input([refresh_from_session([m EXCEPT !.session = "Unlocked",
                                                         !.vault = disk'])
                             EXCEPT !.identity = TRUE])
                /\ changed' = FALSE
             \/ Input(m) /\ changed' = TRUE

StartClaim ==
    /\ map_key(m) = "join"
    /\ LocalInput([m EXCEPT !.modal = "FormClaim"])

\* Joining writes the identity, the trust and the default user, and ends in a
\* full load; the vault then knows this machine's user.
SubmitClaim ==
    /\ map_key(m) = "modal" /\ m.modal = "FormClaim"
    /\ \/ LocalInput(m) \/ LocalInput(Closed(m))
       \/ /\ disk.load \in {"ok", "untrusted"}
          /\ disk' = Loaded(disk.issues, "member", disk.conf)
          /\ Input(reload([Closed(m) EXCEPT !.identity = TRUE], disk'))
          /\ changed' = FALSE
          /\ UNCHANGED clip

----------------------------------------------------------------------------
(* The workspace. *)

\* A key of the workspace, or a click on a button or tab of it.
Reachable(clickable) == map_key(m) = "workspace" \/ (clickable /\ Clickable(m))

SwitchView(v) ==
    /\ \/ Reachable(TRUE)
       \/ Screen(m) = "blocked" /\ ~terminal_selection_enabled(m)
    /\ v = "Merge" => m.merge
    /\ LocalInput([m EXCEPT !.view = v])

LockNow ==
    /\ Reachable(FALSE)
    /\ LocalInput(relock(m))

OpenNote(n) ==
    /\ IF n = "Help" THEN map_key(m) \in {"workspace", "join"} ELSE Reachable(FALSE)
    /\ n = "Facet" => m.view = "Secrets"
    /\ LocalInput([m EXCEPT !.modal = n])

\* GetSecret: nothing selected, nothing readable, or a locked session is only
\* reported; a value that cannot be opened locks the session.
GetSecret(opened) ==
    \/ LocalInput(m)
    \/ m.session = "Unlocked" /\ (opened \/ LocalInput(relock(m)))

\* RevealConflictCandidates opens every candidate of a conflict, or locks.
RevealConflictCandidates ==
    \/ LocalInput(m)
    \/ m.session = "Unlocked"
          /\ \/ LocalInput([m EXCEPT !.merge_reveal = RevealTicks])
             \/ LocalInput(relock(m))

\* Reveal, or hide when the selection is revealed already.
Reveal ==
    /\ Reachable(TRUE)
    /\ CASE m.view = "Merge" ->
              \/ m.merge_reveal > 0 /\ LocalInput([m EXCEPT !.merge_reveal = 0])
              \/ RevealConflictCandidates
         [] m.view = "Secrets" ->
              \/ m.reveal > 0 /\ LocalInput([m EXCEPT !.reveal = 0])
              \/ GetSecret(LocalInput([m EXCEPT !.reveal = RevealTicks]))
         [] OTHER -> LocalInput(m)

HideReveal ==
    /\ Reachable(TRUE)
    /\ LocalInput([m EXCEPT !.reveal = 0, !.merge_reveal = 0])

\* Mutant: the copy is given the time of a reveal.
Copied_revealed(s, what) ==
    /\ \/ clip' = what \/ UNCHANGED clip
    /\ Input([s EXCEPT !.clear_in = RevealTicks])
    /\ UNCHANGED <<disk, changed>>

\* The deadline is set before the copy is tried.
Copied(s, what) ==
    /\ \/ clip' = what \/ UNCHANGED clip
    /\ Input([s EXCEPT !.clear_in = ClipTicks])
    /\ UNCHANGED <<disk, changed>>

Copy ==
    /\ Reachable(FALSE) /\ m.view = "Secrets"
    /\ GetSecret(Copied(m, "secret"))

StartEdit ==
    /\ Reachable(TRUE) /\ m.view = "Secrets"
    /\ GetSecret(LocalInput([m EXCEPT !.modal = "EditorStored"]))

\* The buttons and keys that open a form or a confirmation, by view.
Opens(modal) ==
    CASE modal \in {"FormNewSecret"} -> m.view \in {"Secrets", "Merge"}
      [] modal \in {"FormRelabel"} -> m.view = "Secrets"
      [] modal \in {"ConfirmResolve", "ConfirmAccept"} -> m.view = "Merge"
      [] modal = "ConfirmDelete" -> m.view \in {"Secrets", "Access"}
      [] modal = "Grant" -> m.view \in {"Secrets", "Access"}
      [] OTHER -> m.view = "Access"

StartForm(modal) ==
    /\ Reachable(TRUE)
    /\ Opens(modal)
    /\ LocalInput([m EXCEPT !.modal = modal])

\* A deletion, a pick or an acceptance is asked about first.
RequestConfirm(modal) ==
    /\ Reachable(modal # "ConfirmAccept")
    /\ Opens(modal)
    /\ LocalInput([m EXCEPT !.modal = modal])

----------------------------------------------------------------------------
(* The modals. *)

CloseModal ==
    /\ map_key(m) = "modal"
    /\ LocalInput(Closed(m))

\* A submission that the form refuses keeps the form.
SubmitMutation ==
    /\ map_key(m) = "modal" /\ m.modal \in MutationModals
    /\ \/ m.modal \notin Confirms /\ LocalInput(m)
       \/ Mutate(Closed(m), m.modal, Commits(m.modal))

\* Accepting a rollback that the session reports rewrites local memory, at either
\* tier: the vault stays, without the conflict that was due to that memory.  The
\* session takes over a file that differs, and the tier is left as it is.
ConfirmAccept ==
    /\ map_key(m) = "modal" /\ m.modal = "ConfirmAccept"
    /\ \/ LocalInput(Closed(m))
       \/ /\ m.session # "None" /\ m.vault.conf /\ disk.load = "ok"
          /\ LocalInput([Closed(m) EXCEPT !.vault = disk])
       \/ /\ m.session # "None" /\ m.vault.conf /\ disk.load = "ok"
          /\ disk' \in {disk, [disk EXCEPT !.conf = FALSE]}
          /\ Input(refresh_from_session([Closed(m) EXCEPT !.vault = disk']))
          /\ changed' = FALSE
          /\ UNCHANGED clip

\* NewSecret asks for the selector, then for the value.
SubmitNewSecret ==
    /\ map_key(m) = "modal" /\ m.modal = "FormNewSecret"
    /\ LocalInput(m) \/ LocalInput([m EXCEPT !.modal = "EditorNew"])

\* The editor is closed and its target queued before the value is saved.
EditorSubmit ==
    /\ map_key(m) = "modal" /\ m.modal \in {"EditorStored", "EditorNew"}
    /\ Mutate([Closed(m) EXCEPT !.target = TRUE], m.modal, {disk})

CopyInviteBundle ==
    /\ map_key(m) = "modal" /\ m.modal = "InviteBundle"
    /\ Copied(m, "invite")

----------------------------------------------------------------------------
\* The vault file is replaced by somebody else.
ExternalWrite(v) ==
    /\ disk' = v
    /\ changed' = TRUE
    /\ UNCHANGED <<m, clip, quiet, disturbed>>

Fresh == [session |-> "None", vault |-> Unloadable("missing"), acting |-> FALSE,
          join |-> FALSE, block |-> FALSE, error |-> FALSE, identity |-> FALSE,
          merge |-> FALSE, view |-> "Secrets", modal |-> NoModal, reveal |-> 0,
          merge_reveal |-> 0, fields |-> FALSE, clear_in |-> 0, idle |-> 0,
          target |-> FALSE, should_quit |-> FALSE]

\* Quit: the loop returns and the process ends.  Its effect does nothing, so what
\* was copied stays on the clipboard, and its deadline goes with the memory.
Quit ==
    /\ m' = [Fresh EXCEPT !.should_quit = TRUE]
    /\ quiet' = 0
    /\ disturbed' = FALSE
    /\ UNCHANGED <<disk, changed, clip>>

Init ==
    /\ disk \in External
    /\ m = reload(Fresh, disk)
    /\ changed = ~Fingerprinted(m)
    /\ clip = "empty"
    /\ quiet = 0
    /\ disturbed = FALSE

\* One turn of the event loop.
Dispatch ==
    \/ \E probe \in BOOLEAN : Tick(probe)
    \/ UnlockSubmit \/ InitSubmit \/ StartClaim \/ SubmitClaim
    \/ \E v \in Views : SwitchView(v)
    \/ LockNow \/ Reveal \/ HideReveal \/ Copy \/ StartEdit
    \/ \E n \in Notes : OpenNote(n)
    \/ \E modal \in (MutationModals \ Confirms) \cup {"FormNewSecret"} :
          StartForm(modal)
    \/ \E modal \in Confirms \cup {"ConfirmAccept"} : RequestConfirm(modal)
    \/ CloseModal \/ SubmitMutation \/ ConfirmAccept \/ SubmitNewSecret
    \/ EditorSubmit \/ CopyInviteBundle \/ Quit

Next ==
    \/ ~m.should_quit /\ Dispatch
    \/ \E v \in External : ExternalWrite(v)

Spec == Init /\ [][Next]_vars

----------------------------------------------------------------------------
(* Properties. *)

Models ==
    [session : {"None", "Locked", "Unlocked"}, vault : Vaults,
     acting : BOOLEAN, join : BOOLEAN, block : BOOLEAN, error : BOOLEAN,
     identity : BOOLEAN, merge : BOOLEAN, view : Views, modal : Modals,
     reveal : 0..RevealTicks, merge_reveal : 0..RevealTicks,
     fields : BOOLEAN, clear_in : 0..ClipTicks, idle : 0..IdleTicks,
     target : BOOLEAN, should_quit : BOOLEAN]

TypeOK ==
    /\ m \in Models
    /\ disk \in Vaults
    /\ changed \in BOOLEAN
    /\ clip \in {"empty", "secret", "invite", "stuck"}
    /\ quiet \in 0..IdleTicks
    /\ disturbed \in BOOLEAN

\* A loaded vault, and a revealed value in any case, is drawn only while an
\* identity is unlocked, whatever reloads, failed promotions, locks and joins led
\* there: every other state ends on one of the gates or on the block screen.
WorkspaceNeedsIdentity ==
    Screen(m) = "workspace" =>
       \/ m.identity
       \/ m.session = "None" /\ m.reveal = 0 /\ m.merge_reveal = 0

\* While the client runs, a secret value or an invite that it put on the clipboard
\* has a deadline, also after a lock, a reload or a failed promotion, unless the
\* clearing itself was tried and failed.  Quitting ends the deadline and leaves
\* the copy (update.rs:92-95, effects.rs:20).
SecretCopyIsTimed == clip \in Copies /\ ~m.should_quit => m.clear_in > 0

\* With nobody at the keyboard for the idle time the identity is gone, unless a
\* reload or the clearing of the clipboard answered in between.
UnattendedLocks == m.identity /\ quiet >= IdleTicks => disturbed
=============================================================================
