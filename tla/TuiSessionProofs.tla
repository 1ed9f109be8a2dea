-------------------------- MODULE TuiSessionProofs --------------------------
(* Theorems about TuiSession: a loaded vault is drawn only with an unlocked *)
(* identity, what a running client copied has a deadline, and an unattended *)
(* client locks itself.                                                     *)
EXTENDS TuiSession, TLAPS

(* A session without a gate in front of it has somebody acting; without a   *)
(* session there is a gate, or nothing is revealed.                         *)
Gated(s) ==
  /\ s \in Models
  /\ s.session = "None" => s.error \/ s.join \/ (s.reveal = 0 /\ s.merge_reveal = 0)

Sane(s) == Gated(s) /\ (s.session # "None" => s.acting \/ s.join)

(* What holds between two dispatches of a running client: the fields of an  *)
(* unlocked session are in step, and the idle clock is behind the limit but not behind the time  *)
(* nobody was there.                                                        *)
Inductive ==
  /\ TypeOK
  /\ Sane(m)
  /\ m.session = "Unlocked" => m.fields
  /\ m.identity => m.idle < IdleTicks
  /\ m.identity /\ ~disturbed => m.idle >= quiet
  /\ clip \in Copies => m.clear_in > 0

(* What holds once it has quit: nothing of it is left but the terminal.     *)
Ended ==
  /\ TypeOK
  /\ m.should_quit = TRUE /\ m.session = "None" /\ m.identity = FALSE
  /\ m.reveal = 0 /\ m.merge_reveal = 0

----------------------------------------------------------------------------
(* Vaults *)

LEMMA VaultShapes ==
  ASSUME NEW v \in Vaults
  PROVE  \/ \E i \in BOOLEAN, w \in {"member", "unvouched", "gone"}, c \in BOOLEAN :
              v = Loaded(i, w, c)
         \/ \E w \in {"missing", "untrusted", "fail"} : v = Unloadable(w)
BY DEF Vaults

LEMMA VaultFields ==
  ASSUME NEW v \in Vaults
  PROVE  /\ v.issues \in BOOLEAN /\ v.conf \in BOOLEAN
         /\ v.me \in {"member", "unvouched", "gone"}
<1>1. ASSUME NEW i \in BOOLEAN, NEW w \in {"member", "unvouched", "gone"}, NEW c \in BOOLEAN,
             v = Loaded(i, w, c)
      PROVE  v.issues = i /\ v.conf = c /\ v.me = w
  BY <1>1 DEF Loaded
<1>2. ASSUME NEW w, v = Unloadable(w)
      PROVE  v.issues = FALSE /\ v.conf = FALSE /\ v.me = "gone"
  BY <1>2 DEF Unloadable
<1> QED
  BY <1>1, <1>2, VaultShapes

LEMMA LoadedType ==
  ASSUME NEW issues \in BOOLEAN, NEW me \in {"member", "unvouched", "gone"},
         NEW conf \in BOOLEAN
  PROVE  Loaded(issues, me, conf) \in Vaults /\ Loaded(issues, me, conf).load = "ok"
BY DEF Vaults, Loaded

LEMMA CommitTypes ==
  ASSUME NEW v \in Vaults, v.load = "ok"
  PROVE  [v EXCEPT !.conf = FALSE] \in Vaults /\ [v EXCEPT !.me = "gone"] \in Vaults
<1>1. PICK i \in BOOLEAN, w \in {"member", "unvouched", "gone"}, c \in BOOLEAN :
        v = Loaded(i, w, c)
  BY VaultShapes DEF Unloadable
<1>2. \A b \in BOOLEAN : [v EXCEPT !.conf = b] = Loaded(i, w, b)
  BY <1>1 DEF Loaded
<1>3. [v EXCEPT !.me = "gone"] = Loaded(i, "gone", c)
  BY <1>1 DEF Loaded
<1>4. \A b \in BOOLEAN : Loaded(i, w, b) \in Vaults
  BY LoadedType
<1>5. Loaded(i, "gone", c) \in Vaults
  BY LoadedType
<1> QED
  BY <1>2, <1>3, <1>4, <1>5

----------------------------------------------------------------------------
(* The functions of the model *)

LEMMA LockFacts ==
  ASSUME NEW s \in Models
  PROVE  /\ lock(s) \in Models /\ lock(s).identity = FALSE
         /\ Gated(s) => Gated(lock(s))
         /\ Sane(s) => Sane(lock(s))
         /\ lock(s).clear_in = s.clear_in /\ lock(s).idle = s.idle
         /\ lock(s).session = s.session /\ lock(s).acting = s.acting
         /\ lock(s).join = s.join /\ lock(s).fields = s.fields
<1>1. /\ lock(s) \in Models /\ lock(s).identity = FALSE
      /\ lock(s).clear_in = s.clear_in /\ lock(s).idle = s.idle
      /\ lock(s).session = s.session /\ lock(s).acting = s.acting
      /\ lock(s).join = s.join /\ lock(s).error = s.error /\ lock(s).fields = s.fields
      /\ lock(s).reveal = s.reveal /\ lock(s).merge_reveal = s.merge_reveal
  BY DEF lock, Models
<1> QED
  BY <1>1 DEF Gated, Sane

LEMMA RelockFacts ==
  ASSUME NEW s, Sane(s)
  PROVE  /\ Sane(relock(s)) /\ relock(s).identity = FALSE
         /\ relock(s).clear_in = s.clear_in /\ relock(s).idle = s.idle
         /\ relock(s).session # "Unlocked"
<1>1. s \in Models
  BY DEF Sane, Gated
<1>2. /\ relock(s).session = IF s.session = "Unlocked" THEN "Locked" ELSE "None"
      /\ relock(s).reveal = 0 /\ relock(s).merge_reveal = 0
      /\ relock(s).acting = s.acting /\ relock(s).join = s.join
      /\ relock(s).identity = FALSE
      /\ relock(s).clear_in = s.clear_in /\ relock(s).idle = s.idle
  BY <1>1 DEF relock, lock, Models
<1>3. relock(s) \in Models
  <2> DEFINE a == lock(s)
             b == [a EXCEPT !.session = IF @ = "Unlocked" THEN "Locked" ELSE "None"]
             c == [b EXCEPT !.reveal = 0]
             d == [c EXCEPT !.fields = FALSE]
             e == [d EXCEPT !.merge_reveal = 0]
             f == [e EXCEPT !.modal = NoModal]
  <2>1. a \in Models
    BY <1>1, LockFacts
  <2> HIDE DEF a
  <2>2. b \in Models
    BY <2>1 DEF Models
  <2> HIDE DEF b
  <2>3. c \in Models
    BY <2>2, TimerAssumption DEF Models
  <2> HIDE DEF c
  <2>4. d \in Models
    BY <2>3 DEF Models
  <2> HIDE DEF d
  <2>5. e \in Models
    BY <2>4, TimerAssumption DEF Models
  <2> HIDE DEF e
  <2>6. f \in Models
    BY <2>5 DEF Models, Modals
  <2> QED
    BY <2>6 DEF relock, a, b, c, d, e, f
<1> QED
  BY <1>2, <1>3 DEF Sane, Gated

LEMMA PromoteFacts ==
  ASSUME NEW s, Gated(s), NEW d \in Vaults
  PROVE  LET t == promote_session_if_unlocked(s, d)
         IN  /\ Gated(t) /\ t.acting = s.acting /\ t.join = s.join
             /\ t.clear_in = s.clear_in /\ t.idle = s.idle
             /\ t.identity => s.identity
             /\ s.session = "None" => t.session = "None"
             /\ t.session = "Unlocked" => s.session = "Unlocked" \/ s.identity
<1> DEFINE t == promote_session_if_unlocked(s, d)
<1>1. s \in Models
  BY DEF Gated
<1>2. CASE s.session # "Locked" \/ s.vault.issues \/ ~s.identity
  BY <1>2 DEF promote_session_if_unlocked
<1>3. CASE ~(s.session # "Locked" \/ s.vault.issues \/ ~s.identity)
  <2>1. CASE s.vault.me = "member"
    <3>1. t = [s EXCEPT !.session = "Unlocked"]
      BY <1>3, <2>1 DEF promote_session_if_unlocked
    <3>2. /\ t \in Models /\ t.session = "Unlocked" /\ t.acting = s.acting /\ t.join = s.join
          /\ t.clear_in = s.clear_in /\ t.idle = s.idle /\ t.identity = s.identity
      BY <1>1, <3>1 DEF Models
    <3> QED
      BY <1>3, <3>2 DEF Gated
  <2>2. CASE s.vault.me # "member" /\ d.load = "ok"
    <3>1. t = [lock(s) EXCEPT !.vault = d]
      BY <1>3, <2>2 DEF promote_session_if_unlocked
    <3>2. /\ t \in Models /\ t.session = s.session /\ t.acting = s.acting /\ t.join = s.join
          /\ t.clear_in = s.clear_in /\ t.idle = s.idle /\ t.identity = FALSE
      BY <1>1, <3>1 DEF Models, lock
    <3> QED
      BY <1>3, <3>2 DEF Gated
  <2>3. CASE s.vault.me # "member" /\ d.load # "ok"
    <3>1. t = [lock(s) EXCEPT !.session = "None", !.error = TRUE]
      BY <1>3, <2>3 DEF promote_session_if_unlocked
    <3>2. /\ t \in Models /\ t.acting = s.acting /\ t.join = s.join /\ t.error = TRUE
          /\ t.clear_in = s.clear_in /\ t.idle = s.idle /\ t.identity = FALSE
          /\ t.session = "None"
      BY <1>1, <3>1 DEF Models, lock
    <3> QED
      BY <1>3, <3>2 DEF Gated
  <2> QED
    BY <2>1, <2>2, <2>3
<1> QED
  BY <1>2, <1>3

LEMMA RefreshFacts ==
  ASSUME NEW s, Gated(s)
  PROVE  LET t == refresh_from_session(s)
         IN  /\ Sane(t) /\ t.clear_in = s.clear_in /\ t.idle = s.idle
             /\ t.identity = s.identity /\ t.session = s.session
<1> DEFINE t == refresh_from_session(s)
           a == resolve_acting(s)
           merge == s.vault.conf
           view == IF s.view = "Merge" /\ ~merge THEN "Secrets" ELSE s.view
<1>1. s \in Models /\ s.vault \in Vaults
  BY DEF Gated, Models
<1>2. CASE s.session = "None"
  BY <1>2 DEF refresh_from_session, Sane
<1>3. CASE s.session # "None"
  <2>1. a \in Models /\ a.acting = (s.vault.me # "gone") /\ a.join = (s.vault.me = "gone")
        /\ a.session = s.session /\ a.clear_in = s.clear_in /\ a.idle = s.idle
        /\ a.identity = s.identity
    BY <1>1 DEF resolve_acting, Models
  <2>2. t = [a EXCEPT !.block = s.vault.issues, !.error = FALSE, !.merge = merge,
                !.merge_reveal = 0, !.fields = FALSE,
                !.view = IF s.target THEN "Secrets" ELSE view,
                !.target = FALSE]
    BY <1>3 DEF refresh_from_session
  <2>3. merge \in BOOLEAN /\ s.vault.issues \in BOOLEAN /\ view \in Views
    BY <1>1, VaultFields DEF Models, Views
  <2> HIDE DEF a, merge, view
  <2>4. t \in Models
    <3> DEFINE b == [a EXCEPT !.block = s.vault.issues]
               c == [b EXCEPT !.error = FALSE]
               d == [c EXCEPT !.merge = merge]
               e == [d EXCEPT !.merge_reveal = 0]
               f == [e EXCEPT !.fields = FALSE]
               g == [f EXCEPT !.view = IF s.target THEN "Secrets" ELSE view]
               h == [g EXCEPT !.target = FALSE]
    <3>1. b \in Models
      BY <2>1, <2>3 DEF Models
    <3> HIDE DEF b
    <3>2. c \in Models
      BY <3>1 DEF Models
    <3> HIDE DEF c
    <3>3. d \in Models
      BY <2>3, <3>2 DEF Models
    <3> HIDE DEF d
    <3>4. e \in Models
      BY <3>3, TimerAssumption DEF Models
    <3> HIDE DEF e
    <3>5. f \in Models
      BY <3>4 DEF Models
    <3> HIDE DEF f
    <3>6. g \in Models
      BY <2>3, <3>5 DEF Models, Views
    <3> HIDE DEF g
    <3>7. h \in Models
      BY <3>6 DEF Models
    <3> QED
      BY <2>2, <3>7 DEF b, c, d, e, f, g
  <2>5. /\ t.acting = a.acting /\ t.join = a.join /\ t.session = a.session
        /\ t.clear_in = a.clear_in /\ t.idle = a.idle /\ t.identity = a.identity
    BY <2>1, <2>2 DEF Models
  <2> QED
    BY <1>3, <2>1, <2>4, <2>5 DEF Sane, Gated
<1> QED
  BY <1>2, <1>3

LEMMA ReloadFacts ==
  ASSUME NEW s \in Models, NEW d \in Vaults
  PROVE  LET t == reload(s, d)
         IN  /\ Sane(t) /\ t.clear_in = s.clear_in /\ t.idle = s.idle
             /\ t.identity => s.identity
             /\ t.session = "Unlocked" => s.identity
<1> DEFINE t == reload(s, d)
<1>1. CASE d.load = "ok"
  <2> DEFINE l == [s EXCEPT !.session = "Locked", !.vault = d]
             q == promote_session_if_unlocked(l, d)
  <2>1. /\ l \in Models /\ l.session = "Locked" /\ l.clear_in = s.clear_in /\ l.idle = s.idle
        /\ l.identity = s.identity
    BY DEF Models
  <2>2. t = refresh_from_session(q)
    BY <1>1 DEF reload
  <2> HIDE DEF l
  <2>3. Gated(l)
    BY <2>1 DEF Gated
  <2>4. /\ Gated(q) /\ q.clear_in = s.clear_in /\ q.idle = s.idle /\ (q.identity => s.identity)
        /\ q.session = "Unlocked" => s.identity
    BY <2>1, <2>3, PromoteFacts
  <2> HIDE DEF q
  <2> QED
    BY <2>2, <2>4, RefreshFacts
<1>2. CASE d.load # "ok"
  <2> DEFINE lost == [s EXCEPT !.session = "None", !.merge = FALSE]
  <2>1. t = IF d.load = "untrusted"
             THEN [lost EXCEPT !.join = TRUE, !.error = FALSE, !.acting = FALSE]
             ELSE [lost EXCEPT !.join = FALSE, !.error = TRUE]
    BY <1>2 DEF reload
  <2>2. /\ lost \in Models /\ lost.session = "None" /\ lost.clear_in = s.clear_in
        /\ lost.idle = s.idle /\ lost.identity = s.identity
    BY DEF Models
  <2> HIDE DEF lost
  <2>3. /\ t \in Models /\ t.session = "None" /\ t.clear_in = s.clear_in
        /\ t.idle = s.idle /\ t.identity = s.identity /\ (t.join = TRUE \/ t.error = TRUE)
    <3>1. CASE d.load = "untrusted"
      <4> DEFINE a == [lost EXCEPT !.join = TRUE]
                 b == [a EXCEPT !.error = FALSE]
                 c == [b EXCEPT !.acting = FALSE]
      <4>1. a \in Models /\ a.join = TRUE /\ a.session = lost.session
            /\ a.clear_in = lost.clear_in /\ a.idle = lost.idle
            /\ a.identity = lost.identity
        BY <2>2 DEF Models
      <4> HIDE DEF a
      <4>2. b \in Models /\ b.join = a.join /\ b.session = a.session
            /\ b.clear_in = a.clear_in /\ b.idle = a.idle /\ b.identity = a.identity
        BY <4>1 DEF Models
      <4> HIDE DEF b
      <4>3. c \in Models /\ c.join = b.join /\ c.session = b.session
            /\ c.clear_in = b.clear_in /\ c.idle = b.idle /\ c.identity = b.identity
        BY <4>2 DEF Models
      <4>4. t = c
        BY <2>1, <3>1 DEF a, b
      <4> QED
        BY <2>2, <4>1, <4>2, <4>3, <4>4
    <3>2. CASE d.load # "untrusted"
      <4>1. t = [lost EXCEPT !.join = FALSE, !.error = TRUE]
        BY <2>1, <3>2
      <4> QED
        BY <2>2, <4>1 DEF Models
    <3> QED
      BY <3>1, <3>2
  <2> QED
    BY <2>3 DEF Sane, Gated
<1> QED
  BY <1>1, <1>2

LEMMA SyncFacts ==
  ASSUME NEW s, Sane(s), NEW t \in fields_sync_effect(s)
  PROVE  /\ Sane(t) /\ t.clear_in = s.clear_in /\ t.identity = s.identity
         /\ t.session = s.session
         /\ t.session = "Unlocked" => t.fields
         /\ t.idle = s.idle \/ t.idle = 0
         /\ (s.session = "Unlocked" => s.fields) => t = s
<1>1. s \in Models
  BY DEF Sane, Gated
<1>2. CASE s.session = "Unlocked" /\ ~s.fields
  <2>1. t = [s EXCEPT !.fields = TRUE] \/ t = [s EXCEPT !.fields = TRUE, !.idle = 0]
    BY <1>2 DEF fields_sync_effect
  <2>2. 0 \in 0..IdleTicks
    BY TimerAssumption
  <2>3. CASE t = [s EXCEPT !.fields = TRUE]
    BY <1>1, <1>2, <2>3 DEF Models, Sane, Gated
  <2>4. CASE t = [s EXCEPT !.fields = TRUE, !.idle = 0]
    <3>1. /\ t.clear_in = s.clear_in /\ t.identity = s.identity
          /\ t.session = s.session /\ t.fields = TRUE /\ t.idle = 0
          /\ t.acting = s.acting /\ t.join = s.join
      BY <1>1, <2>4 DEF Models
    <3>2. t \in Models
      BY <1>1, <2>2, <2>4 DEF Models
    <3> QED
      BY <1>2, <3>1, <3>2 DEF Sane, Gated
  <2> QED
    BY <2>1, <2>3, <2>4
<1>3. CASE ~(s.session = "Unlocked" /\ ~s.fields)
  BY <1>3 DEF fields_sync_effect
<1> QED
  BY <1>2, <1>3

----------------------------------------------------------------------------
(* A dispatch that the user starts *)

LEMMA NoIdle ==
  ASSUME NEW s, Sane(s)
  PROVE  /\ Sane([s EXCEPT !.idle = 0])
         /\ [s EXCEPT !.idle = 0].idle = 0
         /\ [s EXCEPT !.idle = 0].clear_in = s.clear_in
<1>1. s \in Models /\ 0 \in 0..IdleTicks
  BY TimerAssumption DEF Sane, Gated
<1> DEFINE t == [s EXCEPT !.idle = 0]
<1>2. /\ t \in Models /\ t.idle = 0 /\ t.clear_in = s.clear_in /\ t.session = s.session
      /\ t.error = s.error /\ t.join = s.join /\ t.acting = s.acting
      /\ t.reveal = s.reveal /\ t.merge_reveal = s.merge_reveal
  BY <1>1 DEF Models
<1> HIDE DEF t
<1>3. Sane(t)
  BY <1>2 DEF Sane, Gated
<1> QED
  BY <1>2, <1>3 DEF t

Clips == {"empty", "secret", "invite", "stuck"}

LEMMA InputStep ==
  ASSUME NEW STATE s, Sane(s), Input(s), disk' \in Vaults, changed' \in BOOLEAN,
         clip' \in Clips, clip' \in Copies => s.clear_in > 0
  PROVE  Inductive'
<1> DEFINE t == [s EXCEPT !.idle = 0]
<1>1. Sane(t) /\ t.idle = 0 /\ t.clear_in = s.clear_in
  BY NoIdle
<1>2. m' \in fields_sync_effect(t) /\ quiet' = 0 /\ disturbed' = FALSE
  BY DEF Input
<1> HIDE DEF t
<1>3. /\ Sane(m') /\ m'.clear_in = s.clear_in /\ m'.idle = 0
      /\ m'.session = "Unlocked" => m'.fields
  BY <1>1, <1>2, SyncFacts
<1>4. m' \in Models
  BY <1>3 DEF Sane, Gated
<1>5. 0 \in 0..IdleTicks /\ 0 < IdleTicks /\ 0 >= 0
  BY TimerAssumption
<1>6. TypeOK'
  BY <1>2, <1>4, <1>5 DEF TypeOK, Clips
<1>7. m'.idle < IdleTicks /\ m'.idle >= quiet'
  BY <1>2, <1>3, <1>5
<1> QED
  BY <1>3, <1>6, <1>7 DEF Inductive

LEMMA LocalInputStep ==
  ASSUME Inductive, NEW STATE s, Sane(s), s.clear_in = m.clear_in, LocalInput(s)
  PROVE  Inductive'
<1>1. /\ disk' \in Vaults /\ changed' \in BOOLEAN /\ clip' \in Clips
      /\ clip' \in Copies => s.clear_in > 0
  BY DEF Inductive, TypeOK, LocalInput, Clips
<1> QED
  BY <1>1, InputStep DEF LocalInput

(* Changes of a model that touch neither the session nor the gates.         *)
LEMMA Cosmetic ==
  ASSUME NEW s, Sane(s)
  PROVE  /\ \A v \in Views : Sane([s EXCEPT !.view = v])
                             /\ [s EXCEPT !.view = v].clear_in = s.clear_in
         /\ \A x \in Modals : Sane([s EXCEPT !.modal = x])
                              /\ [s EXCEPT !.modal = x].clear_in = s.clear_in
         /\ \A v \in Vaults : Sane([s EXCEPT !.vault = v])
                              /\ [s EXCEPT !.vault = v].clear_in = s.clear_in
                              /\ [s EXCEPT !.vault = v].session = s.session
         /\ \A b \in BOOLEAN : Sane([s EXCEPT !.target = b])
                              /\ [s EXCEPT !.target = b].clear_in = s.clear_in
         /\ \A i \in BOOLEAN : Gated([s EXCEPT !.identity = i])
                              /\ [s EXCEPT !.identity = i].clear_in = s.clear_in
                              /\ [s EXCEPT !.identity = i].session = s.session
                              /\ [s EXCEPT !.identity = i].acting = s.acting
                              /\ [s EXCEPT !.identity = i].join = s.join
         /\ \A n \in 0..ClipTicks : Sane([s EXCEPT !.clear_in = n])
                              /\ [s EXCEPT !.clear_in = n].clear_in = n
BY DEF Sane, Gated, Models

LEMMA Reveals ==
  ASSUME NEW s, Sane(s), NEW n \in 0..RevealTicks, n = 0 \/ s.session # "None"
  PROVE  /\ Sane([s EXCEPT !.reveal = n]) /\ [s EXCEPT !.reveal = n].clear_in = s.clear_in
         /\ Sane([s EXCEPT !.merge_reveal = n])
         /\ [s EXCEPT !.merge_reveal = n].clear_in = s.clear_in
BY DEF Sane, Gated, Models

----------------------------------------------------------------------------
(* The initial state and the timer *)

LEMMA InitInductive ==
  ASSUME Init
  PROVE  Inductive
<1>1. disk \in Vaults
  BY ExternalAssumption DEF Init
<1>2. Unloadable("missing") \in Vaults
  BY DEF Vaults
<1>3. /\ Fresh \in Models /\ Fresh.identity = FALSE /\ Fresh.idle = 0 /\ Fresh.clear_in = 0
  BY <1>2, TimerAssumption DEF Fresh, Models, Views, Modals
<1>4. m = reload(Fresh, disk)
  BY DEF Init
<1>5. /\ Sane(m) /\ m.clear_in = 0 /\ m.idle = 0 /\ ~m.identity /\ m.session # "Unlocked"
  BY <1>1, <1>3, <1>4, ReloadFacts
<1>6. m \in Models /\ changed \in BOOLEAN /\ clip = "empty" /\ quiet = 0 /\ disturbed = FALSE
  BY <1>5 DEF Init, Sane, Gated
<1>7. 0 \in 0..IdleTicks
  BY TimerAssumption
<1>8. TypeOK
  BY <1>1, <1>6, <1>7 DEF TypeOK
<1> QED
  BY <1>5, <1>6, <1>8 DEF Inductive, Copies

LEMMA CountFacts ==
  ASSUME NEW B \in Nat, NEW n \in 0..B
  PROVE  /\ Count(n) \in 0..B /\ (n = 0 => Count(n) = 0) /\ (n > 1 => Count(n) > 0)
BY DEF Count

LEMMA AgedFacts ==
  ASSUME NEW s, Sane(s)
  PROVE  LET t == Aged(s)
         IN  /\ Sane(t) /\ t.clear_in = Count(s.clear_in) /\ t.identity = s.identity
             /\ t.idle = IF s.idle < IdleTicks THEN s.idle + 1 ELSE s.idle
             /\ t.session = s.session /\ t.fields = s.fields
<1> DEFINE t == Aged(s)
<1>1. s \in Models
  BY DEF Sane, Gated
<1>2. /\ s.reveal \in 0..RevealTicks /\ s.merge_reveal \in 0..RevealTicks
      /\ s.clear_in \in 0..ClipTicks /\ s.idle \in 0..IdleTicks
  BY <1>1 DEF Models
<1>3. /\ Count(s.reveal) \in 0..RevealTicks /\ Count(s.merge_reveal) \in 0..RevealTicks
      /\ Count(s.clear_in) \in 0..ClipTicks
      /\ s.reveal = 0 => Count(s.reveal) = 0
      /\ s.merge_reveal = 0 => Count(s.merge_reveal) = 0
  BY <1>2, CountFacts, TimerAssumption
<1> DEFINE i == IF s.idle < IdleTicks THEN s.idle + 1 ELSE s.idle
<1>4. i \in 0..IdleTicks
  BY <1>2, TimerAssumption
<1>5. t = [s EXCEPT !.reveal = Count(s.reveal), !.merge_reveal = Count(s.merge_reveal),
                    !.clear_in = Count(s.clear_in), !.idle = i]
  BY <1>1 DEF Aged, Models
<1> HIDE DEF i, t
<1>6. /\ t.reveal = Count(s.reveal) /\ t.merge_reveal = Count(s.merge_reveal)
      /\ t.clear_in = Count(s.clear_in) /\ t.idle = i /\ t.identity = s.identity
      /\ t.session = s.session /\ t.fields = s.fields /\ t.error = s.error /\ t.join = s.join
      /\ t.acting = s.acting
  BY <1>1, <1>5 DEF Models
<1>7. t \in Models
  <2> DEFINE a == [s EXCEPT !.reveal = Count(s.reveal)]
             b == [a EXCEPT !.merge_reveal = Count(s.merge_reveal)]
             c == [b EXCEPT !.clear_in = Count(s.clear_in)]
             d == [c EXCEPT !.idle = i]
  <2>1. a \in Models
    BY <1>1, <1>3 DEF Models
  <2> HIDE DEF a
  <2>2. b \in Models
    BY <1>3, <2>1 DEF Models
  <2> HIDE DEF b
  <2>3. c \in Models
    BY <1>3, <2>2 DEF Models
  <2> HIDE DEF c
  <2>4. d \in Models
    BY <1>4, <2>3 DEF Models
  <2> QED
    BY <1>5, <2>4 DEF a, b, c
<1>8. Sane(t)
  BY <1>3, <1>6, <1>7 DEF Sane, Gated
<1> QED
  BY <1>6, <1>8 DEF t, i

(* After the idle check an identity means that the clock is short of it.    *)
LEMMA IdleLockedFacts ==
  ASSUME NEW s, Sane(s), s.session = "Unlocked" => s.fields
  PROVE  LET t == IdleLocked(s)
         IN  /\ Sane(t) /\ t.clear_in = s.clear_in /\ t.idle = s.idle
             /\ t.identity => s.identity /\ s.idle < IdleTicks
             /\ t.session = "Unlocked" => t.fields
<1>1. s.idle \in 0..IdleTicks
  BY DEF Sane, Gated, Models
<1>2. CASE s.identity /\ s.idle >= IdleTicks
  BY <1>2, RelockFacts DEF IdleLocked
<1>3. CASE ~(s.identity /\ s.idle >= IdleTicks)
  <2>1. IdleLocked(s) = s
    BY <1>3 DEF IdleLocked
  <2> QED
    BY <1>1, <1>3, <2>1, TimerAssumption
<1> QED
  BY <1>2, <1>3

LEMMA TickStep ==
  ASSUME Inductive, NEW probe \in BOOLEAN, Tick(probe)
  PROVE  Inductive'
<1> DEFINE aged == IdleLocked(Aged(m))
           reloads == aged.session # "None" /\ probe /\ changed
           fresh == IF reloads THEN reload(aged, disk) ELSE aged
<1>1. /\ changed' = (changed /\ ~(reloads /\ Fingerprinted(fresh)))
      /\ quiet' = IF quiet < IdleTicks THEN quiet + 1 ELSE quiet
      /\ disturbed' = (disturbed \/ reloads \/ m.clear_in = 1)
      /\ UNCHANGED disk
      /\ \/ /\ m.clear_in # 1
            /\ m' \in fields_sync_effect(fresh)
            /\ UNCHANGED clip
         \/ /\ m.clear_in = 1
            /\ m' \in fields_sync_effect(fresh)
            /\ clip' = "empty"
         \/ /\ m.clear_in = 1
            /\ m' \in fields_sync_effect([fresh EXCEPT !.idle = 0])
            /\ clip' = IF clip \in Copies THEN "stuck" ELSE clip
  BY DEF Tick
<1>2. /\ TypeOK /\ Sane(m) /\ (m.session = "Unlocked" => m.fields)
      /\ (m.identity => m.idle < IdleTicks) /\ (m.identity /\ ~disturbed => m.idle >= quiet)
      /\ (clip \in Copies => m.clear_in > 0)
      /\ m.idle \in 0..IdleTicks /\ m.clear_in \in 0..ClipTicks /\ quiet \in 0..IdleTicks
      /\ IdleTicks \in Nat /\ ClipTicks \in Nat
  BY TimerAssumption DEF Inductive, TypeOK, Models
<1> DEFINE i == IF m.idle < IdleTicks THEN m.idle + 1 ELSE m.idle
<1>3. /\ Sane(aged) /\ aged.clear_in = Count(m.clear_in) /\ aged.idle = i
      /\ aged.identity => m.identity /\ i < IdleTicks
      /\ aged.session = "Unlocked" => aged.fields
  <2> DEFINE a == Aged(m)
  <2>1. /\ Sane(a) /\ a.clear_in = Count(m.clear_in) /\ a.identity = m.identity /\ a.idle = i
        /\ a.session = m.session /\ a.fields = m.fields
    BY <1>2, AgedFacts
  <2> HIDE DEF a, i
  <2>2. /\ Sane(IdleLocked(a)) /\ IdleLocked(a).clear_in = a.clear_in
        /\ IdleLocked(a).idle = a.idle
        /\ IdleLocked(a).identity => a.identity /\ a.idle < IdleTicks
        /\ IdleLocked(a).session = "Unlocked" => IdleLocked(a).fields
    BY <1>2, <2>1, IdleLockedFacts
  <2> QED
    BY <2>1, <2>2 DEF a
<1> HIDE DEF aged
<1>4. /\ Sane(fresh) /\ fresh.clear_in = aged.clear_in /\ fresh.idle = aged.idle
      /\ fresh.identity => aged.identity
  <2>1. aged \in Models /\ disk \in Vaults
    BY <1>2, <1>3 DEF Sane, Gated, TypeOK
  <2> QED
    BY <1>3, <2>1, ReloadFacts
<1> HIDE DEF fresh
<1>5. /\ Sane(m') /\ m'.clear_in = aged.clear_in /\ (m'.identity => fresh.identity)
      /\ (m'.session = "Unlocked" => m'.fields)
      /\ m'.idle = aged.idle \/ m'.idle = 0
  <2>1. CASE m' \in fields_sync_effect(fresh)
    BY <1>4, <2>1, SyncFacts
  <2>2. CASE m' \in fields_sync_effect([fresh EXCEPT !.idle = 0])
    <3> DEFINE z == [fresh EXCEPT !.idle = 0]
    <3>1. Sane(z) /\ z.idle = 0 /\ z.clear_in = fresh.clear_in /\ z.identity = fresh.identity
      BY <1>4, NoIdle DEF Sane, Gated, Models
    <3> HIDE DEF z
    <3>2. m' \in fields_sync_effect(z)
      BY <2>2 DEF z
    <3> QED
      BY <1>4, <3>1, <3>2, SyncFacts
  <2> QED
    BY <1>1, <2>1, <2>2
<1>6. m'.identity => m'.idle < IdleTicks
  BY <1>2, <1>3, <1>4, <1>5, TimerAssumption
<1>7. m'.identity /\ ~disturbed' => m'.idle >= quiet'
  <2> SUFFICES ASSUME m'.identity, ~disturbed'
               PROVE  m'.idle >= quiet'
    OBVIOUS
  <2>1. ~reloads /\ m.clear_in # 1 /\ ~disturbed
    BY <1>1
  <2>2. fresh = aged /\ m' \in fields_sync_effect(fresh)
    BY <1>1, <2>1 DEF fresh
  <2>3. m' = aged
    BY <1>3, <2>2, SyncFacts
  <2>4. m.identity /\ i < IdleTicks /\ m.idle >= quiet
    BY <1>2, <1>3, <1>4, <1>5, <2>1
  <2>5. aged.idle = i
    BY <1>3
  <2> QED
    BY <1>1, <1>2, <2>3, <2>4, <2>5
<1>8. clip' \in Copies => m'.clear_in > 0
  <2> SUFFICES ASSUME clip' \in Copies
               PROVE  Count(m.clear_in) > 0
    BY <1>3, <1>5
  <2>1. m.clear_in # 1 /\ clip \in Copies
    BY <1>1 DEF Copies
  <2>2. m.clear_in > 1
    BY <1>2, <2>1
  <2> QED
    BY <1>2, <2>2, CountFacts
<1>9. TypeOK'
  <2>1. m' \in Models
    BY <1>5 DEF Sane, Gated
  <2>2. quiet' \in 0..IdleTicks
    BY <1>1, <1>2
  <2>3. changed' \in BOOLEAN /\ disturbed' \in BOOLEAN
    BY <1>1
  <2>4. clip' \in {"empty", "secret", "invite", "stuck"} /\ disk' \in Vaults
    BY <1>1, <1>2 DEF TypeOK
  <2> QED
    BY <2>1, <2>2, <2>3, <2>4 DEF TypeOK
<1> QED
  BY <1>5, <1>6, <1>7, <1>8, <1>9 DEF Inductive

----------------------------------------------------------------------------
(* The user's operations *)

LEMMA TypesOf ==
  ASSUME Inductive
  PROVE  /\ Sane(m) /\ m \in Models /\ disk \in Vaults /\ changed \in BOOLEAN
         /\ clip \in Clips /\ m.modal \in Modals
         /\ clip \in Copies => m.clear_in > 0
BY DEF Inductive, TypeOK, Models, Clips

(* A vault that the client writes is one it could have loaded.              *)
LEMMA CommittedTypes ==
  ASSUME disk \in Vaults, disk.load = "ok", NEW kind
  PROVE  Commits(kind) \subseteq Vaults
<1>1. [disk EXCEPT !.conf = FALSE] \in Vaults /\ [disk EXCEPT !.me = "gone"] \in Vaults
  BY CommitTypes
<1> QED
  BY <1>1 DEF Commits, ResolveCommits, DeleteCommits, AccessCommits

(* A refreshed session on vault d is sane, whatever vault it held before.   *)
LEMMA RefreshedOn ==
  ASSUME NEW s, Sane(s), NEW d \in Vaults
  PROVE  LET t == refresh_from_session([s EXCEPT !.vault = d])
         IN  Sane(t) /\ t.clear_in = s.clear_in
<1> DEFINE v == [s EXCEPT !.vault = d]
<1>1. Sane(v) /\ v.clear_in = s.clear_in
  BY Cosmetic
<1> HIDE DEF v
<1>2. Sane(refresh_from_session(v)) /\ refresh_from_session(v).clear_in = v.clear_in
  BY <1>1, RefreshFacts DEF Sane
<1> QED
  BY <1>1, <1>2 DEF v

LEMMA AnsweredFacts ==
  ASSUME NEW s, Sane(s), NEW kind
  PROVE  Sane(Answered(kind, s)) /\ Answered(kind, s).clear_in = s.clear_in
<1>1. "InviteBundle" \in Modals
  BY DEF Modals
<1> QED
  BY <1>1, Cosmetic DEF Answered

LEMMA MutateStep ==
  ASSUME Inductive, NEW STATE s, Sane(s), s.clear_in = m.clear_in, NEW STATE kind,
         NEW STATE C, disk.load = "ok" => C \subseteq Vaults, Mutate(s, kind, C)
  PROVE  Inductive'
<1>1. CASE LocalInput(s)
  BY <1>1, LocalInputStep
<1>2. CASE disk.load = "ok" /\ LocalInput([s EXCEPT !.vault = disk])
  <2> DEFINE t == [s EXCEPT !.vault = disk]
  <2>1. Sane(t) /\ t.clear_in = m.clear_in
    BY TypesOf, Cosmetic
  <2>2. LocalInput(t)
    BY <1>2
  <2> HIDE DEF t
  <2> QED
    BY <2>1, <2>2, LocalInputStep
<1>3. CASE /\ disk.load = "ok" /\ disk' \in C /\ changed' = FALSE /\ UNCHANGED clip
           /\ Input(Answered(kind, refresh_from_session([s EXCEPT !.vault = disk'])))
  <2>1. PICK d \in Vaults : d = disk'
    BY <1>3
  <2> DEFINE r == refresh_from_session([s EXCEPT !.vault = d])
             t == Answered(kind, r)
  <2>2. Sane(r) /\ r.clear_in = s.clear_in
    BY RefreshedOn
  <2>3. Input(t)
    BY <1>3, <2>1 DEF Input
  <2> HIDE DEF r
  <2>4. Sane(t) /\ t.clear_in = m.clear_in
    BY <2>2, AnsweredFacts
  <2> HIDE DEF t
  <2>5. disk' \in Vaults /\ changed' \in BOOLEAN /\ clip' \in Clips
        /\ (clip' \in Copies => t.clear_in > 0)
    BY <1>3, <2>1, <2>4, TypesOf
  <2> QED
    BY <2>3, <2>4, <2>5, InputStep
<1> QED
  BY <1>1, <1>2, <1>3 DEF Mutate

LEMMA SubmitMutationStep ==
  ASSUME Inductive, SubmitMutation
  PROVE  Inductive'
<1> DEFINE t == Closed(m)
<1>1. Sane(t) /\ t.clear_in = m.clear_in
  BY TypesOf, Cosmetic DEF Closed, Modals
<1>2. LocalInput(m) \/ Mutate(t, m.modal, Commits(m.modal))
  BY DEF SubmitMutation
<1> HIDE DEF t
<1>3. disk.load = "ok" => Commits(m.modal) \subseteq Vaults
  BY TypesOf, CommittedTypes
<1>4. CASE LocalInput(m)
  BY <1>4, TypesOf, LocalInputStep
<1>5. CASE Mutate(t, m.modal, Commits(m.modal))
  BY <1>1, <1>3, <1>5, MutateStep
<1> QED
  BY <1>2, <1>4, <1>5

LEMMA EditorSubmitStep ==
  ASSUME Inductive, EditorSubmit
  PROVE  Inductive'
<1> DEFINE c == Closed(m)
           t == [c EXCEPT !.target = TRUE]
<1>1. Sane(c) /\ c.clear_in = m.clear_in
  BY TypesOf, Cosmetic DEF Closed, Modals
<1>2. Mutate(t, m.modal, {disk})
  BY DEF EditorSubmit
<1> HIDE DEF c
<1>3. Sane(t) /\ t.clear_in = m.clear_in
  BY <1>1, Cosmetic
<1> HIDE DEF t
<1>4. {disk} \subseteq Vaults
  BY TypesOf
<1> QED
  BY <1>2, <1>3, <1>4, MutateStep

LEMMA ConfirmAcceptStep ==
  ASSUME Inductive, ConfirmAccept
  PROVE  Inductive'
<1> DEFINE c == Closed(m)
<1>1. Sane(c) /\ c.clear_in = m.clear_in
  BY TypesOf, Cosmetic DEF Closed, Modals
<1>2. \/ LocalInput(c)
      \/ LocalInput([c EXCEPT !.vault = disk])
      \/ /\ disk.load = "ok" /\ disk' \in {disk, [disk EXCEPT !.conf = FALSE]}
         /\ Input(refresh_from_session([c EXCEPT !.vault = disk']))
         /\ changed' = FALSE /\ UNCHANGED clip
  BY DEF ConfirmAccept
<1> HIDE DEF c
<1>3. CASE LocalInput(c)
  BY <1>1, <1>3, LocalInputStep
<1>4. CASE LocalInput([c EXCEPT !.vault = disk])
  <2> DEFINE t == [c EXCEPT !.vault = disk]
  <2>1. Sane(t) /\ t.clear_in = m.clear_in
    BY <1>1, TypesOf, Cosmetic
  <2>2. LocalInput(t)
    BY <1>4
  <2> HIDE DEF t
  <2> QED
    BY <2>1, <2>2, LocalInputStep
<1>5. CASE /\ disk.load = "ok" /\ disk' \in {disk, [disk EXCEPT !.conf = FALSE]}
           /\ Input(refresh_from_session([c EXCEPT !.vault = disk']))
           /\ changed' = FALSE /\ UNCHANGED clip
  <2>1. PICK d \in Vaults : d = disk'
    BY <1>5, TypesOf, CommitTypes
  <2> DEFINE t == refresh_from_session([c EXCEPT !.vault = d])
  <2>2. Sane(t) /\ t.clear_in = m.clear_in
    BY <1>1, RefreshedOn
  <2>3. Input(t)
    BY <1>5, <2>1 DEF Input
  <2> HIDE DEF t
  <2>4. disk' \in Vaults /\ changed' \in BOOLEAN /\ clip' \in Clips
        /\ (clip' \in Copies => t.clear_in > 0)
    BY <1>5, <2>1, <2>2, TypesOf
  <2> QED
    BY <2>2, <2>3, <2>4, InputStep
<1> QED
  BY <1>2, <1>3, <1>4, <1>5

LEMMA UnlockSubmitStep ==
  ASSUME Inductive, UnlockSubmit
  PROVE  Inductive'
<1>1. m.session # "None"
  BY DEF UnlockSubmit, map_key, is_unlock_gate, Screen
<1> DEFINE u == [m EXCEPT !.identity = TRUE]
           s == promote_session_if_unlocked(u, disk)
           r == refresh_from_session(s)
<1>2. \/ LocalInput(lock(m))
      \/ /\ IF s.identity THEN Input(r) ELSE Input(s)
         /\ changed' = (changed /\ ~s.identity)
         /\ UNCHANGED <<disk, clip>>
  BY DEF UnlockSubmit
<1>3. /\ Gated(u) /\ u.clear_in = m.clear_in /\ u.acting = m.acting /\ u.join = m.join
  BY TypesOf, Cosmetic
<1> HIDE DEF u
<1>4. Gated(s) /\ s.clear_in = m.clear_in /\ s.acting = m.acting /\ s.join = m.join
  BY <1>3, TypesOf, PromoteFacts
<1> HIDE DEF s
<1>5. Sane(s)
  BY <1>1, <1>4, TypesOf DEF Sane
<1>6. Sane(r) /\ r.clear_in = m.clear_in
  BY <1>4, RefreshFacts
<1> HIDE DEF r
<1>7. CASE LocalInput(lock(m))
  <2>1. Sane(lock(m)) /\ lock(m).clear_in = m.clear_in
    BY TypesOf, LockFacts
  <2> QED
    BY <1>7, <2>1, LocalInputStep
<1>8. CASE /\ IF s.identity THEN Input(r) ELSE Input(s)
           /\ changed' = (changed /\ ~s.identity)
           /\ UNCHANGED <<disk, clip>>
  <2>1. disk' \in Vaults /\ changed' \in BOOLEAN /\ clip' \in Clips
        /\ (clip' \in Copies => m.clear_in > 0)
    BY <1>8, TypesOf
  <2>2. Input(r) \/ Input(s)
    BY <1>8
  <2> QED
    BY <1>4, <1>5, <1>6, <2>1, <2>2, InputStep
<1> QED
  BY <1>2, <1>7, <1>8

LEMMA InitSubmitStep ==
  ASSUME Inductive, InitSubmit
  PROVE  Inductive'
<1> DEFINE d == Loaded(FALSE, "member", FALSE)
           u == [m EXCEPT !.session = "Unlocked", !.vault = d]
           r == refresh_from_session(u)
           t == [r EXCEPT !.identity = TRUE]
<1>1. \/ LocalInput(m)
      \/ disk' = d /\ UNCHANGED clip /\ Input(t) /\ changed' = FALSE
      \/ disk' = d /\ UNCHANGED clip /\ Input(m) /\ changed' = TRUE
  BY DEF InitSubmit, Input
<1>2. d \in Vaults
  BY LoadedType
<1> HIDE DEF d
<1>3. u \in Models /\ u.clear_in = m.clear_in /\ u.session = "Unlocked"
  BY <1>2, TypesOf DEF Models
<1> HIDE DEF u
<1>4. Sane(r) /\ r.clear_in = m.clear_in
  BY <1>3, RefreshFacts DEF Gated
<1> HIDE DEF r
<1>5. Sane(t) /\ t.clear_in = m.clear_in
  <2>1. /\ Gated(t) /\ t.clear_in = r.clear_in /\ t.session = r.session
        /\ t.acting = r.acting /\ t.join = r.join
    BY <1>4, Cosmetic
  <2> HIDE DEF t
  <2> QED
    BY <1>4, <2>1 DEF Sane
<1> HIDE DEF t
<1>6. CASE LocalInput(m)
  BY <1>6, TypesOf, LocalInputStep
<1>7. ASSUME disk' = d, UNCHANGED clip, Input(t), changed' = FALSE
      PROVE  Inductive'
  <2>1. disk' \in Vaults /\ changed' \in BOOLEAN /\ clip' \in Clips
        /\ (clip' \in Copies => t.clear_in > 0)
    BY <1>2, <1>5, <1>7, TypesOf
  <2> QED
    BY <1>5, <1>7, <2>1, InputStep
<1>8. ASSUME disk' = d, UNCHANGED clip, Input(m), changed' = TRUE
      PROVE  Inductive'
  <2>1. disk' \in Vaults /\ changed' \in BOOLEAN /\ clip' \in Clips
        /\ (clip' \in Copies => m.clear_in > 0)
    BY <1>2, <1>8, TypesOf
  <2> QED
    BY <1>8, <2>1, TypesOf, InputStep
<1> QED
  BY <1>1, <1>6, <1>7, <1>8

LEMMA SubmitClaimStep ==
  ASSUME Inductive, SubmitClaim
  PROVE  Inductive'
<1> DEFINE c == Closed(m)
           u == [c EXCEPT !.identity = TRUE]
           d == Loaded(disk.issues, "member", disk.conf)
           t == reload(u, d)
<1>1. \/ LocalInput(m) \/ LocalInput(c)
      \/ disk' = d /\ Input(t) /\ changed' = FALSE /\ UNCHANGED clip
  BY DEF SubmitClaim, Input
<1>2. Sane(c) /\ c.clear_in = m.clear_in
  BY TypesOf, Cosmetic DEF Closed, Modals
<1> HIDE DEF c
<1>3. u \in Models /\ u.clear_in = m.clear_in
  BY <1>2, Cosmetic DEF Gated
<1>4. d \in Vaults
  BY TypesOf, VaultFields, LoadedType
<1> HIDE DEF u, d
<1>5. Sane(t) /\ t.clear_in = m.clear_in
  BY <1>3, <1>4, ReloadFacts
<1> HIDE DEF t
<1>6. ASSUME disk' = d, Input(t), changed' = FALSE, UNCHANGED clip
      PROVE  Inductive'
  <2>1. disk' \in Vaults /\ changed' \in BOOLEAN /\ clip' \in Clips
        /\ (clip' \in Copies => t.clear_in > 0)
    BY <1>4, <1>5, <1>6, TypesOf
  <2> QED
    BY <1>5, <1>6, <2>1, InputStep
<1> QED
  BY <1>1, <1>2, <1>6, TypesOf, LocalInputStep

(* What a reveal, a lock and a copy do to the model.                        *)
LEMMA Shown ==
  ASSUME Inductive
  PROVE  /\ LocalInput(m) => Inductive'
         /\ LocalInput(relock(m)) => Inductive'
         /\ \A n \in {0, RevealTicks} : n = 0 \/ m.session # "None" =>
              /\ LocalInput([m EXCEPT !.reveal = n]) => Inductive'
              /\ LocalInput([m EXCEPT !.merge_reveal = n]) => Inductive'
         /\ \A x \in Modals : LocalInput([m EXCEPT !.modal = x]) => Inductive'
         /\ \A v \in Views : LocalInput([m EXCEPT !.view = v]) => Inductive'
<1>1. LocalInput(m) => Inductive'
  BY TypesOf, LocalInputStep
<1>2. LocalInput(relock(m)) => Inductive'
  BY TypesOf, RelockFacts, LocalInputStep
<1>3. ASSUME NEW n \in {0, RevealTicks}, n = 0 \/ m.session # "None"
      PROVE  /\ LocalInput([m EXCEPT !.reveal = n]) => Inductive'
             /\ LocalInput([m EXCEPT !.merge_reveal = n]) => Inductive'
  <2> DEFINE s == [m EXCEPT !.reveal = n]
             t == [m EXCEPT !.merge_reveal = n]
  <2>1. n \in 0..RevealTicks
    BY TimerAssumption
  <2>2. Sane(s) /\ s.clear_in = m.clear_in /\ Sane(t) /\ t.clear_in = m.clear_in
    BY <1>3, <2>1, TypesOf, Reveals
  <2> HIDE DEF s, t
  <2>3. (LocalInput(s) => Inductive') /\ (LocalInput(t) => Inductive')
    BY <2>2, LocalInputStep
  <2> QED
    BY <2>3 DEF s, t
<1>4. ASSUME NEW x \in Modals, LocalInput([m EXCEPT !.modal = x])
      PROVE  Inductive'
  <2> DEFINE s == [m EXCEPT !.modal = x]
  <2>1. Sane(s) /\ s.clear_in = m.clear_in /\ LocalInput(s)
    BY <1>4, TypesOf, Cosmetic
  <2> HIDE DEF s
  <2> QED
    BY <2>1, LocalInputStep
<1>5. ASSUME NEW v \in Views, LocalInput([m EXCEPT !.view = v])
      PROVE  Inductive'
  <2> DEFINE s == [m EXCEPT !.view = v]
  <2>1. Sane(s) /\ s.clear_in = m.clear_in /\ LocalInput(s)
    BY <1>5, TypesOf, Cosmetic
  <2> HIDE DEF s
  <2> QED
    BY <2>1, LocalInputStep
<1> QED
  BY <1>1, <1>2, <1>3, <1>4, <1>5

LEMMA CopiedStep ==
  ASSUME Inductive, NEW what \in Clips, Copied(m, what)
  PROVE  Inductive'
<1> DEFINE t == [m EXCEPT !.clear_in = ClipTicks]
<1>1. Input(t) /\ UNCHANGED <<disk, changed>> /\ (clip' = what \/ UNCHANGED clip)
  BY DEF Copied
<1>2. ClipTicks \in 0..ClipTicks /\ ClipTicks > 0
  BY TimerAssumption
<1>3. Sane(t) /\ t.clear_in = ClipTicks
  BY <1>2, TypesOf, Cosmetic
<1> HIDE DEF t
<1>4. disk' \in Vaults /\ changed' \in BOOLEAN /\ clip' \in Clips
      /\ (clip' \in Copies => t.clear_in > 0)
  BY <1>1, <1>2, <1>3, TypesOf
<1> QED
  BY <1>1, <1>3, <1>4, InputStep

LEMMA RevealStep ==
  ASSUME Inductive, Reveal
  PROVE  Inductive'
<1>1. \/ LocalInput(m) \/ LocalInput(relock(m))
      \/ LocalInput([m EXCEPT !.merge_reveal = 0])
      \/ LocalInput([m EXCEPT !.reveal = 0])
      \/ m.session = "Unlocked" /\ LocalInput([m EXCEPT !.merge_reveal = RevealTicks])
      \/ m.session = "Unlocked" /\ LocalInput([m EXCEPT !.reveal = RevealTicks])
  <2> USE DEF Reveal, GetSecret, RevealConflictCandidates
  <2>1. CASE m.view = "Merge"
    BY <2>1
  <2>2. CASE m.view = "Secrets"
    BY <2>2
  <2>3. CASE m.view # "Merge" /\ m.view # "Secrets"
    BY <2>3
  <2> QED
    BY <2>1, <2>2, <2>3
<1> QED
  BY <1>1, Shown

LEMMA HideRevealStep ==
  ASSUME Inductive, HideReveal
  PROVE  Inductive'
<1> DEFINE a == [m EXCEPT !.reveal = 0]
           b == [a EXCEPT !.merge_reveal = 0]
<1>1. LocalInput(b)
  BY DEF HideReveal
<1>2. 0 \in 0..RevealTicks
  BY TimerAssumption
<1>3. Sane(a) /\ a.clear_in = m.clear_in
  BY <1>2, TypesOf, Reveals
<1> HIDE DEF a
<1>4. Sane(b) /\ b.clear_in = m.clear_in
  BY <1>2, <1>3, Reveals
<1> HIDE DEF b
<1> QED
  BY <1>1, <1>4, LocalInputStep

LEMMA ExternalWriteStep ==
  ASSUME Inductive, NEW v \in External, ExternalWrite(v)
  PROVE  Inductive'
BY ExternalAssumption DEF ExternalWrite, Inductive, TypeOK, Sane, Gated

LEMMA QuitStep ==
  ASSUME TypeOK, Quit
  PROVE  Ended'
<1>1. Unloadable("missing") \in Vaults
  BY DEF Vaults
<1>2. Fresh \in Models
  BY <1>1, TimerAssumption DEF Fresh, Models, Views, Modals
<1> DEFINE s == [Fresh EXCEPT !.should_quit = TRUE]
<1>3. s \in Models /\ s.should_quit = TRUE /\ s.session = Fresh.session
      /\ s.identity = Fresh.identity /\ s.reveal = Fresh.reveal
      /\ s.merge_reveal = Fresh.merge_reveal
  BY <1>2 DEF Models
<1>4. /\ Fresh.session = "None" /\ Fresh.identity = FALSE /\ Fresh.reveal = 0
      /\ Fresh.merge_reveal = 0
  BY DEF Fresh
<1>5. m' = s /\ quiet' = 0 /\ disturbed' = FALSE /\ UNCHANGED <<disk, changed, clip>>
  BY DEF Quit
<1> HIDE DEF s
<1>6. 0 \in 0..IdleTicks
  BY TimerAssumption
<1>7. TypeOK'
  BY <1>3, <1>5, <1>6 DEF TypeOK
<1> QED
  BY <1>3, <1>4, <1>5, <1>7 DEF Ended

LEMMA DispatchInductive ==
  ASSUME Inductive, Dispatch
  PROVE  Inductive' \/ Ended'
<1>1. CASE \E probe \in BOOLEAN : Tick(probe)
  BY <1>1, TickStep
<1>2. CASE UnlockSubmit \/ InitSubmit \/ SubmitClaim
  BY <1>2, UnlockSubmitStep, InitSubmitStep, SubmitClaimStep
<1>3. CASE \E v \in Views : SwitchView(v)
  BY <1>3, Shown DEF SwitchView
<1>4. CASE LockNow
  BY <1>4, Shown DEF LockNow
<1>5. CASE Reveal \/ HideReveal
  BY <1>5, RevealStep, HideRevealStep
<1>6. CASE Copy
  BY <1>6, Shown, CopiedStep DEF Copy, GetSecret, Clips
<1>7. CASE StartEdit
  <2>1. "EditorStored" \in Modals
    BY DEF Modals
  <2> QED
    BY <1>7, <2>1, Shown DEF StartEdit, GetSecret
<1>8. CASE StartClaim
  <2>1. "FormClaim" \in Modals
    BY DEF Modals
  <2> QED
    BY <1>8, <2>1, Shown DEF StartClaim
<1>9. CASE \E n \in Notes : OpenNote(n)
  <2>1. Notes \subseteq Modals
    BY DEF Modals
  <2> QED
    BY <1>9, <2>1, Shown DEF OpenNote
<1>10. CASE \E modal \in (MutationModals \ Confirms) \cup {"FormNewSecret"} : StartForm(modal)
  <2>1. MutationModals \cup {"FormNewSecret"} \subseteq Modals
    BY DEF Modals
  <2> QED
    BY <1>10, <2>1, Shown DEF StartForm
<1>11. CASE \E modal \in Confirms \cup {"ConfirmAccept"} : RequestConfirm(modal)
  <2>1. Confirms \cup {"ConfirmAccept"} \subseteq Modals
    BY DEF Modals, MutationModals
  <2> QED
    BY <1>11, <2>1, Shown DEF RequestConfirm
<1>12. CASE CloseModal
  <2>1. NoModal \in Modals
    BY DEF Modals
  <2> QED
    BY <1>12, <2>1, Shown DEF CloseModal, Closed
<1>13. CASE SubmitNewSecret
  <2>1. "EditorNew" \in Modals
    BY DEF Modals
  <2> QED
    BY <1>13, <2>1, Shown DEF SubmitNewSecret
<1>14. CASE SubmitMutation \/ ConfirmAccept \/ EditorSubmit
  BY <1>14, SubmitMutationStep, ConfirmAcceptStep, EditorSubmitStep
<1>15. CASE CopyInviteBundle
  BY <1>15, CopiedStep DEF CopyInviteBundle, Clips
<1>16. CASE Quit
  BY <1>16, QuitStep DEF Inductive
<1> QED
  BY <1>1, <1>2, <1>3, <1>4, <1>5, <1>6, <1>7, <1>8, <1>9, <1>10, <1>11,
     <1>12, <1>13, <1>14, <1>15, <1>16 DEF Dispatch

LEMMA NextInductive ==
  ASSUME Inductive \/ Ended, [Next]_vars
  PROVE  Inductive' \/ Ended'
<1>1. CASE UNCHANGED vars
  BY <1>1 DEF vars, Inductive, Ended, TypeOK, Sane, Gated
<1>2. CASE \E v \in External : ExternalWrite(v)
  <2>1. CASE Inductive
    BY <1>2, <2>1, ExternalWriteStep
  <2>2. CASE Ended
    BY <1>2, <2>2, ExternalAssumption DEF ExternalWrite, Ended, TypeOK
  <2> QED
    BY <2>1, <2>2
<1>3. CASE ~m.should_quit /\ Dispatch
  <2>1. Inductive
    BY <1>3 DEF Ended
  <2> QED
    BY <1>3, <2>1, DispatchInductive
<1> QED
  BY <1>1, <1>2, <1>3 DEF Next

----------------------------------------------------------------------------
(* Results *)

(* Between two dispatches of the client its model is sane, its fields are in *)
(* step and its clocks are what the timers rely on, until it has quit.       *)
THEOREM Invariance == Spec => [](Inductive \/ Ended)
<1>1. Init => Inductive
  BY InitInductive
<1>2. (Inductive \/ Ended) /\ [Next]_vars => (Inductive \/ Ended)'
  BY NextInductive
<1> QED
  BY <1>1, <1>2, PTL DEF Spec

(* Every field of the model, the vault file, the clipboard and the clocks    *)
(* keep their types; the countdowns never leave their bounds.                *)
THEOREM TypesCorrect == Spec => []TypeOK
<1>1. Inductive \/ Ended => TypeOK
  BY DEF Inductive, Ended
<1> QED
  BY <1>1, Invariance, PTL

(* A loaded vault or a revealed value is drawn only while an identity is     *)
(* unlocked: a session always has somebody acting or the join gate, and the  *)
(* unlock gate stands before whoever acts without an identity.               *)
THEOREM WorkspaceGated == Spec => []WorkspaceNeedsIdentity
<1>1. Inductive => WorkspaceNeedsIdentity
  <2> SUFFICES ASSUME Inductive, Screen(m) = "workspace", ~m.identity
               PROVE  m.session = "None" /\ m.reveal = 0 /\ m.merge_reveal = 0
    BY DEF WorkspaceNeedsIdentity
  <2>1. ~is_unlock_gate(m) /\ ~m.error /\ ~is_join_gate(m) /\ ~m.block
    BY DEF Screen
  <2>2. ~m.join
    BY <2>1 DEF is_join_gate
  <2>3. m.session = "None" \/ ~m.acting
    BY <2>1 DEF is_unlock_gate
  <2>4. m.session = "None"
    BY <2>2, <2>3 DEF Inductive, Sane
  <2> QED
    BY <2>1, <2>2, <2>4 DEF Inductive, Sane, Gated
<1>2. Ended => WorkspaceNeedsIdentity
  BY DEF Ended, WorkspaceNeedsIdentity
<1> QED
  BY <1>1, <1>2, Invariance, PTL

(* Until the client quits, a secret value or an invite it put on the         *)
(* clipboard has a deadline, whatever locks, reloads and failed promotions   *)
(* came after the copy.                                                      *)
THEOREM CopyTimed == Spec => []SecretCopyIsTimed
<1>1. Inductive \/ Ended => SecretCopyIsTimed
  BY DEF Inductive, Ended, SecretCopyIsTimed
<1> QED
  BY <1>1, Invariance, PTL

(* Nobody at the keyboard for the idle time means no identity, unless a tick *)
(* answered by itself: the idle clock is never behind the quiet time.        *)
THEOREM UnattendedClientLocks == Spec => []UnattendedLocks
<1>1. Inductive => UnattendedLocks
  <2> SUFFICES ASSUME Inductive, m.identity, quiet >= IdleTicks, ~disturbed
               PROVE  FALSE
    BY DEF UnattendedLocks
  <2>1. m.idle < IdleTicks /\ m.idle >= quiet /\ m.idle \in Nat /\ quiet \in Nat
        /\ IdleTicks \in Nat
    BY TimerAssumption DEF Inductive, TypeOK, Models
  <2> QED
    BY <2>1
<1>2. Ended => UnattendedLocks
  BY DEF Ended, UnattendedLocks
<1> QED
  BY <1>1, <1>2, Invariance, PTL
=============================================================================
