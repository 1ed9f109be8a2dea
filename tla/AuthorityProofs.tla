-------------------------- MODULE AuthorityProofs ---------------------------
(***************************************************************************)
(* Proofs about authority and about what the commands make of it.          *)
(*                                                                         *)
(* Subsumption is sound, and delegation guarded by can_create_permission   *)
(* never amplifies what a set of users can do, for every keyspace and      *)
(* every number of users and grants.                                       *)
(*                                                                         *)
(* validate_v1 shows nothing behind the ratchet, resolves every deletion   *)
(* its signer may make, and stays as it is when what it admitted is        *)
(* remembered.  Hence CommandsInv, the inductive invariant of the          *)
(* commands: for any people, machines, histories and merges, no worktree   *)
(* shows or gives out anything older than its machine has seen admitted,   *)
(* and deleted users come back without what they had.                      *)
(***************************************************************************)
EXTENDS Delegation, Commands, FiniteSetTheorems, WellFoundedInduction, NaturalsInduction, TLAPS

(* ------------------------ subsumption is sound ------------------------- *)

\* tuple_subsumes: a tuple the child matcher accepts, the parent accepts.
LEMMA TupleSubsumesSound ==
    ASSUME NEW parent \in TupleMatchers, NEW child \in TupleMatchers,
           NEW t \in Tuples,
           tuple_subsumes(parent, child), tuple_matches(child, t)
    PROVE  tuple_matches(parent, t)
<1>0. ASSUME NEW m \in TupleMatchers
      PROVE  m.tuple \in Seq(Segments)
  <2>1. \/ m.tuple = <<>>
        \/ m.tuple \in Tuples
    BY DEF TupleMatchers
  <2>2. <<>> \in Seq(Segments)
    OBVIOUS
  <2> QED
    BY <2>1, <2>2, TuplesAssumption
<1>1. parent.tuple \in Seq(Segments) /\ child.tuple \in Seq(Segments)
        /\ t \in Seq(Segments)
  BY <1>0, TuplesAssumption
<1>2. CASE parent.kind = "any"
  BY <1>2 DEF tuple_matches
<1>3. CASE parent.kind = "prefix"
  <2>1. /\ child.kind \in {"prefix", "exact"}
        /\ starts_with(child.tuple, parent.tuple)
    BY <1>3 DEF tuple_subsumes
  <2>2. starts_with(t, child.tuple)
    BY <1>1, <2>1 DEF tuple_matches, starts_with
  <2>3. starts_with(t, parent.tuple)
    BY <1>1, <2>1, <2>2 DEF starts_with
  <2> QED
    BY <1>3, <2>3 DEF tuple_matches
<1>4. CASE parent.kind = "exact"
  BY <1>4 DEF tuple_subsumes, tuple_matches
<1> QED
  BY <1>2, <1>3, <1>4 DEF TupleMatchers

\* label_subsumes: a label value the child matcher accepts, the parent accepts.
LEMMA LabelSubsumesSound ==
    ASSUME NEW parent \in LabelMatchers, NEW child \in LabelMatchers,
           NEW v \in LabelValues \cup {NoLabel},
           label_subsumes(parent, child), label_matches(child, v)
    PROVE  label_matches(parent, v)
BY DEF LabelMatchers, label_subsumes, label_matches

\* selector_subsumes: a secret the child selector matches, the parent matches.
LEMMA SelectorSubsumesSound ==
    ASSUME NEW parent \in Selectors, NEW child \in Selectors,
           NEW s \in Secrets,
           selector_subsumes(parent, child), selector_matches(child, s)
    PROVE  selector_matches(parent, s)
<1>1. tuple_matches(parent.tuple, s.tuple)
  BY TupleSubsumesSound DEF Selectors, Secrets, selector_subsumes, selector_matches
<1>2. ASSUME NEW l \in LabelKeys
      PROVE  label_matches(parent.labels[l], s.labels[l])
  <2>1. /\ parent.labels[l] \in LabelMatchers
        /\ child.labels[l] \in LabelMatchers
        /\ s.labels[l] \in LabelValues \cup {NoLabel}
    BY DEF Selectors, Secrets
  <2>2. label_matches(child.labels[l], s.labels[l])
    BY DEF selector_matches
  <2>3. CASE parent.labels[l].kind = "none"
    BY <2>3 DEF label_matches
  <2>4. CASE parent.labels[l].kind # "none"
    <3>1. label_subsumes(parent.labels[l], child.labels[l])
      BY <2>4 DEF selector_subsumes, labels_subsume
    <3> QED
      BY <2>1, <2>2, <3>1, LabelSubsumesSound
  <2> QED
    BY <2>3, <2>4
<1> QED
  BY <1>1, <1>2 DEF selector_matches

(* ------------------- what may be created is already held --------------- *)

\* A secret covered by something lying under one of sels is covered by sels.
LEMMA OverCovers ==
    ASSUME NEW sels \in SUBSET Selectors, NEW sel \in Selectors, NEW s \in Secrets,
           Over(sels, sel), selector_matches(sel, s)
    PROVE  Covers(sels, s)
BY SelectorSubsumesSound DEF Over, Covers

\* The selectors of manage grants are selectors.
LEMMA ManagedType ==
    ASSUME NEW a \in AuthoritySets
    PROVE  Managed(a) \in SUBSET Selectors
BY DEF Managed, AuthoritySets, ManageGrants

\* can_create_permission only accepts what its holder can exercise itself.
LEMMA CreateOnlyHeld ==
    ASSUME NEW a \in AuthoritySets, NEW p \in Permissions, NEW s \in Secrets,
           can_create_permission(a, p), selector_matches(p.selector, s)
    PROVE  /\ p.class = "read" => can_read(a, s)
           /\ p.class = "write" => can_write(a, s)
           /\ p.class = "manage" => can_manage(a, s)
<1>1. p.selector \in Selectors \/ p.class = "administer"
  BY DEF Permissions, Read, Write, Manage, Administer
<1>2. /\ a.read \cup a.write \cup Managed(a) \in SUBSET Selectors
      /\ a.write \cup Managed(a) \in SUBSET Selectors
      /\ Managed(a) \in SUBSET Selectors
  BY ManagedType DEF AuthoritySets
<1>3. CASE a.administer
  BY <1>3 DEF can_read, can_write, can_manage
<1>4. CASE ~a.administer /\ p.class = "read"
  <2>1. Over(a.read \cup a.write \cup Managed(a), p.selector)
    BY <1>4 DEF can_create_permission, holds_read_over
  <2> QED
    BY <1>1, <1>2, <1>4, <2>1, OverCovers DEF can_read
<1>5. CASE ~a.administer /\ p.class = "write"
  <2>1. Over(a.write \cup Managed(a), p.selector)
    BY <1>5 DEF can_create_permission, holds_write_over
  <2> QED
    BY <1>1, <1>2, <1>5, <2>1, OverCovers DEF can_write
<1>6. CASE ~a.administer /\ p.class = "manage"
  <2>1. Over(Managed(a), p.selector)
    BY <1>6 DEF can_create_permission, Over, Managed
  <2> QED
    BY <1>1, <1>2, <1>6, <2>1, OverCovers DEF can_manage
<1> QED
  BY <1>3, <1>4, <1>5, <1>6

(* --------------------------- type correctness -------------------------- *)

\* add_permission returns an authority set.
LEMMA AddPermissionType ==
    ASSUME NEW a \in AuthoritySets, NEW p \in Permissions
    PROVE  add_permission(a, p) \in AuthoritySets
<1>1. CASE p \in {Read(s) : s \in Selectors}
  <2>1. p.class = "read" /\ p.selector \in Selectors
    BY <1>1 DEF Read
  <2> QED
    BY <2>1 DEF add_permission, AuthoritySets
<1>2. CASE p \in {Write(s) : s \in Selectors}
  <2>1. p.class = "write" /\ p.selector \in Selectors
    BY <1>2 DEF Write
  <2> QED
    BY <2>1 DEF add_permission, AuthoritySets
<1>3. CASE p \in {Manage(s, c) : s \in Selectors, c \in SUBSET GrantClasses \ {{}}}
  <2>1. /\ p.class = "manage"
        /\ p.selector \in Selectors
        /\ p.grantable \in SUBSET GrantClasses \ {{}}
    BY <1>3 DEF Manage
  <2>2. [selector |-> p.selector, grantable |-> p.grantable] \in ManageGrants
    BY <2>1 DEF ManageGrants
  <2> QED
    BY <2>1, <2>2 DEF add_permission, AuthoritySets
<1>4. CASE p = Administer
  <2>1. p.class = "administer"
    BY <1>4 DEF Administer
  <2> QED
    BY <2>1 DEF add_permission, AuthoritySets
<1> QED
  BY <1>1, <1>2, <1>3, <1>4 DEF Permissions

\* merge_from returns an authority set.
LEMMA MergeFromType ==
    ASSUME NEW a \in AuthoritySets, NEW b \in AuthoritySets
    PROVE  merge_from(a, b) \in AuthoritySets
BY DEF merge_from, AuthoritySets

\* Authority stays well formed: grant_permission and add_group_member only
\* ever build AuthoritySets.
THEOREM DelegationTypeCorrect == DelegationSpec => []DelegationTypeOK
<1>1. DelegationInit => DelegationTypeOK
  BY StartsAssumption, MaxGrantsAssumption DEF DelegationInit, DelegationTypeOK
<1>2. DelegationTypeOK /\ [DelegationNext]_delegationVars => DelegationTypeOK'
  <2> SUFFICES ASSUME DelegationTypeOK, [DelegationNext]_delegationVars
               PROVE  DelegationTypeOK'
    OBVIOUS
  <2>1. ASSUME NEW i \in Holders, NEW s \in Holders, NEW p \in Permissions,
               delegate_permission(i, s, p)
        PROVE  DelegationTypeOK'
    <3>1. add_permission(auth[s], p) \in AuthoritySets
      BY AddPermissionType DEF DelegationTypeOK
    <3>2. MaxGrants[start] \in Nat
      BY MaxGrantsAssumption DEF DelegationTypeOK
    <3> QED
      BY <2>1, <3>1, <3>2 DEF delegate_permission, DelegationTypeOK
  <2>2. ASSUME NEW a \in Holders, NEW g \in Holders, NEW m \in Holders,
               confer_group(a, g, m)
        PROVE  DelegationTypeOK'
    <3>1. merge_from(auth[m], auth[g]) \in AuthoritySets
      BY MergeFromType DEF DelegationTypeOK
    <3>2. MaxGrants[start] \in Nat
      BY MaxGrantsAssumption DEF DelegationTypeOK
    <3> QED
      BY <2>2, <3>1, <3>2 DEF confer_group, DelegationTypeOK
  <2>3. CASE UNCHANGED delegationVars
    BY <2>3 DEF delegationVars, DelegationTypeOK
  <2> QED
    BY <2>1, <2>2, <2>3 DEF DelegationNext
<1> QED
  BY <1>1, <1>2, PTL DEF DelegationSpec

(* ---------------------- delegation never amplifies --------------------- *)

\* administer > manage > write > read.
LEMMA Hierarchy ==
    ASSUME NEW a \in AuthoritySets, NEW x \in Secrets
    PROVE  /\ a.administer => can_manage(a, x)
           /\ can_manage(a, x) => can_write(a, x)
           /\ can_write(a, x) => can_read(a, x)
BY DEF can_read, can_write, can_manage, Covers

\* What adding one permission to an authority set can add to its reach.
LEMMA AddPermissionReach ==
    ASSUME NEW a \in AuthoritySets, NEW p \in Permissions, NEW x \in Secrets
    PROVE  LET b == add_permission(a, p) IN
           /\ can_manage(b, x) => \/ can_manage(a, x) \/ p.class = "administer"
                                  \/ p.class = "manage" /\ selector_matches(p.selector, x)
           /\ can_write(b, x) => \/ can_write(a, x) \/ p.class = "administer"
                                 \/ /\ p.class \in {"write", "manage"}
                                    /\ selector_matches(p.selector, x)
           /\ can_read(b, x) => \/ can_read(a, x) \/ p.class = "administer"
                                \/ /\ p.class \in {"read", "write", "manage"}
                                   /\ selector_matches(p.selector, x)
<1> DEFINE b == add_permission(a, p)
<1>0. p.class \in {"read", "write", "manage", "administer"}
  BY DEF Permissions, Read, Write, Manage, Administer
<1>1. CASE p.class = "read"
  <2>1. /\ b.read = a.read \cup {p.selector} /\ b.write = a.write
        /\ b.manage = a.manage /\ b.administer = a.administer
    BY <1>1 DEF add_permission, AuthoritySets
  <2>2. Managed(b) = Managed(a)
    BY <2>1 DEF Managed
  <2> QED
    BY <1>1, <2>1, <2>2 DEF can_read, can_write, can_manage, Covers
<1>2. CASE p.class = "write"
  <2>1. /\ b.read = a.read /\ b.write = a.write \cup {p.selector}
        /\ b.manage = a.manage /\ b.administer = a.administer
    BY <1>2 DEF add_permission, AuthoritySets
  <2>2. Managed(b) = Managed(a)
    BY <2>1 DEF Managed
  <2> QED
    BY <1>2, <2>1, <2>2 DEF can_read, can_write, can_manage, Covers
<1>3. CASE p.class = "manage"
  <2>1. /\ b.read = a.read /\ b.write = a.write
        /\ b.manage = a.manage \cup
               {[selector |-> p.selector, grantable |-> p.grantable]}
        /\ b.administer = a.administer
    BY <1>3 DEF add_permission, AuthoritySets
  <2>2. Managed(b) = Managed(a) \cup {p.selector}
    <3> HIDE DEF b
    <3>1. ASSUME NEW sel \in Managed(b)
          PROVE  sel \in Managed(a) \cup {p.selector}
      BY <2>1 DEF Managed
    <3>2. Managed(a) \subseteq Managed(b)
      BY <2>1 DEF Managed
    <3>3. p.selector \in Managed(b)
      <4> DEFINE m == [selector |-> p.selector, grantable |-> p.grantable]
      <4>1. m \in b.manage /\ m.selector = p.selector
        BY <2>1
      <4> QED
        BY <4>1 DEF Managed
    <3> QED
      BY <3>1, <3>2, <3>3
  <2> QED
    BY <1>3, <2>1, <2>2 DEF can_read, can_write, can_manage, Covers
<1>4. CASE p.class = "administer"
  BY <1>4
<1> QED
  BY <1>0, <1>1, <1>2, <1>3, <1>4

\* Only an administrator can make an administrator.
LEMMA GrantAdminister ==
    ASSUME NEW i \in AuthoritySets, NEW a \in AuthoritySets,
           NEW p \in Permissions, can_create_permission(i, p)
    PROVE  add_permission(a, p).administer => a.administer \/ i.administer
<1>1. CASE p.class = "administer"
  BY <1>1 DEF can_create_permission
<1>2. CASE p.class \in {"read", "write", "manage"}
  BY <1>2 DEF add_permission, AuthoritySets
<1> QED
  BY <1>1, <1>2 DEF Permissions, Read, Write, Manage, Administer

\* A permission p that issuer may create reaches nothing issuer does not.
LEMMA GrantReach ==
    ASSUME NEW i \in AuthoritySets, NEW a \in AuthoritySets,
           NEW p \in Permissions, NEW x \in Secrets, can_create_permission(i, p)
    PROVE  LET b == add_permission(a, p) IN
           /\ can_manage(b, x) => can_manage(a, x) \/ can_manage(i, x)
           /\ can_write(b, x) => can_write(a, x) \/ can_write(i, x)
           /\ can_read(b, x) => can_read(a, x) \/ can_read(i, x)
<1>1. p.class = "administer" => i.administer
  BY DEF can_create_permission
<1>2. selector_matches(p.selector, x) =>
          /\ p.class = "read" => can_read(i, x)
          /\ p.class = "write" => can_write(i, x)
          /\ p.class = "manage" => can_manage(i, x)
  BY CreateOnlyHeld
<1>3. /\ i.administer => can_manage(i, x)
      /\ can_manage(i, x) => can_write(i, x)
      /\ can_write(i, x) => can_read(i, x)
  BY Hierarchy
<1> QED
  BY <1>1, <1>2, <1>3, AddPermissionReach

\* Merging a group's authority into a member's reaches nothing that neither
\* of the two reaches.
LEMMA MergeReach ==
    ASSUME NEW a \in AuthoritySets, NEW g \in AuthoritySets, NEW x \in Secrets
    PROVE  LET b == merge_from(a, g) IN
           /\ can_manage(b, x) => can_manage(a, x) \/ can_manage(g, x)
           /\ can_write(b, x) => can_write(a, x) \/ can_write(g, x)
           /\ can_read(b, x) => can_read(a, x) \/ can_read(g, x)
<1>1. Managed(merge_from(a, g)) = Managed(a) \cup Managed(g)
  BY DEF merge_from, Managed
<1> QED
  BY <1>1 DEF merge_from, can_read, can_write, can_manage, Covers

\* No chain of grants that can_create_permission accepts, and no group
\* membership that ensure_can_confer_group accepts, gives anybody access to a
\* secret that nobody had access to at the start.
THEOREM DelegationNeverAmplifies == DelegationSpec => []NoAmplification
<1>1. DelegationInit => NoAmplification
  BY DEF DelegationInit, NoAmplification, AdministerWithin
<1>2. DelegationTypeOK /\ NoAmplification /\ [DelegationNext]_delegationVars => NoAmplification'
  <2> SUFFICES ASSUME DelegationTypeOK, NoAmplification, [DelegationNext]_delegationVars
               PROVE  NoAmplification'
    OBVIOUS
  <2> DEFINE Within(b) ==
        /\ b.administer => \E v \in Holders : start[v].administer
        /\ \A x \in Secrets :
             /\ can_read(b, x)   => \E v \in Holders : can_read(start[v], x)
             /\ can_write(b, x)  => \E v \in Holders : can_write(start[v], x)
             /\ can_manage(b, x) => \E v \in Holders : can_manage(start[v], x)
  <2>0. \A u \in Holders : Within(auth[u]) /\ auth[u] \in AuthoritySets
    BY DEF NoAmplification, AdministerWithin, DelegationTypeOK
  <2>1. start' = start /\ (\A u \in Holders : Within(auth'[u])) => NoAmplification'
    BY DEF NoAmplification, AdministerWithin
  <2>2. ASSUME NEW i \in Holders, NEW s \in Holders, NEW p \in Permissions,
               delegate_permission(i, s, p)
        PROVE  NoAmplification'
    <3>1. can_create_permission(auth[i], p)
      BY <2>2 DEF delegate_permission
    <3>2. Within(add_permission(auth[s], p))
      <4>1. add_permission(auth[s], p).administer =>
                auth[s].administer \/ auth[i].administer
        BY <2>0, <3>1, GrantAdminister
      <4>2. ASSUME NEW x \in Secrets
            PROVE  LET b == add_permission(auth[s], p) IN
                   /\ can_manage(b, x) => can_manage(auth[s], x) \/ can_manage(auth[i], x)
                   /\ can_write(b, x) => can_write(auth[s], x) \/ can_write(auth[i], x)
                   /\ can_read(b, x) => can_read(auth[s], x) \/ can_read(auth[i], x)
        BY <2>0, <3>1, GrantReach
      <4> QED
        BY <2>0, <4>1, <4>2
    <3>3. \A u \in Holders : auth'[u] = add_permission(auth[s], p) \/ auth'[u] = auth[u]
      BY <2>2 DEF delegate_permission, DelegationTypeOK
    <3>4. start' = start
      BY <2>2 DEF delegate_permission
    <3>5. ASSUME NEW u \in Holders
          PROVE  Within(auth'[u])
      <4>1. CASE auth'[u] = auth[u]
        BY <2>0, <4>1
      <4>2. CASE auth'[u] = add_permission(auth[s], p)
        BY <3>2, <4>2
      <4> QED
        BY <3>3, <4>1, <4>2
    <3> QED
      BY <2>1, <3>4, <3>5
  <2>3. ASSUME NEW a \in Holders, NEW g \in Holders, NEW m \in Holders,
               confer_group(a, g, m)
        PROVE  NoAmplification'
    <3>1. Within(merge_from(auth[m], auth[g]))
      <4>1. merge_from(auth[m], auth[g]).administer =>
                auth[m].administer \/ auth[g].administer
        BY DEF merge_from
      <4>2. ASSUME NEW x \in Secrets
            PROVE  LET b == merge_from(auth[m], auth[g]) IN
                   /\ can_manage(b, x) => can_manage(auth[m], x) \/ can_manage(auth[g], x)
                   /\ can_write(b, x) => can_write(auth[m], x) \/ can_write(auth[g], x)
                   /\ can_read(b, x) => can_read(auth[m], x) \/ can_read(auth[g], x)
        BY <2>0, MergeReach
      <4> QED
        BY <2>0, <4>1, <4>2
    <3>2. \A u \in Holders : auth'[u] = merge_from(auth[m], auth[g]) \/ auth'[u] = auth[u]
      BY <2>3 DEF confer_group, DelegationTypeOK
    <3>3. start' = start
      BY <2>3 DEF confer_group
    <3>4. ASSUME NEW u \in Holders
          PROVE  Within(auth'[u])
      <4>1. CASE auth'[u] = auth[u]
        BY <2>0, <4>1
      <4>2. CASE auth'[u] = merge_from(auth[m], auth[g])
        BY <3>1, <4>2
      <4> QED
        BY <3>2, <4>1, <4>2
    <3> QED
      BY <2>1, <3>3, <3>4
  <2>4. CASE UNCHANGED delegationVars
    BY <2>4 DEF delegationVars, NoAmplification, AdministerWithin
  <2> QED
    BY <2>2, <2>3, <2>4 DEF DelegationNext
<1> QED
  BY <1>1, <1>2, DelegationTypeCorrect, PTL DEF DelegationSpec

\* Whoever may hand out access may exercise it, so that every path that adds
\* access can re-encrypt what it confers.
THEOREM GranterAlwaysCanExercise == DelegationSpec => []GranterCanExercise
<1>1. DelegationTypeOK => GranterCanExercise
  BY CreateOnlyHeld DEF DelegationTypeOK, GranterCanExercise
<1> QED
  BY <1>1, DelegationTypeCorrect, PTL

(* ------------------------------- numbers ------------------------------- *)

\* A set of naturals has a least member: the form induction takes here.
LEMMA LeastNat ==
    ASSUME NEW S, S \subseteq Nat, S # {}
    PROVE  \E k \in S : \A j \in S : k <= j
<1>1. PICK k \in S : \A j \in S : ~ (<<j, k>> \in OpToRel(<, Nat))
  BY WFMin, NatLessThanWellFounded
<1>2. \A j \in S : ~ (j < k)
  BY <1>1 DEF OpToRel
<1> QED
  BY <1>2

\* Max finds the largest member of a bounded set of naturals.
LEMMA MaxOfBounded ==
    ASSUME NEW S, S # {}, NEW N \in Nat, S \subseteq 0 .. N
    PROVE  Max(S) \in S /\ \A e \in S : e <= Max(S)
<1> DEFINE T == {N - e : e \in S}
<1>1. T \subseteq Nat /\ T # {}
  OBVIOUS
<1>2. PICK x \in T : \A y \in T : x <= y
  BY <1>1, LeastNat
<1>3. PICK k \in S : x = N - k
  BY <1>2
<1>4. \A e \in S : k >= e
  BY <1>2, <1>3
<1>5. \E j \in S : \A e \in S : j >= e
  BY <1>4
<1> QED
  BY <1>5 DEF Max

LEMMA HighestFacts ==
    ASSUME NEW N \in Nat, NEW S, S \subseteq 0 .. N
    PROVE  /\ Highest(S) \in 0 .. N
           /\ \A e \in S : e <= Highest(S)
           /\ S # {} => Highest(S) \in S
<1>1. CASE S = {}
  BY <1>1 DEF Highest
<1>2. CASE S # {}
  BY <1>2, MaxOfBounded DEF Highest
<1> QED
  BY <1>1, <1>2

(* ------------------------ the authority fixpoint ----------------------- *)

LEMMA RoundsType == MaxRounds \in Nat /\ MaxRounds >= 1
BY EffectiveAssumption

\* The rounds of principal_graph exist: the recursion defines a function.
Rounds(R, admitted, f, k) ==
    /\ f = [n \in 0 .. k |-> f[n]]
    /\ f[0] = no_graph
    /\ \A n \in 1 .. k : f[n] = advance(R, admitted, f[n - 1])

LEMMA RoundsExist ==
    ASSUME NEW R, NEW admitted
    PROVE  \A k \in Nat : \E f : Rounds(R, admitted, f, k)
<1> DEFINE Bad == {k \in Nat : ~ \E f : Rounds(R, admitted, f, k)}
<1>1. SUFFICES ASSUME Bad # {} PROVE FALSE
  OBVIOUS
<1>2. PICK k \in Bad : \A j \in Bad : k <= j
  BY <1>1, LeastNat
<1>3. k # 0
  <2> DEFINE f == [n \in 0 .. 0 |-> no_graph]
  <2>1. Rounds(R, admitted, f, 0)
    BY DEF Rounds
  <2> QED
    BY <2>1, <1>2
<1>4. k \in Nat /\ k - 1 \in Nat /\ k - 1 \notin Bad
  BY <1>2, <1>3
<1>5. PICK f : Rounds(R, admitted, f, k - 1)
  BY <1>4
<1> DEFINE h == [n \in 0 .. k |-> IF n = k THEN advance(R, admitted, f[k - 1]) ELSE f[n]]
<1>6. ASSUME NEW n \in 1 .. k
      PROVE  h[n] = advance(R, admitted, h[n - 1])
  <2>1. h[n - 1] = f[n - 1]
    BY <1>4
  <2>2. CASE n = k
    BY <2>1, <2>2, <1>4
  <2>3. CASE n # k
    <3>1. n \in 1 .. (k - 1)
      BY <2>3, <1>4
    <3>2. f[n] = advance(R, admitted, f[n - 1])
      BY <1>5, <3>1 DEF Rounds
    <3>3. h[n] = f[n]
      BY <2>3, <1>4
    <3> QED
      BY <2>1, <3>2, <3>3
  <2> QED
    BY <2>2, <2>3
<1>7. h[0] = no_graph /\ h = [n \in 0 .. k |-> h[n]]
  BY <1>3, <1>4, <1>5 DEF Rounds
<1> HIDE DEF h
<1>8. Rounds(R, admitted, h, k)
  BY <1>6, <1>7 DEF Rounds
<1> QED
  BY <1>8, <1>2

LEMMA GraphRounds ==
    ASSUME NEW R, NEW admitted
    PROVE  \E f : /\ principal_graph(R, admitted) = f[MaxRounds]
                  /\ f[0] = no_graph
                  /\ \A n \in 1 .. MaxRounds : f[n] = advance(R, admitted, f[n - 1])
<1> DEFINE round[n \in 0 .. MaxRounds] ==
        IF n = 0 THEN no_graph ELSE advance(R, admitted, round[n - 1])
<1>1. principal_graph(R, admitted) = round[MaxRounds]
  BY DEF principal_graph
<1> HIDE DEF round
<1>2. PICK f : Rounds(R, admitted, f, MaxRounds)
  BY RoundsExist, RoundsType
<1>3. ASSUME NEW n \in 0 .. MaxRounds
      PROVE  f[n] = IF n = 0 THEN no_graph ELSE advance(R, admitted, f[n - 1])
  <2>1. CASE n = 0
    BY <1>2, <2>1 DEF Rounds
  <2>2. CASE n # 0
    <3>1. n \in 1 .. MaxRounds
      BY <2>2, RoundsType
    <3>2. f[n] = advance(R, admitted, f[n - 1])
      BY <1>2, <3>1 DEF Rounds
    <3> QED
      BY <2>2, <3>2
  <2> QED
    BY <2>1, <2>2
<1>4. f = [n \in 0 .. MaxRounds |-> IF n = 0 THEN no_graph ELSE advance(R, admitted, f[n - 1])]
  BY <1>2, <1>3 DEF Rounds
<1>5. round = [n \in 0 .. MaxRounds |->
                  IF n = 0 THEN no_graph ELSE advance(R, admitted, round[n - 1])]
  BY <1>4 DEF round
<1>6. round[0] = no_graph
        /\ \A n \in 1 .. MaxRounds : round[n] = advance(R, admitted, round[n - 1])
  BY <1>5, RoundsType
<1> QED
  BY <1>1, <1>6

\* What a graph selected, some authorities let in; when it is settled, its own.
LEMMA GraphSelected ==
    ASSUME NEW R, NEW admitted
    PROVE  \E a : /\ principal_graph(R, admitted).selected
                        = select_authorized_records(R, admitted, a)
                  /\ principal_graph(R, admitted).settled =>
                         principal_graph(R, admitted).auth = a
<1> DEFINE Good(x) == \E a : /\ x.selected = select_authorized_records(R, admitted, a)
                             /\ x.settled => x.auth = a
<1>1. ASSUME NEW x, Good(x) \/ ~ x.settled
      PROVE  Good(advance(R, admitted, x))
  <2>1. CASE x.settled
    BY <1>1, <2>1 DEF advance
  <2>2. CASE ~ x.settled
    <3> DEFINE next == select_authorized_records(R, admitted, x.auth)
               comp == compute_authorities_from_selected(next.members, next.grants)
    <3>1. advance(R, admitted, x) = [selected |-> next, auth |-> comp,
                                     settled |-> next = x.selected /\ comp = x.auth]
      BY <2>2 DEF advance, next_round, round_result
    <3> HIDE DEF comp, next
    <3>2. /\ advance(R, admitted, x).selected = next
          /\ advance(R, admitted, x).auth = comp
          /\ advance(R, admitted, x).settled = (next = x.selected /\ comp = x.auth)
      BY <3>1
    <3>3. advance(R, admitted, x).settled => comp = x.auth
      BY <3>2, Zenon
    <3> QED
      BY <3>2, <3>3 DEF next
  <2> QED
    BY <2>1, <2>2
<1> HIDE DEF Good
<1>2. PICK f : /\ principal_graph(R, admitted) = f[MaxRounds]
               /\ f[0] = no_graph
               /\ \A n \in 1 .. MaxRounds : f[n] = advance(R, admitted, f[n - 1])
  BY GraphRounds
<1> DEFINE Bad == {n \in 1 .. MaxRounds : ~ Good(f[n])}
<1>3. Bad = {}
  <2>1. SUFFICES ASSUME Bad # {} PROVE FALSE
    OBVIOUS
  <2>2. PICK n \in Bad : \A j \in Bad : n <= j
    <3>1. Bad \subseteq Nat
      BY RoundsType
    <3> QED
      BY <2>1, <3>1, LeastNat
  <2>3. f[n] = advance(R, admitted, f[n - 1]) /\ n \in Nat /\ n >= 1 /\ ~ Good(f[n])
    BY <1>2, <2>2, RoundsType
  <2>4. CASE n = 1
    <3>1. ~ f[0].settled
      BY <1>2 DEF no_graph
    <3> QED
      BY <1>1, <2>3, <2>4, <3>1
  <2>5. CASE n # 1
    <3>1. n - 1 \in 1 .. MaxRounds /\ n - 1 \notin Bad
      BY <2>2, <2>5, RoundsType
    <3> QED
      BY <1>1, <2>3, <3>1
  <2> QED
    BY <2>4, <2>5
<1>4. Good(f[MaxRounds])
  BY <1>3, RoundsType
<1> QED
  BY <1>2, <1>4 DEF Good

(* ------------------------- admitted deletions -------------------------- *)

\* Records whose signer is known.
Verified(R) ==
    /\ IsFiniteSet(R)
    /\ \A r \in R : /\ r.key \in RecordKeys /\ r.counter \in 1 .. MaxCounter
                    /\ r.signer \in Users

\* The order of deletions has a first one: it compares counters, then ranks.
LEMMA FirstDeletion ==
    ASSUME NEW S, S # {}, \A r \in S : r.counter \in Nat /\ r.signer \in Users
    PROVE  \E r \in S : \A s \in S : Before(r, s)
<1> DEFINE C == {r.counter : r \in S}
<1>1. PICK c \in C : \A d \in C : c <= d
  <2>1. C \subseteq Nat /\ C # {}
    OBVIOUS
  <2> QED
    BY <2>1, LeastNat
<1> DEFINE T == {r \in S : r.counter = c}
           K == {Rank[r.signer] : r \in T}
<1>2. \A r \in S : Rank[r.signer] \in Nat
  BY EffectiveAssumption
<1>3. PICK k \in K : \A j \in K : k <= j
  <2>1. K \subseteq Nat /\ K # {}
    BY <1>1, <1>2
  <2> QED
    BY <2>1, LeastNat
<1>4. PICK r \in T : k = Rank[r.signer]
  BY <1>3
<1>5. ASSUME NEW s \in S
      PROVE  Before(r, s)
  <2>1. s.counter \in Nat /\ r.counter = c /\ c \in Nat /\ c <= s.counter
    BY <1>1, <1>4
  <2>2. CASE s.counter = c
    <3>1. Rank[r.signer] <= Rank[s.signer]
      BY <1>3, <1>4, <2>2
    <3> QED
      BY <2>1, <2>2, <3>1 DEF Before
  <2>3. CASE s.counter # c
    BY <2>1, <2>3 DEF Before
  <2> QED
    BY <2>2, <2>3
<1> QED
  BY <1>4, <1>5

\* A resolution under way: its graph is the one of what it admitted, and it
\* admitted n deletions unless no authorized one was left.
Underway(R, x, n) ==
    /\ x.admitted \subseteq deletion_candidates(R)
    /\ x = with_admitted(R, x.admitted)
    /\ IsFiniteSet(x.admitted)
    /\ Cardinality(x.admitted) >= n \/ newly_admitted(R, x) = {}

LEMMA CandidatesFinite ==
    ASSUME NEW R, Verified(R)
    PROVE  /\ IsFiniteSet(deletion_candidates(R))
           /\ Cardinality(deletion_candidates(R)) \in Nat
<1>1. deletion_candidates(R) \in SUBSET R
  BY DEF deletion_candidates
<1> QED
  BY <1>1, FS_Subset, FS_CardinalityType DEF Verified

LEMMA AdmitFirstUnderway ==
    ASSUME NEW R, Verified(R), NEW x, NEW n \in Nat, Underway(R, x, n)
    PROVE  Underway(R, admit_first(R, x), n + 1)
<1> DEFINE open == newly_admitted(R, x)
<1>1. CASE open = {}
  <2>1. admit_first(R, x) = x
    BY <1>1 DEF admit_first
  <2> QED
    BY <1>1, <2>1 DEF Underway
<1>2. CASE open # {}
  <2> DEFINE first == CHOOSE r \in open : \A s \in open : Before(r, s)
             more  == x.admitted \cup {first}
  <2>1. open \subseteq deletion_candidates(R) \ x.admitted
    BY DEF newly_admitted
  <2>2. \A r \in open : r.counter \in Nat /\ r.signer \in Users
    BY <2>1, CommandsAssumption DEF deletion_candidates, Verified
  <2>3. \E r \in open : \A s \in open : Before(r, s)
    <3> HIDE DEF open
    <3> QED
      BY <1>2, <2>2, FirstDeletion
  <2>4. first \in open
    <3> HIDE DEF open
    <3> QED
      BY <2>3
  <2>5. admit_first(R, x) = with_admitted(R, more)
    BY <1>2 DEF admit_first
  <2>6. with_admitted(R, more).admitted = more
    BY DEF with_admitted
  <2> HIDE DEF first
  <2>7. more \subseteq deletion_candidates(R)
    BY <2>1, <2>4 DEF Underway
  <2>8. IsFiniteSet(more) /\ Cardinality(more) = Cardinality(x.admitted) + 1
    BY <2>1, <2>4, FS_AddElement DEF Underway
  <2>9. Cardinality(x.admitted) \in Nat /\ Cardinality(x.admitted) >= n
    BY <1>2, FS_CardinalityType DEF Underway
  <2> QED
    BY <2>5, <2>6, <2>7, <2>8, <2>9 DEF Underway
<1> QED
  BY <1>1, <1>2

\* The steps of resolve_effective_with_deletions.
Admissions(R, f, k) ==
    /\ f = [n \in 0 .. k |-> f[n]]
    /\ f[0] = with_admitted(R, {})
    /\ \A n \in 1 .. k : f[n] = admit_first(R, f[n - 1])

LEMMA AdmissionsExist ==
    ASSUME NEW R
    PROVE  \A k \in Nat : \E f : Admissions(R, f, k)
<1> DEFINE Bad == {k \in Nat : ~ \E f : Admissions(R, f, k)}
<1>1. SUFFICES ASSUME Bad # {} PROVE FALSE
  OBVIOUS
<1>2. PICK k \in Bad : \A j \in Bad : k <= j
  BY <1>1, LeastNat
<1>3. k # 0
  <2> DEFINE f == [n \in 0 .. 0 |-> with_admitted(R, {})]
  <2>1. Admissions(R, f, 0)
    BY DEF Admissions
  <2> QED
    BY <2>1, <1>2
<1>4. k \in Nat /\ k - 1 \in Nat /\ k - 1 \notin Bad
  BY <1>2, <1>3
<1>5. PICK f : Admissions(R, f, k - 1)
  BY <1>4
<1> DEFINE h == [n \in 0 .. k |-> IF n = k THEN admit_first(R, f[k - 1]) ELSE f[n]]
<1>6. ASSUME NEW n \in 1 .. k
      PROVE  h[n] = admit_first(R, h[n - 1])
  <2>1. h[n - 1] = f[n - 1]
    BY <1>4
  <2>2. CASE n = k
    BY <2>1, <2>2, <1>4
  <2>3. CASE n # k
    <3>1. n \in 1 .. (k - 1)
      BY <2>3, <1>4
    <3>2. f[n] = admit_first(R, f[n - 1])
      BY <1>5, <3>1 DEF Admissions
    <3>3. h[n] = f[n]
      BY <2>3, <1>4
    <3> QED
      BY <2>1, <3>2, <3>3
  <2> QED
    BY <2>2, <2>3
<1>7. h[0] = with_admitted(R, {}) /\ h = [n \in 0 .. k |-> h[n]]
  BY <1>3, <1>4, <1>5 DEF Admissions
<1> HIDE DEF h
<1>8. Admissions(R, h, k)
  BY <1>6, <1>7 DEF Admissions
<1> QED
  BY <1>8, <1>2

LEMMA ResolutionSteps ==
    ASSUME NEW R, Verified(R)
    PROVE  \E f : LET N == Cardinality(deletion_candidates(R))
                  IN  /\ resolve_effective_with_deletions(R) = f[N]
                      /\ f[0] = with_admitted(R, {})
                      /\ \A n \in 1 .. N : f[n] = admit_first(R, f[n - 1])
<1> DEFINE N == Cardinality(deletion_candidates(R))
           step[n \in 0 .. N] ==
               IF n = 0 THEN with_admitted(R, {}) ELSE admit_first(R, step[n - 1])
<1>0. N \in Nat
  BY CandidatesFinite
<1>1. resolve_effective_with_deletions(R) = step[N]
  BY DEF resolve_effective_with_deletions
<1> HIDE DEF step, N
<1>2. PICK f : Admissions(R, f, N)
  BY <1>0, AdmissionsExist
<1>3. ASSUME NEW n \in 0 .. N
      PROVE  f[n] = IF n = 0 THEN with_admitted(R, {}) ELSE admit_first(R, f[n - 1])
  <2>1. CASE n = 0
    BY <1>2, <2>1 DEF Admissions
  <2>2. CASE n # 0
    <3>1. n \in 1 .. N
      BY <1>0, <2>2
    <3>2. f[n] = admit_first(R, f[n - 1])
      BY <1>2, <3>1 DEF Admissions
    <3> QED
      BY <2>2, <3>2
  <2> QED
    BY <2>1, <2>2
<1>4. f = [n \in 0 .. N |-> IF n = 0 THEN with_admitted(R, {}) ELSE admit_first(R, f[n - 1])]
  BY <1>2, <1>3 DEF Admissions
<1>5. step = [n \in 0 .. N |->
                 IF n = 0 THEN with_admitted(R, {}) ELSE admit_first(R, step[n - 1])]
  BY <1>4 DEF step
<1>6. step[0] = with_admitted(R, {}) /\ \A n \in 1 .. N : step[n] = admit_first(R, step[n - 1])
  BY <1>0, <1>5
<1> QED
  BY <1>1, <1>6 DEF N

\* The resolution is the graph of the deletions it admitted, and no deletion
\* that graph authorizes is left out.
LEMMA ResolutionComplete ==
    ASSUME NEW R, Verified(R)
    PROVE  LET e == resolve_effective_with_deletions(R)
           IN  /\ e.admitted \subseteq deletion_candidates(R)
               /\ e.graph = principal_graph(R, e.admitted)
               /\ \A r \in deletion_candidates(R) :
                      deletion_authorized(e.graph, r) => r \in e.admitted
<1> DEFINE D == deletion_candidates(R)
           N == Cardinality(D)
<1>0. IsFiniteSet(D) /\ N \in Nat
  BY CandidatesFinite
<1>1. PICK f : /\ resolve_effective_with_deletions(R) = f[N]
               /\ f[0] = with_admitted(R, {})
               /\ \A n \in 1 .. N : f[n] = admit_first(R, f[n - 1])
  BY ResolutionSteps
<1> HIDE DEF N, D
<1>2. Underway(R, f[0], 0)
  <2>1. with_admitted(R, {}).admitted = {}
    BY DEF with_admitted
  <2> QED
    BY <1>1, <2>1, FS_EmptySet DEF Underway
<1> DEFINE Bad == {n \in 0 .. N : ~ Underway(R, f[n], n)}
<1>3. Bad = {}
  <2>1. SUFFICES ASSUME Bad # {} PROVE FALSE
    OBVIOUS
  <2>2. PICK n \in Bad : \A j \in Bad : n <= j
    <3>1. Bad \subseteq Nat
      BY <1>0
    <3> QED
      BY <2>1, <3>1, LeastNat
  <2>3. n # 0
    BY <1>2, <2>2
  <2>4. n - 1 \in 0 .. N /\ n - 1 \in Nat /\ n \in 1 .. N /\ n - 1 \notin Bad
    BY <1>0, <2>2, <2>3
  <2>5. Underway(R, f[n - 1], n - 1)
    BY <2>4
  <2>6. Underway(R, admit_first(R, f[n - 1]), (n - 1) + 1)
    BY <2>4, <2>5, AdmitFirstUnderway
  <2>7. f[n] = admit_first(R, f[n - 1]) /\ (n - 1) + 1 = n
    BY <1>1, <2>4
  <2> QED
    BY <2>2, <2>6, <2>7
<1> DEFINE e == resolve_effective_with_deletions(R)
<1>4. Underway(R, e, N)
  BY <1>0, <1>1, <1>3
<1> HIDE DEF e
<1>5. newly_admitted(R, e) = {}
  <2>1. CASE Cardinality(e.admitted) >= N
    <3>1. e.admitted \in SUBSET D
      BY <1>4 DEF Underway, D
    <3>2. /\ Cardinality(e.admitted) \in Nat /\ Cardinality(e.admitted) <= Cardinality(D)
          /\ Cardinality(D) = Cardinality(e.admitted) => D = e.admitted
      BY <1>0, <1>4, <3>1, FS_Subset, FS_CardinalityType DEF Underway
    <3>3. D = e.admitted
      BY <1>0, <2>1, <3>2 DEF N
    <3> QED
      BY <3>3 DEF newly_admitted, D
  <2> QED
    BY <1>4, <2>1 DEF Underway
<1>6. e.graph = principal_graph(R, e.admitted)
  <2>1. e = with_admitted(R, e.admitted)
    BY <1>4 DEF Underway
  <2>2. with_admitted(R, e.admitted).graph = principal_graph(R, e.admitted)
    BY DEF with_admitted
  <2> QED
    BY <2>1, <2>2
<1>7. e.admitted \subseteq deletion_candidates(R)
  BY <1>4 DEF Underway
<1>8. \A r \in deletion_candidates(R) : deletion_authorized(e.graph, r) => r \in e.admitted
  BY <1>5 DEF newly_admitted
<1> QED
  BY <1>6, <1>7, <1>8 DEF e

(* --------------------------- verified records -------------------------- *)

LEMMA KeyShapes ==
    ASSUME NEW k \in RecordKeys
    PROVE  /\ k[1] = "user" => \E u \in Users : k = <<"user", <<u>>>>
           /\ k[1] = "entry" => \E u \in Users : k = <<"entry", <<u>>>>
           /\ k[1] = "group" => \E g \in Groups : k = <<"group", <<g>>>>
           /\ k[1] = "member" =>
                  \E g \in Groups, p \in Principals : k = <<"member", <<g, p>>>>
           /\ k[1] = "grant" => \E g \in Grants : k = <<"grant", <<g>>>>
           /\ k[1] = "secret" => \E x \in Secrets : k = <<"secret", <<x>>>>
           /\ k = <<k[1], k[2]>>
BY DEF RecordKeys

\* The verified form of a record, for a holder of its key.
SignedBy(r, u) ==
    [key |-> r.key, live |-> r.live, data |-> r.data, counter |-> r.counter, signer |-> u]

\* What Wellformed says of one record.
LEMMA WellformedRecord ==
    ASSUME NEW V, Wellformed(V), NEW r \in V
    PROVE  /\ r.key \in RecordKeys /\ r.counter \in 1 .. MaxCounter
           /\ r.by \in SigningKeys
           /\ Kind(r) = "entry" => r.by = KeyOf[About(r)]
BY Zenon DEF Wellformed

LEMMA SignersAreUsers ==
    ASSUME NEW V, NEW k
    PROVE  signer_for_key(V, k) \subseteq Users
BY EffectiveAssumption DEF signer_for_key

LEMMA VerifiedIff ==
    ASSUME NEW V, Wellformed(V)
    PROVE  /\ \A v \in verified_records(V) :
                  \E r \in V : \E u \in signer_for_key(V, r.by) : v = SignedBy(r, u)
           /\ \A r \in V : \A u \in signer_for_key(V, r.by) :
                  SignedBy(r, u) \in verified_records(V)
<1> DEFINE holders == [k \in SigningKeys |-> signer_for_key(V, k)]
<1>1. \A r \in V : holders[r.by] = signer_for_key(V, r.by)
  BY WellformedRecord
<1>2. verified_records(V) = UNION {{SignedBy(r, u) : u \in holders[r.by]} : r \in V}
  BY DEF verified_records, SignedBy
<1> HIDE DEF holders
<1> QED
  BY <1>1, <1>2

\* What a verified record says is what some record of the vault says.
LEMMA VerifiedOrigin ==
    ASSUME NEW V, Wellformed(V), NEW v \in verified_records(V)
    PROVE  /\ \E r \in V : /\ v.key = r.key /\ v.live = r.live /\ v.data = r.data
                           /\ v.counter = r.counter /\ v.signer \in signer_for_key(V, r.by)
           /\ v.key \in RecordKeys /\ v.counter \in 1 .. MaxCounter /\ v.signer \in Users
<1>1. PICK r \in V : \E u \in signer_for_key(V, r.by) : v = SignedBy(r, u)
  BY VerifiedIff
<1>2. PICK u \in signer_for_key(V, r.by) : v = SignedBy(r, u)
  BY <1>1
<1>3. /\ v.key = r.key /\ v.live = r.live /\ v.data = r.data
      /\ v.counter = r.counter /\ v.signer = u
  BY <1>2 DEF SignedBy
<1>4. r.key \in RecordKeys /\ r.counter \in 1 .. MaxCounter
  BY WellformedRecord
<1>5. u \in Users
  BY SignersAreUsers
<1> QED
  BY <1>2, <1>3, <1>4, <1>5

LEMMA VerifiedTyped ==
    ASSUME NEW V, Wellformed(V)
    PROVE  Verified(verified_records(V))
<1> DEFINE S == V \X Users
           f == [p \in S |-> SignedBy(p[1], p[2])]
           T == {f[p] : p \in S}
<1>1. IsFiniteSet(S)
  BY FS_Product, EffectiveAssumption DEF Wellformed
<1>2. f \in Surjection(S, T)
  BY DEF Surjection
<1>3. IsFiniteSet(T)
  <2> HIDE DEF S, f, T
  <2> QED
    BY <1>1, <1>2, FS_Surjection
<1>4. verified_records(V) \in SUBSET T
  <2>1. SUFFICES ASSUME NEW v \in verified_records(V) PROVE v \in T
    OBVIOUS
  <2>2. PICK r \in V : \E u \in signer_for_key(V, r.by) : v = SignedBy(r, u)
    BY VerifiedIff
  <2>3. PICK u \in signer_for_key(V, r.by) : v = SignedBy(r, u)
    BY <2>2
  <2>4. <<r, u>> \in S
    BY SignersAreUsers
  <2>5. f[<<r, u>>] = SignedBy(r, u)
    BY <2>4
  <2> QED
    BY <2>3, <2>4, <2>5
<1>5. IsFiniteSet(verified_records(V))
  <2> HIDE DEF T
  <2> QED
    BY <1>3, <1>4, FS_Subset
<1> QED
  BY <1>5, VerifiedOrigin DEF Verified

LEMMA SubsetVerified ==
    ASSUME NEW R, Verified(R), NEW P, P \subseteq R
    PROVE  Verified(P)
BY FS_Subset DEF Verified

(* --------------------------- what is selected -------------------------- *)

\* A winner is at least as recent as everything at its key.
LEMMA WinnerBeats ==
    ASSUME NEW W, NEW w \in lww_winners(W),
           \A r \in W : r.counter \in Nat
    PROVE  w \in W /\ \A s \in W : s.key = w.key => w.counter >= s.counter
<1>1. w \in W /\ \A s \in W : s.key = w.key => Beats(w, s)
  BY DEF lww_winners
<1>2. \A s \in W : Beats(w, s) => w.counter >= s.counter
  BY <1>1 DEF Beats
<1> QED
  BY <1>1, <1>2

\* What one round lets in, and how recent it is: a user, a membership or a
\* grant is as recent as every record the same authorities admit at its key.
SelectedFrom(P, admitted, a, sel) ==
    /\ \A u \in sel.users \ {rootUser} :
          \E w \in P : /\ w.key = <<"user", <<u>>>> /\ w.live
                       /\ \A s \in P : (/\ s.key = w.key
                                        /\ IF s.live THEN a[s.signer].administer
                                           ELSE s \in admitted)
                                             => w.counter >= s.counter
    /\ \A g \in sel.groups : \E w \in P : w.key = <<"group", <<g>>>>
    /\ \A id \in sel.members :
          \E w \in P : /\ w.key = <<"member", id>> /\ w.live
                       /\ \A s \in P : (s.key = w.key /\ a[s.signer].administer)
                                             => w.counter >= s.counter
    /\ \A g \in sel.grants :
          /\ g \in P /\ Kind(g) = "grant" /\ g.live
          /\ \A s \in P : (s.key = g.key /\ ~ s.live /\ s \in admitted)
                                => g.counter >= s.counter

LEMMA SelectFacts ==
    ASSUME NEW P, Verified(P), NEW admitted, NEW a
    PROVE  SelectedFrom(P, admitted, a, select_authorized_records(P, admitted, a))
<1> DEFINE admin(r)    == a[r.signer].administer
           vouched     == {About(r) : r \in OfKind(P, "entry")}
           userPool    == {r \in OfKind(P, "user") :
                              About(r) # rootUser /\ (IF r.live THEN admin(r) ELSE r \in admitted)}
           userWin     == lww_winners(userPool)
           users       == {rootUser} \cup ({About(r) : r \in Live(userWin)} \cap vouched)
           groupPool   == {r \in OfKind(P, "group") : IF r.live THEN admin(r) ELSE r \in admitted}
           groupWin    == lww_winners(groupPool)
           groups      == {About(r) : r \in Live(groupWin)}
           memberPool  == {r \in OfKind(P, "member") :
                              /\ admin(r)
                              /\ r.live => /\ Id(r)[1] \in groups
                                           /\ principal_exists(Id(r)[2], users, groups)}
           grantPool   == {r \in OfKind(P, "grant") :
                              IF r.live
                              THEN /\ principal_exists(r.data.subject, users, groups)
                                   /\ can_create_permission(a[r.signer], r.data.permission)
                              ELSE r \in admitted}
           grantWin    == lww_winners(grantPool)
           sel         == select_authorized_records(P, admitted, a)
<1>1. /\ sel.users = users /\ sel.groups = groups
      /\ sel.members = {Id(r) : r \in Live(lww_winners(memberPool))}
      /\ sel.grants = Live(grantWin)
  BY DEF select_authorized_records
<1>2. \A r \in P : r.counter \in Nat /\ r.key \in RecordKeys
  BY CommandsAssumption DEF Verified
<1> HIDE DEF sel
<1>3. ASSUME NEW u \in sel.users, u # rootUser
      PROVE  \E w \in P : /\ w.key = <<"user", <<u>>>> /\ w.live
                          /\ \A s \in P : (/\ s.key = w.key
                                           /\ IF s.live THEN a[s.signer].administer
                                              ELSE s \in admitted)
                                                => w.counter >= s.counter
  <2> HIDE DEF userPool, vouched
  <2>1. PICK w \in Live(userWin) : u = About(w)
    BY <1>1, <1>3
  <2>2. userPool \subseteq P /\ \A r \in userPool : r.counter \in Nat
    BY <1>2 DEF userPool, OfKind
  <2>3. w.live /\ w \in lww_winners(userPool)
    BY <2>1 DEF Live
  <2>4. w \in userPool /\ \A s \in userPool : s.key = w.key => w.counter >= s.counter
    BY <2>2, <2>3, WinnerBeats
  <2>5. w \in P /\ w.key \in RecordKeys /\ w.key[1] = "user"
    BY <1>2, <2>2, <2>4 DEF userPool, OfKind, Kind
  <2>6. w.key = <<"user", <<u>>>>
    BY <2>1, <2>5, KeyShapes DEF About
  <2>7. ASSUME NEW s \in P, s.key = w.key,
               IF s.live THEN a[s.signer].administer ELSE s \in admitted
        PROVE  s \in userPool
    BY <2>5, <2>6, <2>7, <1>3 DEF userPool, OfKind, Kind, About
  <2> QED
    BY <2>3, <2>4, <2>5, <2>6, <2>7
<1>4. ASSUME NEW g \in sel.groups
      PROVE  \E w \in P : w.key = <<"group", <<g>>>>
  <2> HIDE DEF groupPool
  <2>1. PICK w \in Live(groupWin) : g = About(w)
    BY <1>1
  <2>2. w \in groupPool
    BY <2>1 DEF Live, lww_winners
  <2>3. w \in P /\ w.key \in RecordKeys /\ w.key[1] = "group"
    BY <1>2, <2>2 DEF groupPool, OfKind, Kind
  <2> QED
    BY <2>1, <2>3, KeyShapes DEF About
<1>5. ASSUME NEW id \in sel.members
      PROVE  \E w \in P : /\ w.key = <<"member", id>> /\ w.live
                          /\ \A s \in P : (s.key = w.key /\ a[s.signer].administer)
                                                => w.counter >= s.counter
  <2> HIDE DEF memberPool, users, groups
  <2>1. PICK w \in Live(lww_winners(memberPool)) : id = Id(w)
    BY <1>1
  <2>2. memberPool \subseteq P /\ \A r \in memberPool : r.counter \in Nat
    BY <1>2 DEF memberPool, OfKind
  <2>3. w.live /\ w \in lww_winners(memberPool)
    BY <2>1 DEF Live
  <2>4. w \in memberPool /\ \A s \in memberPool : s.key = w.key => w.counter >= s.counter
    BY <2>2, <2>3, WinnerBeats
  <2>5. /\ w \in P /\ w.key \in RecordKeys /\ w.key[1] = "member"
        /\ Id(w)[1] \in groups /\ principal_exists(Id(w)[2], users, groups)
    BY <1>2, <2>2, <2>3, <2>4 DEF memberPool, OfKind, Kind
  <2>6. w.key = <<"member", id>>
    BY <2>1, <2>5, KeyShapes DEF Id
  <2>7. ASSUME NEW s \in P, s.key = w.key, a[s.signer].administer
        PROVE  s \in memberPool
    BY <2>5, <2>7 DEF memberPool, OfKind, Kind, Id
  <2> QED
    BY <2>3, <2>4, <2>5, <2>6, <2>7
<1>6. ASSUME NEW g \in sel.grants
      PROVE  /\ g \in P /\ Kind(g) = "grant" /\ g.live
             /\ \A s \in P : (s.key = g.key /\ ~ s.live /\ s \in admitted)
                                   => g.counter >= s.counter
  <2> HIDE DEF grantPool, users, groups
  <2>1. g \in lww_winners(grantPool) /\ g.live
    BY <1>1 DEF Live
  <2>2. grantPool \subseteq P /\ \A r \in grantPool : r.counter \in Nat
    BY <1>2 DEF grantPool, OfKind
  <2>3. g \in grantPool /\ \A s \in grantPool : s.key = g.key => g.counter >= s.counter
    BY <2>1, <2>2, WinnerBeats
  <2>4. g \in P /\ Kind(g) = "grant"
    BY <2>2, <2>3 DEF grantPool, OfKind
  <2>5. ASSUME NEW s \in P, s.key = g.key, ~ s.live, s \in admitted
        PROVE  s \in grantPool
    BY <2>4, <2>5 DEF grantPool, OfKind, Kind
  <2> QED
    BY <2>1, <2>3, <2>4, <2>5
<1> QED
  BY <1>3, <1>4, <1>5, <1>6 DEF SelectedFrom, sel

(* ------------------------------ the report ----------------------------- *)

\* What the vault resolves to before the ratchet is looked at, the records
\* kept, and what these resolve to.
Whole(V) == resolve_effective_with_deletions(principal_records(verified_records(V)))
Entitled(V) == Admitted(verified_records(V), Whole(V))
Marks(V) == admitted_watermarks(Entitled(V))
Kept(V, rolled) == {r \in verified_records(V) : r.key \notin rolled}
Final(V, rolled) ==
    IF rolled = {} THEN Whole(V)
    ELSE resolve_effective_with_deletions(principal_records(Kept(V, rolled)))

LEMMA FinalIs ==
    ASSUME NEW V, NEW rolled
    PROVE  Final(V, rolled) = resolve_effective_with_deletions(principal_records(Kept(V, rolled)))
<1>1. CASE rolled = {}
  <2>1. Kept(V, rolled) = verified_records(V)
    BY <1>1 DEF Kept
  <2> QED
    BY <1>1, <2>1 DEF Final, Whole
<1>2. CASE rolled # {}
  BY <1>2 DEF Final
<1> QED
  BY <1>1, <1>2

LEMMA ReportIs ==
    ASSUME NEW V, NEW t
    PROVE  LET rolled == rollback_keys(Marks(V), t)
           IN  validate_v1(V, t) = effective_state(Kept(V, rolled), Final(V, rolled), Entitled(V),
                                                   Marks(V), rolled, t)
BY DEF validate_v1, resolved, provisional, with_watermarks, against_ratchet, final_resolution,
       Kept, Final, Entitled, Marks, Whole

\* The records that name the vault, and the values, by the authorities given.
Names(kept, a) == {r \in OfKind(kept, "vault") : a[r.signer].administer}
Values(kept, a) == {r \in OfKind(kept, "secret") : can_write(a[r.signer], About(r))}

\* The counter after every watermark, and the one every key behind needs.
First(marks) == 1 + Highest({marks[k] : k \in RecordKeys})
Least(t, rolled) == Highest({t[k] + 1 : k \in rolled})

\* The fields of a report.
LEMMA ReportFields ==
    ASSUME NEW V, NEW t, NEW e, e = validate_v1(V, t),
           NEW rolled, rolled = rollback_keys(Marks(V), t),
           NEW graph, graph = Final(V, rolled).graph
    PROVE  /\ e.users = graph.selected.users
           /\ e.groups = graph.selected.groups
           /\ e.members = graph.selected.members
           /\ e.grants = graph.selected.grants
           /\ e.auth = graph.auth
           /\ e.names = lww_winners(Names(Kept(V, rolled), graph.auth))
           /\ e.secrets = lww_winners(Values(Kept(V, rolled), graph.auth))
           /\ e.rolled = rolled /\ rolled \subseteq e.conflicted
           /\ e.admitted = Entitled(V) /\ e.marks = Marks(V)
           /\ e.next = First(Marks(V)) /\ e.floor = Least(t, rolled)
           /\ e.authority_unresolved <=> ~ graph.settled
<1> DEFINE selected == graph.selected
           kept     == Kept(V, rolled)
           handles  == {r \in OfKind(kept, "handle") :
                           graph.auth[r.signer].administer /\ r.data.subject \in selected.users}
           names    == Names(kept, graph.auth)
           values   == Values(kept, graph.auth)
           unresolved == ~ graph.settled
           first    == First(Marks(V))
           least    == Least(t, rolled)
           winning  == lww_winners(handles)
<1>1. e = [users    |-> selected.users,
           groups   |-> selected.groups,
           members  |-> selected.members,
           grants   |-> selected.grants,
           deleted_users |-> selected.deleted_users,
           auth     |-> graph.auth,
           handles  |-> winning,
           names    |-> lww_winners(names),
           secrets  |-> lww_winners(values),
           authority_unresolved |-> unresolved,
           rolled   |-> rolled,
           conflicted |-> rolled \cup selected.conflicted \cup lww_conflicted(handles)
                          \cup lww_conflicted(names) \cup lww_conflicted(values),
           admitted |-> Entitled(V),
           marks    |-> Marks(V),
           next     |-> first,
           floor    |-> least]
  <2>1. e = effective_state(Kept(V, rolled), Final(V, rolled), Entitled(V), Marks(V), rolled, t)
    BY ReportIs
  <2> QED
    BY <2>1 DEF effective_state, Names, Values, First, Least
<1>2. rolled \subseteq rolled \cup selected.conflicted \cup lww_conflicted(handles)
                          \cup lww_conflicted(names) \cup lww_conflicted(values)
  OBVIOUS
<1> HIDE DEF selected, handles, names, values, unresolved, first, least, winning, kept
<1>3. /\ e.users = selected.users /\ e.groups = selected.groups
      /\ e.members = selected.members /\ e.grants = selected.grants
      /\ e.auth = graph.auth
      /\ e.names = lww_winners(names) /\ e.secrets = lww_winners(values)
      /\ e.rolled = rolled /\ rolled \subseteq e.conflicted
      /\ e.admitted = Entitled(V) /\ e.marks = Marks(V)
      /\ e.next = first /\ e.floor = least
  BY <1>1, <1>2
<1>4. e.authority_unresolved = unresolved
  BY <1>1
<1> QED
  BY <1>3, <1>4 DEF selected, names, values, unresolved, first, least, kept

LEMMA EntitledSubset ==
    ASSUME NEW V
    PROVE  Entitled(V) \subseteq verified_records(V)
BY DEF Entitled, Admitted

\* The watermarks: as high as everything admitted, and witnessed in the vault.
LEMMA MarksFacts ==
    ASSUME NEW V, Wellformed(V)
    PROVE  /\ Marks(V) \in [RecordKeys -> 0 .. MaxCounter]
           /\ \A r \in Entitled(V) : r.counter <= Marks(V)[r.key]
           /\ \A k \in RecordKeys : Marks(V)[k] # 0 =>
                  \E r \in V : r.key = k /\ r.counter = Marks(V)[k]
           /\ \A k \in RecordKeys : Marks(V)[k] # 0 =>
                  \E r \in Entitled(V) : r.key = k /\ r.counter = Marks(V)[k]
<1> DEFINE C(k) == {r.counter : r \in {x \in Entitled(V) : x.key = k}}
<1>1. Marks(V) = [k \in RecordKeys |-> Highest(C(k))]
  BY DEF Marks, admitted_watermarks
<1>2. \A r \in Entitled(V) : r.counter \in 1 .. MaxCounter /\ r.key \in RecordKeys
  BY EntitledSubset, VerifiedOrigin
<1>3. ASSUME NEW k \in RecordKeys
      PROVE  /\ Highest(C(k)) \in 0 .. MaxCounter
             /\ \A c \in C(k) : c <= Highest(C(k))
             /\ Highest(C(k)) # 0 => Highest(C(k)) \in C(k)
  <2>1. C(k) \subseteq 0 .. MaxCounter
    BY <1>2, CommandsAssumption
  <2> HIDE DEF C
  <2>2. /\ Highest(C(k)) \in 0 .. MaxCounter
        /\ \A c \in C(k) : c <= Highest(C(k))
        /\ C(k) # {} => Highest(C(k)) \in C(k)
    BY <2>1, HighestFacts, CommandsAssumption
  <2>3. C(k) = {} => Highest(C(k)) = 0
    BY DEF Highest
  <2> QED
    BY <2>2, <2>3
<1>4. \A r \in Entitled(V) : r.counter \in C(r.key)
  OBVIOUS
<1> HIDE DEF C
<1>5. \A r \in Entitled(V) : r.counter <= Marks(V)[r.key]
  BY <1>1, <1>2, <1>3, <1>4
<1>6. ASSUME NEW k \in RecordKeys, Marks(V)[k] # 0
      PROVE  \E r \in Entitled(V) : r.key = k /\ r.counter = Marks(V)[k]
  <2>1. Marks(V)[k] \in C(k)
    BY <1>1, <1>3, <1>6
  <2> QED
    BY <2>1 DEF C
<1>7. ASSUME NEW k \in RecordKeys, Marks(V)[k] # 0
      PROVE  \E r \in V : r.key = k /\ r.counter = Marks(V)[k]
  <2>1. PICK r \in Entitled(V) : r.key = k /\ r.counter = Marks(V)[k]
    BY <1>6, <1>7
  <2>2. r \in verified_records(V)
    BY EntitledSubset
  <2> QED
    BY <2>1, <2>2, VerifiedOrigin
<1> QED
  BY <1>1, <1>3, <1>5, <1>6, <1>7

LEMMA ReportMarks ==
    ASSUME NEW V, NEW t, NEW e, e = validate_v1(V, t)
    PROVE  /\ e.marks = Marks(V) /\ e.admitted = Entitled(V)
           /\ e.rolled = rollback_keys(Marks(V), t)
           /\ e.rolled \subseteq e.conflicted
<1>1. PICK rolled : rolled = rollback_keys(Marks(V), t)
  OBVIOUS
<1>2. PICK graph : graph = Final(V, rolled).graph
  OBVIOUS
<1>3. /\ e.marks = Marks(V) /\ e.admitted = Entitled(V)
      /\ e.rolled = rolled /\ rolled \subseteq e.conflicted
  BY <1>1, <1>2, ReportFields
<1> QED
  BY <1>1, <1>3

\* Raising the ratchet to what was admitted leaves the report as it is: a key
\* behind the ratchet stays as far behind (absorb_clean_trust_raises).
LEMMA AbsorbKeepsReport ==
    ASSUME NEW V, Wellformed(V), NEW t \in [RecordKeys -> Nat]
    PROVE  LET raised == apply_update(t, validate_v1(V, t))
           IN  /\ validate_v1(V, raised) = validate_v1(V, t)
               /\ \A k \in RecordKeys : raised[k] \in {Marks(V)[k], t[k]}
               /\ \A k \in RecordKeys : raised[k] >= Marks(V)[k] /\ raised[k] >= t[k]
               /\ raised \in [RecordKeys -> Nat]
<1> DEFINE raised == apply_update(t, validate_v1(V, t))
           marks  == Marks(V)
           rolled == rollback_keys(marks, t)
<1>1. marks \in [RecordKeys -> Nat]
  BY MarksFacts, CommandsAssumption
<1>2. raised = [k \in RecordKeys |-> IF marks[k] > t[k] THEN marks[k] ELSE t[k]]
  BY ReportMarks DEF apply_update
<1> HIDE DEF raised, marks
<1>3. rollback_keys(marks, raised) = rolled
  BY <1>1, <1>2 DEF rollback_keys
<1>4. {raised[k] + 1 : k \in rolled} = {t[k] + 1 : k \in rolled}
  BY <1>1, <1>2 DEF rollback_keys
<1> DEFINE S(x) == effective_state(Kept(V, rolled), Final(V, rolled), Entitled(V), marks, rolled, x)
<1>5. S(raised) = S(t)
  BY <1>4 DEF effective_state
<1> HIDE DEF S, rolled
<1>6. validate_v1(V, raised) = S(raised)
  BY <1>3, ReportIs DEF marks, S
<1>7. validate_v1(V, t) = S(t)
  BY ReportIs DEF marks, S, rolled
<1>8. /\ \A k \in RecordKeys : raised[k] \in {marks[k], t[k]}
      /\ \A k \in RecordKeys : raised[k] >= marks[k] /\ raised[k] >= t[k]
      /\ raised \in [RecordKeys -> Nat]
  BY <1>1, <1>2
<1> QED
  BY <1>5, <1>6, <1>7, <1>8 DEF raised, marks

(* ------------------------ what a report can show ------------------------ *)

\* What a ratchet remembers of a vault is in the vault.
Witnessed(V, t) ==
    \A k \in RecordKeys : t[k] # 0 => \E r \in V : r.key = k /\ r.counter = t[k]

\* A report on a vault, against a ratchet that has seen it.
Reported(V, t, e) ==
    /\ Wellformed(V)
    /\ t \in [RecordKeys -> 0 .. MaxCounter]
    /\ Witnessed(V, t)
    /\ e = validate_v1(V, t)

LEMMA KeptFacts ==
    ASSUME NEW V, Wellformed(V), NEW rolled
    PROVE  /\ Verified(principal_records(Kept(V, rolled)))
           /\ principal_records(Kept(V, rolled)) \subseteq Kept(V, rolled)
           /\ Kept(V, rolled) \subseteq verified_records(V)
           /\ \A r \in Kept(V, rolled) : r.key \notin rolled
<1>1. principal_records(Kept(V, rolled)) \subseteq verified_records(V)
  BY DEF principal_records, Kept
<1> QED
  BY <1>1, VerifiedTyped, SubsetVerified DEF principal_records, Kept

\* What a report selects, the authorities of some round let in; and its own,
\* when it is resolved.
LEMMA FinalSelected ==
    ASSUME NEW V, Wellformed(V), NEW rolled, NEW F, F = Final(V, rolled)
    PROVE  \E a : /\ SelectedFrom(principal_records(Kept(V, rolled)), F.admitted, a,
                                  F.graph.selected)
                  /\ F.graph.settled => F.graph.auth = a
<1>1. PICK P : P = principal_records(Kept(V, rolled))
  OBVIOUS
<1>2. Verified(P)
  BY <1>1, KeptFacts
<1>3. F = resolve_effective_with_deletions(P)
  BY <1>1, FinalIs
<1>4. F.graph = principal_graph(P, F.admitted)
  BY <1>2, <1>3, ResolutionComplete
<1>5. PICK a : /\ principal_graph(P, F.admitted).selected
                     = select_authorized_records(P, F.admitted, a)
               /\ principal_graph(P, F.admitted).settled =>
                      principal_graph(P, F.admitted).auth = a
  BY GraphSelected
<1>6. SelectedFrom(P, F.admitted, a, select_authorized_records(P, F.admitted, a))
  BY <1>2, SelectFacts
<1>7. SelectedFrom(P, F.admitted, a, F.graph.selected)
  BY <1>4, <1>5, <1>6
<1> QED
  BY <1>1, <1>4, <1>5, <1>7

\* Nothing a report shows is at a key in rollback conflict.
LEMMA ShownNotRolled ==
    ASSUME NEW V, NEW t, NEW e, Reported(V, t, e)
    PROVE  /\ \A u \in e.users : u \in Users /\ (u # rootUser => <<"user", <<u>>>> \notin e.rolled)
           /\ e.groups \subseteq Groups
           /\ \A id \in e.members : /\ <<"member", id>> \in RecordKeys
                                    /\ <<"member", id>> \notin e.rolled
           /\ \A g \in e.grants : /\ g \in verified_records(V)
                                  /\ Kind(g) = "grant" /\ g.live /\ g.key \notin e.rolled
           /\ \A r \in e.names : /\ r \in verified_records(V)
                                 /\ Kind(r) = "vault" /\ r.key \notin e.rolled
           /\ \A r \in e.secrets : /\ r \in verified_records(V)
                                   /\ Kind(r) = "secret" /\ r.key \notin e.rolled
<1>1. PICK rolled : rolled = rollback_keys(Marks(V), t)
  OBVIOUS
<1>2. PICK F : F = Final(V, rolled)
  OBVIOUS
<1>3. PICK graph : graph = F.graph
  OBVIOUS
<1>4. /\ e.users = graph.selected.users /\ e.groups = graph.selected.groups
      /\ e.members = graph.selected.members /\ e.grants = graph.selected.grants
      /\ e.names = lww_winners(Names(Kept(V, rolled), graph.auth))
      /\ e.secrets = lww_winners(Values(Kept(V, rolled), graph.auth))
      /\ e.rolled = rolled
  BY <1>1, <1>2, <1>3, ReportFields DEF Reported
<1>5. Wellformed(V)
  BY DEF Reported
<1>6. PICK P : P = principal_records(Kept(V, rolled))
  OBVIOUS
<1>7. PICK a : SelectedFrom(P, F.admitted, a, graph.selected)
  BY <1>2, <1>3, <1>5, <1>6, FinalSelected
<1>8. \A r \in P : r \in verified_records(V) /\ r.key \in RecordKeys /\ r.key \notin rolled
  BY <1>5, <1>6, KeptFacts, VerifiedOrigin
<1>9. \A r \in Kept(V, rolled) : r \in verified_records(V) /\ r.key \notin rolled
  BY <1>5, KeptFacts
<1>10. ASSUME NEW u \in e.users, u # rootUser
       PROVE  u \in Users /\ <<"user", <<u>>>> \notin e.rolled
  <2>1. PICK w \in P : w.key = <<"user", <<u>>>>
    BY <1>4, <1>7, <1>10 DEF SelectedFrom
  <2>2. w.key \in RecordKeys /\ w.key \notin rolled
    BY <1>8
  <2>3. \E v \in Users : w.key = <<"user", <<v>>>>
    BY <2>1, <2>2, KeyShapes
  <2> QED
    BY <1>4, <2>1, <2>2, <2>3
<1>11. ASSUME NEW g \in e.groups
       PROVE  g \in Groups
  <2>1. PICK w \in P : w.key = <<"group", <<g>>>>
    BY <1>4, <1>7 DEF SelectedFrom
  <2>2. \E v \in Groups : w.key = <<"group", <<v>>>>
    BY <1>8, <2>1, KeyShapes
  <2> QED
    BY <2>1, <2>2
<1>12. ASSUME NEW id \in e.members
       PROVE  <<"member", id>> \in RecordKeys /\ <<"member", id>> \notin e.rolled
  <2>1. PICK w \in P : w.key = <<"member", id>>
    BY <1>4, <1>7 DEF SelectedFrom
  <2> QED
    BY <1>4, <1>8, <2>1
<1>13. ASSUME NEW g \in e.grants
       PROVE  /\ g \in verified_records(V) /\ Kind(g) = "grant" /\ g.live
              /\ g.key \notin e.rolled
  BY <1>4, <1>7, <1>8 DEF SelectedFrom
<1>14. \A r \in e.names : r \in Kept(V, rolled) /\ Kind(r) = "vault"
  BY <1>4 DEF lww_winners, Names, OfKind
<1>15. \A r \in e.secrets : r \in Kept(V, rolled) /\ Kind(r) = "secret"
  BY <1>4 DEF lww_winners, Values, OfKind
<1> QED
  BY <1>4, <1>9, <1>10, <1>11, <1>12, <1>13, <1>14, <1>15, EffectiveAssumption

\* An entry point is signed under the key it declares, so those at one key are
\* verified together: where one is, the newest this machine knows is admitted.
LEMMA RolledEntries ==
    ASSUME NEW V, NEW t, NEW e, Reported(V, t, e), NEW v \in verified_records(V),
           Kind(v) = "entry"
    PROVE  v.key \notin e.rolled
<1>1. Wellformed(V) /\ t \in [RecordKeys -> 0 .. MaxCounter] /\ Witnessed(V, t)
  BY DEF Reported
<1>2. PICK r \in V : v.key = r.key /\ v.signer \in signer_for_key(V, r.by)
  BY <1>1, VerifiedOrigin
<1>3. v.key \in RecordKeys /\ v.counter \in 1 .. MaxCounter
  BY <1>1, VerifiedOrigin
<1>4. ASSUME v.key \in e.rolled PROVE FALSE
  <2>1. Marks(V)[v.key] < t[v.key]
    BY <1>4, ReportMarks DEF Reported, rollback_keys
  <2>2. t[v.key] \in Nat /\ Marks(V)[v.key] \in Nat
    BY <1>1, <1>3, MarksFacts, CommandsAssumption
  <2>3. PICK s \in V : s.key = v.key /\ s.counter = t[v.key]
    BY <1>1, <1>3, <2>1, <2>2 DEF Witnessed
  <2>4. s.by = r.by
    BY <1>1, <1>2, <2>3, WellformedRecord DEF Kind, About
  <2>5. SignedBy(s, v.signer) \in verified_records(V)
    BY <1>1, <1>2, <2>4, VerifiedIff
  <2>6. PICK x : x = SignedBy(s, v.signer)
    OBVIOUS
  <2>7. x.key = v.key /\ x.counter = t[v.key]
    BY <2>3, <2>6 DEF SignedBy
  <2>8. x \in Entitled(V)
    BY <2>5, <2>6, <2>7 DEF Entitled, Admitted, Kind
  <2>9. x.counter <= Marks(V)[x.key]
    BY <1>1, <2>8, MarksFacts
  <2> QED
    BY <2>1, <2>2, <2>7, <2>9
<1> QED
  BY <1>4

\* Unless a record that decides who may do what is behind the ratchet, the
\* report is that of the whole vault.
LEMMA NothingLeftOut ==
    ASSUME NEW V, NEW t, NEW e, Reported(V, t, e), ~ AuthorityRolled(e)
    PROVE  Final(V, e.rolled) = Whole(V)
<1>1. PICK rolled : rolled = e.rolled
  OBVIOUS
<1>2. ASSUME NEW r \in verified_records(V),
             Kind(r) \in {"user", "entry", "group", "member", "grant"}
      PROVE  r.key \notin rolled
  <2>1. CASE Kind(r) = "entry"
    BY <1>1, <2>1, RolledEntries
  <2>2. CASE Kind(r) # "entry"
    BY <1>1, <1>2, <2>2 DEF AuthorityRolled, Kind
  <2> QED
    BY <2>1, <2>2
<1>3. principal_records(Kept(V, rolled)) = principal_records(verified_records(V))
  BY <1>2 DEF principal_records, Kept
<1> QED
  BY <1>1, <1>3, FinalIs DEF Whole

\* Nothing a resolved report shows is older than the newest record the vault
\* admits at its key.
LEMMA ShownNotBehind ==
    ASSUME NEW V, NEW t, NEW e, Reported(V, t, e), Authoritative(e)
    PROVE  /\ \A u \in e.users \ {rootUser} :
                  \E w \in V : /\ w.key = <<"user", <<u>>>> /\ w.live
                               /\ w.counter >= Marks(V)[w.key]
           /\ \A id \in e.members :
                  \E w \in V : /\ w.key = <<"member", id>> /\ w.live
                               /\ w.counter >= Marks(V)[w.key]
           /\ \A g \in e.grants : /\ g.counter >= Marks(V)[g.key]
                                  /\ \E w \in V : w.key = g.key /\ w.live /\ w.counter = g.counter
           /\ \A r \in e.names \cup e.secrets : r.counter >= Marks(V)[r.key]
           /\ \A r \in e.secrets : r.counter <= Marks(V)[r.key]
<1>1. PICK rolled : rolled = rollback_keys(Marks(V), t)
  OBVIOUS
<1>2. PICK F : F = Final(V, rolled)
  OBVIOUS
<1>3. PICK graph : graph = F.graph
  OBVIOUS
<1>4. /\ e.users = graph.selected.users /\ e.members = graph.selected.members
      /\ e.grants = graph.selected.grants
      /\ e.names = lww_winners(Names(Kept(V, rolled), graph.auth))
      /\ e.secrets = lww_winners(Values(Kept(V, rolled), graph.auth))
      /\ e.rolled = rolled
      /\ e.authority_unresolved <=> ~ graph.settled
  BY <1>1, <1>2, <1>3, ReportFields DEF Reported
<1>5. Wellformed(V) /\ graph.settled
  BY <1>4 DEF Reported, Authoritative
<1>6. PICK P : P = principal_records(Kept(V, rolled))
  OBVIOUS
<1>7. SelectedFrom(P, F.admitted, graph.auth, graph.selected)
  BY <1>2, <1>3, <1>5, <1>6, FinalSelected
<1>8. F = Whole(V)
  BY <1>2, <1>4, NothingLeftOut DEF Authoritative
<1>9. \A r \in verified_records(V) : r.key \in RecordKeys /\ r.counter \in Nat
  BY <1>5, VerifiedOrigin, CommandsAssumption
<1>10. Marks(V) \in [RecordKeys -> Nat]
  BY <1>5, MarksFacts, CommandsAssumption
<1>11. ASSUME NEW k \in RecordKeys
       PROVE  \/ Marks(V)[k] = 0
              \/ \E s \in Entitled(V) : s.key = k /\ s.counter = Marks(V)[k]
  BY <1>5, MarksFacts
<1>12. \A s \in Entitled(V) : s \in verified_records(V)
  BY EntitledSubset
<1>13. ASSUME NEW s \in Entitled(V), NEW w \in P, s.key = w.key
       PROVE  s \in P
  BY <1>6, <1>12, <1>13 DEF principal_records, Kept, Kind
<1>14. \A w \in P : w \in verified_records(V) /\ w.key \in RecordKeys
  BY <1>5, <1>6, <1>9, KeptFacts
<1>15. ASSUME NEW u \in e.users \ {rootUser}
       PROVE  \E w \in V : w.key = <<"user", <<u>>>> /\ w.live /\ w.counter >= Marks(V)[w.key]
  <2>1. PICK w \in P : /\ w.key = <<"user", <<u>>>> /\ w.live
                       /\ \A s \in P : (/\ s.key = w.key
                                        /\ IF s.live THEN graph.auth[s.signer].administer
                                           ELSE s \in F.admitted)
                                             => w.counter >= s.counter
    BY <1>4, <1>7 DEF SelectedFrom
  <2>2. \A s \in Entitled(V) : s.key = w.key => w.counter >= s.counter
    <3>1. SUFFICES ASSUME NEW s \in Entitled(V), s.key = w.key
                   PROVE  IF s.live THEN graph.auth[s.signer].administer ELSE s \in F.admitted
      BY <1>13, <2>1
    <3> QED
      BY <1>3, <1>8, <2>1, <3>1 DEF Entitled, Admitted, Kind
  <2>3. w.counter >= Marks(V)[w.key]
    BY <1>9, <1>10, <1>11, <1>14, <2>2
  <2> QED
    BY <1>5, <1>14, <2>1, <2>3, VerifiedOrigin
<1>16. ASSUME NEW id \in e.members
       PROVE  \E w \in V : w.key = <<"member", id>> /\ w.live /\ w.counter >= Marks(V)[w.key]
  <2>1. PICK w \in P : /\ w.key = <<"member", id>> /\ w.live
                       /\ \A s \in P : (s.key = w.key /\ graph.auth[s.signer].administer)
                                             => w.counter >= s.counter
    BY <1>4, <1>7 DEF SelectedFrom
  <2>2. \A s \in Entitled(V) : s.key = w.key => w.counter >= s.counter
    <3>1. SUFFICES ASSUME NEW s \in Entitled(V), s.key = w.key
                   PROVE  graph.auth[s.signer].administer
      BY <1>13, <2>1
    <3> QED
      BY <1>3, <1>8, <2>1, <3>1 DEF Entitled, Admitted, Kind
  <2>3. w.counter >= Marks(V)[w.key]
    BY <1>9, <1>10, <1>11, <1>14, <2>2
  <2> QED
    BY <1>5, <1>14, <2>1, <2>3, VerifiedOrigin
<1>17. ASSUME NEW g \in e.grants
       PROVE  /\ g.counter >= Marks(V)[g.key]
              /\ \E w \in V : w.key = g.key /\ w.live /\ w.counter = g.counter
  <2>1. /\ g \in P /\ Kind(g) = "grant" /\ g.live
        /\ \A s \in P : (s.key = g.key /\ ~ s.live /\ s \in F.admitted)
                              => g.counter >= s.counter
    BY <1>4, <1>7 DEF SelectedFrom
  <2>2. PICK w \in V : w.key = g.key /\ w.live = g.live /\ w.counter = g.counter
    BY <1>5, <1>14, <2>1, VerifiedOrigin
  <2>3. ASSUME NEW s \in Entitled(V), s.key = g.key
        PROVE  g.counter >= s.counter
    <3>1. CASE s.live
      <4>1. PICK x \in V : x.key = s.key /\ x.live = s.live /\ x.counter = s.counter
        BY <1>5, <1>12, VerifiedOrigin
      <4>2. x = w
        BY <1>5, <2>1, <2>2, <2>3, <3>1, <4>1 DEF Wellformed, Kind
      <4> QED
        BY <1>9, <1>12, <2>2, <4>1, <4>2
    <3>2. CASE ~ s.live
      <4>1. s \in F.admitted
        BY <1>8, <2>1, <2>3, <3>2 DEF Entitled, Admitted, Kind
      <4> QED
        BY <1>13, <2>1, <2>3, <3>2, <4>1
    <3> QED
      BY <3>1, <3>2
  <2>4. g.counter >= Marks(V)[g.key]
    BY <1>9, <1>10, <1>11, <1>14, <2>1, <2>3
  <2> QED
    BY <2>1, <2>2, <2>4
<1>18. ASSUME NEW r \in e.names
       PROVE  r.counter >= Marks(V)[r.key]
  <2>1. \A x \in Names(Kept(V, rolled), graph.auth) : x.counter \in Nat
    BY <1>9 DEF Names, OfKind, Kept
  <2>2. /\ r \in Names(Kept(V, rolled), graph.auth)
        /\ \A s \in Names(Kept(V, rolled), graph.auth) : s.key = r.key => r.counter >= s.counter
    BY <1>4, <2>1, WinnerBeats
  <2>3. r \in verified_records(V) /\ Kind(r) = "vault" /\ r.key \notin rolled
    BY <2>2 DEF Names, OfKind, Kept
  <2>4. ASSUME NEW s \in Entitled(V), s.key = r.key
        PROVE  s \in Names(Kept(V, rolled), graph.auth)
    BY <1>3, <1>8, <1>12, <2>3, <2>4 DEF Names, OfKind, Kept, Entitled, Admitted, Kind
  <2> QED
    BY <1>9, <1>10, <1>11, <2>2, <2>3, <2>4
<1>19. ASSUME NEW r \in e.secrets
       PROVE  r.counter >= Marks(V)[r.key] /\ r.counter <= Marks(V)[r.key]
  <2>1. \A x \in Values(Kept(V, rolled), graph.auth) : x.counter \in Nat
    BY <1>9 DEF Values, OfKind, Kept
  <2>2. /\ r \in Values(Kept(V, rolled), graph.auth)
        /\ \A s \in Values(Kept(V, rolled), graph.auth) : s.key = r.key => r.counter >= s.counter
    BY <1>4, <2>1, WinnerBeats
  <2>3. /\ r \in verified_records(V) /\ Kind(r) = "secret" /\ r.key \notin rolled
        /\ can_write(graph.auth[r.signer], About(r))
    BY <2>2 DEF Values, OfKind, Kept
  <2>4. ASSUME NEW s \in Entitled(V), s.key = r.key
        PROVE  s \in Values(Kept(V, rolled), graph.auth)
    BY <1>3, <1>8, <1>12, <2>3, <2>4 DEF Values, OfKind, Kept, Entitled, Admitted, Kind
  <2>5. r \in Entitled(V)
    BY <1>3, <1>8, <2>3 DEF Entitled, Admitted, Kind
  <2>6. r.counter <= Marks(V)[r.key]
    BY <1>5, <2>5, MarksFacts
  <2> QED
    BY <1>9, <1>10, <1>11, <2>2, <2>3, <2>4, <2>6
<1> QED
  BY <1>15, <1>16, <1>17, <1>18, <1>19

\* A set a finite set maps onto is finite.
LEMMA FiniteRange ==
    ASSUME NEW S, IsFiniteSet(S), NEW f, f = [x \in S |-> f[x]],
           NEW T, \A y \in T : \E x \in S : y = f[x]
    PROVE  IsFiniteSet(T)
<1> DEFINE R == {f[x] : x \in S}
<1>1. f \in Surjection(S, R)
  BY DEF Surjection
<1>2. T \in SUBSET R
  OBVIOUS
<1> HIDE DEF R
<1>3. IsFiniteSet(R)
  BY <1>1, FS_Surjection
<1> QED
  BY <1>2, <1>3, FS_Subset

LEMMA ReportFinite ==
    ASSUME NEW V, NEW t, NEW e, Reported(V, t, e)
    PROVE  IsFiniteSet(e.members) /\ IsFiniteSet(e.grants)
<1>1. Wellformed(V)
  BY DEF Reported
<1>2. IsFiniteSet(verified_records(V))
  BY <1>1, VerifiedTyped DEF Verified
<1>3. e.grants \in SUBSET verified_records(V)
  BY ShownNotRolled
<1>4. IsFiniteSet(e.grants)
  BY <1>2, <1>3, FS_Subset
<1>5. PICK rolled : rolled = rollback_keys(Marks(V), t)
  OBVIOUS
<1>6. PICK F : F = Final(V, rolled)
  OBVIOUS
<1>7. PICK graph : graph = F.graph
  OBVIOUS
<1>8. e.members = graph.selected.members
  BY <1>5, <1>6, <1>7, ReportFields DEF Reported
<1>9. PICK P : P = principal_records(Kept(V, rolled))
  OBVIOUS
<1>10. PICK a : SelectedFrom(P, F.admitted, a, graph.selected)
  BY <1>1, <1>6, <1>7, <1>9, FinalSelected
<1>11. \A id \in e.members : \E w \in P : w.key = <<"member", id>>
  BY <1>8, <1>10 DEF SelectedFrom
<1>12. IsFiniteSet(P)
  BY <1>1, <1>9, KeptFacts DEF Verified
<1> DEFINE f == [w \in P |-> Id(w)]
<1>13. f = [w \in P |-> f[w]]
  OBVIOUS
<1>14. ASSUME NEW id \in e.members
       PROVE  \E w \in P : id = f[w]
  <2>1. PICK w \in P : w.key = <<"member", id>>
    BY <1>11
  <2>2. f[w] = w.key[2]
    BY DEF Id
  <2> QED
    BY <2>1, <2>2
<1> HIDE DEF f
<1>15. IsFiniteSet(e.members)
  BY <1>12, <1>13, <1>14, FiniteRange
<1> QED
  BY <1>4, <1>15

LEMMA ReportNumbers ==
    ASSUME NEW V, NEW t, NEW e, Reported(V, t, e)
    PROVE  e.next \in Nat /\ e.next >= 1 /\ e.floor \in Nat
<1>1. PICK rolled : rolled = rollback_keys(Marks(V), t)
  OBVIOUS
<1>2. PICK graph : graph = Final(V, rolled).graph
  OBVIOUS
<1>3. e.next = First(Marks(V)) /\ e.floor = Least(t, rolled)
  BY <1>1, <1>2, ReportFields DEF Reported
<1>4. Wellformed(V) /\ t \in [RecordKeys -> 0 .. MaxCounter]
  BY DEF Reported
<1>5. First(Marks(V)) \in Nat /\ First(Marks(V)) >= 1
  <2> DEFINE S == {Marks(V)[k] : k \in RecordKeys}
  <2>1. S \subseteq 0 .. MaxCounter
    BY <1>4, MarksFacts
  <2>2. First(Marks(V)) = 1 + Highest(S)
    BY DEF First
  <2> HIDE DEF S
  <2>3. Highest(S) \in 0 .. MaxCounter
    BY <2>1, HighestFacts, CommandsAssumption
  <2> QED
    BY <2>2, <2>3, CommandsAssumption
<1>6. Least(t, rolled) \in Nat
  <2> DEFINE S == {t[k] + 1 : k \in rolled}
  <2>1. S \subseteq 0 .. (MaxCounter + 1)
    BY <1>1, <1>4, CommandsAssumption DEF rollback_keys
  <2>2. Least(t, rolled) = Highest(S)
    BY DEF Least
  <2> HIDE DEF S
  <2>3. PICK N \in Nat : N = MaxCounter + 1
    BY CommandsAssumption
  <2>4. Highest(S) \in 0 .. N
    BY <2>1, <2>3, HighestFacts
  <2> QED
    BY <2>2, <2>4
<1> QED
  BY <1>3, <1>5, <1>6

\* A key in no rollback conflict is not behind the ratchet.
LEMMA MarksNotBehind ==
    ASSUME NEW V, NEW t, NEW e, Reported(V, t, e), NEW k \in RecordKeys, k \notin e.rolled
    PROVE  Marks(V)[k] >= t[k]
<1>1. Marks(V)[k] \in Nat /\ t[k] \in Nat
  BY MarksFacts, CommandsAssumption DEF Reported
<1>2. ~ (Marks(V)[k] < t[k])
  BY ReportMarks DEF Reported, rollback_keys
<1> QED
  BY <1>1, <1>2

\* The raised ratchet reports the same.
LEMMA AbsorbReported ==
    ASSUME NEW V, NEW t, NEW e, Reported(V, t, e),
           NEW raised, raised = apply_update(t, e)
    PROVE  /\ Reported(V, raised, e)
           /\ \A k \in RecordKeys : raised[k] >= t[k] /\ raised[k] >= Marks(V)[k]
<1>1. Wellformed(V) /\ t \in [RecordKeys -> 0 .. MaxCounter] /\ Witnessed(V, t)
  BY DEF Reported
<1>2. t \in [RecordKeys -> Nat] /\ Marks(V) \in [RecordKeys -> 0 .. MaxCounter]
  BY <1>1, MarksFacts, CommandsAssumption
<1>3. /\ validate_v1(V, raised) = validate_v1(V, t)
      /\ \A k \in RecordKeys : raised[k] \in {Marks(V)[k], t[k]}
      /\ \A k \in RecordKeys : raised[k] >= Marks(V)[k] /\ raised[k] >= t[k]
      /\ raised \in [RecordKeys -> Nat]
  BY <1>1, <1>2, AbsorbKeepsReport DEF Reported
<1>4. raised \in [RecordKeys -> 0 .. MaxCounter]
  BY <1>1, <1>2, <1>3
<1>5. Witnessed(V, raised)
  <2>1. SUFFICES ASSUME NEW k \in RecordKeys, raised[k] # 0
                 PROVE  \E r \in V : r.key = k /\ r.counter = raised[k]
    BY DEF Witnessed
  <2>2. CASE raised[k] = t[k]
    BY <1>1, <2>1, <2>2 DEF Witnessed
  <2>3. CASE raised[k] = Marks(V)[k]
    BY <1>1, <2>1, <2>3, MarksFacts
  <2> QED
    BY <1>3, <2>2, <2>3
<1> QED
  BY <1>1, <1>3, <1>4, <1>5 DEF Reported

\* It stands where the report does, but at the keys behind it.
LEMMA AbsorbEven ==
    ASSUME NEW V, NEW t, NEW e, Reported(V, t, e),
           NEW raised, raised = apply_update(t, e), NEW k \in RecordKeys, k \notin e.rolled
    PROVE  raised[k] = Marks(V)[k]
<1>1. Marks(V)[k] >= t[k]
  BY MarksNotBehind
<1>2. Marks(V)[k] \in Nat /\ t[k] \in Nat
  BY MarksFacts, CommandsAssumption DEF Reported
<1>3. raised[k] = IF Marks(V)[k] > t[k] THEN Marks(V)[k] ELSE t[k]
  BY ReportMarks DEF Reported, apply_update
<1> QED
  BY <1>1, <1>2, <1>3

\* What is known of a vault stays known when records are added to it.
LEMMA GrownReported ==
    ASSUME NEW V, NEW t, NEW e, Reported(V, t, e), NEW W, Wellformed(W), V \subseteq W
    PROVE  Reported(W, t, validate_v1(W, t))
BY DEF Reported, Witnessed

(* -------------------- the invariant of the commands -------------------- *)

SessionFields ==
    {"phase", "home", "cmd", "who", "report", "memory", "stored", "new", "main", "next"}

\* The arguments of a running command that become keys of records.
Typed(s) ==
    /\ s.cmd.op = "user_add" => s.cmd.on \in Users
    /\ s.cmd.op = "handle_set" => s.cmd.on \in UserHandles
    /\ s.cmd.op = "name_set" => s.cmd.on \in VaultHandles
    /\ s.cmd.op \in {"set", "delete", "move", "field_set", "field_delete"} => s.cmd.on \in Secrets
    /\ s.cmd.op = "move" => s.cmd.arg \in Secrets
    /\ (s.cmd.op = "group_add" /\ s.home = "idle") =>
           s.cmd.on \in Groups /\ s.cmd.arg \in Principals

\* A report made when the ratchet was no higher than it, but at its rolled keys.
Remembers(e, t) ==
    \E V, u : /\ Reported(V, u, e)
              /\ \A k \in RecordKeys : k \in e.rolled \/ Marks(V)[k] >= t[k]

\* A session's report is one made when its ratchet was no higher.
Held(s) == s.memory \in [RecordKeys -> 0 .. MaxCounter] /\ Remembers(s.report, s.memory)

\* A value of a secret in a report.
ReadFrom(e, x, n) == \E r \in e.secrets : r.key = <<"secret", <<x>>>> /\ r.counter = n

\* What a session that stored its raises read is in the ratchet.
InMemory(s, t) ==
    (s.stored /\ Authoritative(s.report)) =>
        \A x, n : ReadFrom(s.report, x, n) => t[<<"secret", <<x>>>>] >= n

\* What a machine is doing, with its ratchet.
SessionOK(s, t) ==
    /\ s.phase \in {"idle", "run", "read", "commit", "converge", "vacate", "sdk"}
    /\ s.phase # "idle" => /\ DOMAIN s = SessionFields
                           /\ s.who \in Users
                           /\ Held(s)
    /\ s.phase = "read" => InMemory(s, t)
    /\ s.phase = "sdk" => s.home # "idle"
    /\ s.phase = "run" => Typed(s)
    /\ s.phase = "vacate" => s.cmd.on \in Secrets
    /\ s.phase \in {"converge", "vacate"} => s.cmd.op # "user_delete"

\* What the deletion of a user appends for all that hangs off it.
Cascaded(e, p, u, new) ==
    /\ \A id \in members_of(e, p) :
          \E r \in new : /\ r.key = <<"member", id>> /\ ~ r.live
                         /\ r.by = KeyOf[u] /\ r.counter > e.next
    /\ \A x \in grants_of(e, p) :
          \E r \in new : /\ r.key = x.key /\ ~ r.live
                         /\ r.by = KeyOf[u] /\ r.counter > e.next

\* Records about to be appended: well-formed, with grant ids nobody has drawn.
Appendable(new, v) ==
    /\ Wellformed(new)
    /\ \A r \in new : (Kind(r) = "grant" /\ r.live) =>
           \A n \in Machines : \A s \in v[n] : s.key # r.key

\* A commit under way.
CommitOK(s, v, e) ==
    s.phase = "commit" =>
        /\ Appendable(s.new, v)
        /\ s.next \in {"done", "converge", "vacate"}
        /\ s.next = "vacate" => s.cmd.on \in Secrets
        /\ s.next # "done" => s.cmd.op # "user_delete"
        /\ s.cmd.op = "user_delete" => Cascaded(e, s.cmd.on, s.who, s.new)

\* A grant id is drawn once, on all machines together.
Drawn(v) ==
    \A m, n \in Machines : \A r \in v[m], s \in v[n] :
        (r.key = s.key /\ Kind(r) = "grant" /\ r.live /\ s.live) => r = s

\* What deletions took away is remembered as deleted.
LostOK(L, t) ==
    \A x \in L : x.key \in RecordKeys /\ x.counter \in Nat /\ t[x.key] > x.counter

CommandsInv ==
    /\ DOMAIN vault = Machines /\ DOMAIN report = Machines /\ DOMAIN cmd = Machines
    /\ DOMAIN lost = Machines
    /\ default \in [Machines -> Users \cup {None}]
    /\ ratchet \in [Machines -> [RecordKeys -> 0 .. MaxCounter]]
    /\ DOMAIN released = Machines /\ \A m \in Machines : DOMAIN released[m] = Secrets
    /\ commits \in Nat
    /\ \A c \in issues : Issuable(c)
    /\ \A m \in Machines : Reported(vault[m], ratchet[m], report[m])
    /\ Drawn(vault)
    /\ \A m \in Machines : SessionOK(cmd[m], ratchet[m])
    /\ \A m \in Machines : CommitOK(cmd[m], vault, report[m])
    /\ \A m, n \in Machines : (cmd[m].phase = "commit" /\ cmd[n].phase = "commit") => m = n
    /\ \A m \in Machines : LostOK(lost[m], ratchet[m])

\* What every step but a commit and a merge does: nothing is under the lock,
\* and one machine goes on with its command, or remembers what it has seen.
LocalStep(m) ==
    /\ UNCHANGED <<vault, report, issues, commits, lost>>
    /\ \A n \in Machines : cmd[n].phase # "commit"
    /\ ratchet' = ratchet \/ ratchet' = [ratchet EXCEPT ![m] = Raised(m)]
    /\ default' \in [Machines -> Users \cup {None}]
    /\ DOMAIN cmd' = Machines /\ \A n \in Machines \ {m} : cmd'[n] = cmd[n]
    /\ SessionOK(cmd[m], ratchet[m])'
    /\ CommitOK(cmd[m], vault, report[m])'
    /\ DOMAIN released' = Machines /\ \A n \in Machines : DOMAIN released'[n] = Secrets

LEMMA LocalStepKeeps ==
    ASSUME CommandsInv, NEW m \in Machines, LocalStep(m)
    PROVE  CommandsInv'
<1> DEFINE raised == apply_update(ratchet[m], report[m])
<1>1. /\ Reported(vault[m], raised, report[m])
      /\ \A k \in RecordKeys : raised[k] >= ratchet[m][k]
  BY AbsorbReported DEF CommandsInv
<1>2. raised \in [RecordKeys -> 0 .. MaxCounter]
  BY <1>1 DEF Reported
<1> HIDE DEF raised
<1>3. \/ ratchet' = ratchet
      \/ ratchet' = [ratchet EXCEPT ![m] = raised]
  BY DEF LocalStep, Raised, raised
<1>4. /\ ratchet' \in [Machines -> [RecordKeys -> 0 .. MaxCounter]]
      /\ \A n \in Machines \ {m} : ratchet'[n] = ratchet[n]
      /\ ratchet'[m] = ratchet[m] \/ ratchet'[m] = raised
  BY <1>2, <1>3 DEF CommandsInv
<1>5. \A n \in Machines : Reported(vault'[n], ratchet'[n], report'[n])
  BY <1>1, <1>4 DEF CommandsInv, LocalStep
<1>6. \A n \in Machines : SessionOK(cmd'[n], ratchet'[n])
  BY <1>4 DEF CommandsInv, LocalStep
<1>7. \A n \in Machines \ {m} : cmd'[n].phase # "commit"
  BY DEF LocalStep
<1>8. \A n \in Machines : CommitOK(cmd'[n], vault', report'[n])
  BY <1>7 DEF LocalStep, CommitOK
<1>9. \A n \in Machines : LostOK(lost'[n], ratchet'[n])
  <2>1. LostOK(lost[m], raised)
    <3>1. \A k \in RecordKeys : raised[k] \in Nat /\ ratchet[m][k] \in Nat
      BY <1>2, CommandsAssumption DEF CommandsInv
    <3> QED
      BY <1>1, <3>1 DEF CommandsInv, LostOK
  <2> QED
    BY <1>4, <2>1 DEF CommandsInv, LocalStep
<1> QED
  BY <1>4, <1>5, <1>6, <1>7, <1>8, <1>9 DEF CommandsInv, LocalStep

LEMMA IdleOK ==
    ASSUME NEW s, s.phase = "idle", NEW t, NEW v, NEW e
    PROVE  SessionOK(s, t) /\ CommitOK(s, v, e)
BY DEF SessionOK, CommitOK

\* What is reported now is no older than the ratchet.
LEMMA ReportRemembers ==
    ASSUME CommandsInv, NEW m \in Machines
    PROVE  Remembers(report[m], ratchet[m])
<1>1. Reported(vault[m], ratchet[m], report[m])
  BY DEF CommandsInv
<1>2. \A k \in RecordKeys : k \in report[m].rolled \/ Marks(vault[m])[k] >= ratchet[m][k]
  BY <1>1, MarksNotBehind
<1> QED
  BY <1>1, <1>2 DEF Remembers

\* Where a command ends.
LEMMA ReturnOK ==
    ASSUME CommandsInv, NEW m \in Machines, cmd[m].phase # "idle",
           NEW e, NEW u \in [RecordKeys -> 0 .. MaxCounter], Remembers(e, u), NEW t
    PROVE  SessionOK(Return(m, e, u), t) /\ Return(m, e, u).phase # "commit"
<1>1. DOMAIN cmd[m] = SessionFields /\ cmd[m].who \in Users
  BY DEF CommandsInv, SessionOK
<1>2. CASE cmd[m].home = "idle"
  <2>1. Return(m, e, u).phase = "idle"
    BY <1>2 DEF Return, Idle
  <2> QED
    BY <2>1, IdleOK
<1>3. CASE cmd[m].home # "idle"
  <2>1. PICK s : s = Return(m, e, u)
    OBVIOUS
  <2>2. /\ s.phase = "sdk" /\ s.report = e /\ s.memory = u /\ s.who = cmd[m].who
        /\ DOMAIN s = SessionFields /\ s.home # "idle"
    BY <1>1, <1>3, <2>1 DEF Return, SessionFields
  <2>3. Held(s)
    BY <2>2 DEF Held
  <2>4. SessionOK(s, t) /\ s.phase # "commit"
    BY <1>1, <2>2, <2>3 DEF SessionOK
  <2> QED
    BY <2>1, <2>4
<1> QED
  BY <1>2, <1>3

\* A command that fails leaves everything as it was.
LEMMA FailStep ==
    ASSUME CommandsInv, NEW m \in Machines, NEW p, Phase(m, p), p # "idle",
           NEW e, NEW u \in [RecordKeys -> 0 .. MaxCounter], Remembers(e, u), Fail(m, e, u)
    PROVE  LocalStep(m)
<1>1. /\ cmd' = [cmd EXCEPT ![m] = Return(m, e, u)]
      /\ UNCHANGED <<vault, ratchet, report, default, issues, commits, released, lost>>
  BY DEF Fail
<1>2. /\ cmd'[m] = Return(m, e, u) /\ DOMAIN cmd' = Machines
      /\ \A n \in Machines \ {m} : cmd'[n] = cmd[n]
  BY <1>1 DEF CommandsInv
<1>3. cmd[m].phase = p /\ \A n \in Machines : cmd[n].phase # "commit"
  BY DEF Phase
<1>4. SessionOK(Return(m, e, u), ratchet[m]) /\ Return(m, e, u).phase # "commit"
  BY <1>3, ReturnOK
<1> QED
  BY <1>1, <1>2, <1>3, <1>4 DEF LocalStep, CommandsInv, CommitOK

\* LockedSession::commit, once the vault has been reloaded without issues.
Locked(m, new, main, next) ==
    /\ cmd' = [cmd EXCEPT ![m].phase = "commit", ![m].new = new,
                          ![m].main = main, ![m].next = next]
    /\ UNCHANGED <<vault, ratchet, report, default, issues, commits, released, lost>>

LEMMA LockedStep ==
    ASSUME CommandsInv, NEW m \in Machines, NEW p, Phase(m, p), p # "idle",
           NEW new, NEW main, NEW next, Locked(m, new, main, next),
           Appendable(new, vault), next \in {"done", "converge", "vacate"},
           next = "vacate" => cmd[m].cmd.on \in Secrets,
           next # "done" => cmd[m].cmd.op # "user_delete",
           cmd[m].cmd.op = "user_delete" =>
               Cascaded(report[m], cmd[m].cmd.on, cmd[m].who, new)
    PROVE  LocalStep(m)
<1>1. PICK s : s = [cmd[m] EXCEPT !.phase = "commit", !.new = new, !.main = main, !.next = next]
  OBVIOUS
<1>2. /\ SessionOK(cmd[m], ratchet[m]) /\ cmd[m].phase = p
      /\ \A n \in Machines : cmd[n].phase # "commit"
  BY DEF CommandsInv, Phase
<1>3. DOMAIN cmd[m] = SessionFields /\ cmd[m].who \in Users /\ Held(cmd[m])
  BY <1>2 DEF SessionOK
<1>4. /\ s.phase = "commit" /\ s.report = cmd[m].report /\ s.memory = cmd[m].memory
      /\ s.who = cmd[m].who
      /\ s.cmd = cmd[m].cmd /\ s.new = new /\ s.next = next
      /\ DOMAIN s = SessionFields
  BY <1>1, <1>3 DEF SessionFields
<1>5. /\ cmd'[m] = s /\ DOMAIN cmd' = Machines
      /\ \A n \in Machines \ {m} : cmd'[n] = cmd[n]
      /\ UNCHANGED <<vault, ratchet, report, default, issues, commits, released, lost>>
  BY <1>1 DEF CommandsInv, Locked
<1>6. SessionOK(s, ratchet[m])
  BY <1>3, <1>4 DEF SessionOK, Held
<1>7. CommitOK(s, vault, report[m])
  BY <1>4 DEF CommitOK
<1> QED
  BY <1>2, <1>5, <1>6, <1>7 DEF LocalStep, CommandsInv

LEMMA FailsStep ==
    ASSUME CommandsInv, NEW m \in Machines, NEW p, Phase(m, p), p # "idle",
           Fail(m, cmd[m].report, cmd[m].memory) \/ Fail(m, report[m], ratchet[m])
    PROVE  LocalStep(m)
<1>1. Held(cmd[m])
  BY DEF CommandsInv, SessionOK, Phase
<1>2. ratchet[m] \in [RecordKeys -> 0 .. MaxCounter]
  BY DEF CommandsInv
<1> QED
  BY <1>1, <1>2, FailStep, ReportRemembers DEF Held

\* A record as the commands make them.
Made(m, r) ==
    /\ r.key \in RecordKeys
    /\ Kind(r) = "entry" => r.by = KeyOf[About(r)]
    /\ r.counter \in Nat /\ r.counter >= 1
    /\ r.by \in SigningKeys

LEMMA OneAppendable ==
    ASSUME NEW m \in Machines, NEW r, Made(m, r), Mintable({r}),
           (Kind(r) = "grant" /\ r.live) => \A n \in Machines : \A s \in vault[n] : s.key # r.key
    PROVE  Appendable({r}, vault)
<1>1. IsFiniteSet({r})
  BY FS_Singleton
<1>2. r.counter \in 1 .. MaxCounter
  BY CommandsAssumption DEF Mintable, Made
<1> QED
  BY <1>1, <1>2 DEF Appendable, Wellformed, Made

\* commit_record counts above the watermarks, and signs as the acting user.
LEMMA CommitRecordMade ==
    ASSUME CommandsInv, NEW m \in Machines, NEW p, Phase(m, p), p # "idle",
           NEW r, r.key \in RecordKeys, r.key[1] # "entry",
           r.counter = Larger(report[m].next, report[m].floor), r.by = KeyOf[cmd[m].who]
    PROVE  Made(m, r)
<1>1. Reported(vault[m], ratchet[m], report[m]) /\ cmd[m].who \in Users
  BY DEF CommandsInv, SessionOK, Phase
<1>2. report[m].next \in Nat /\ report[m].next >= 1 /\ report[m].floor \in Nat
  BY <1>1, ReportNumbers
<1>3. r.counter \in Nat /\ r.counter >= 1
  BY <1>2 DEF Larger
<1>4. r.by \in SigningKeys
  BY <1>1 DEF SigningKeys
<1> QED
  BY <1>3, <1>4 DEF Made, Kind

\* A command that appends one record, unless it fails.
LEMMA OneStep ==
    ASSUME CommandsInv, NEW m \in Machines, NEW p, Phase(m, p), p # "idle",
           NEW r, NEW next, Made(m, r),
           \/ Fail(m, cmd[m].report, cmd[m].memory) \/ Fail(m, report[m], ratchet[m])
           \/ Mintable({r}) /\ Locked(m, {r}, r, next),
           (Kind(r) = "grant" /\ r.live) => \A n \in Machines : \A s \in vault[n] : s.key # r.key,
           next \in {"done", "converge", "vacate"},
           next = "vacate" => cmd[m].cmd.on \in Secrets,
           cmd[m].cmd.op # "user_delete"
    PROVE  LocalStep(m)
<1>1. CASE Fail(m, cmd[m].report, cmd[m].memory) \/ Fail(m, report[m], ratchet[m])
  BY <1>1, FailsStep
<1>2. CASE Mintable({r}) /\ Locked(m, {r}, r, next)
  <2>1. Appendable({r}, vault)
    BY <1>2, OneAppendable
  <2> QED
    BY <1>2, <2>1, LockedStep
<1> QED
  BY <1>1, <1>2

(* ------------------- the commands append what they may ------------------ *)

LEMMA FreshId ==
    ASSUME NEW ids, Fresh(ids) # {}, NEW id, id = CHOOSE x \in Fresh(ids) : TRUE
    PROVE  id \in ids /\ \A n \in Machines : \A s \in vault[n] : About(s) # id
<1>1. id \in Fresh(ids)
  OBVIOUS
<1> QED
  BY <1>1 DEF Fresh

LEMMA GrantPermissionStep ==
    ASSUME CommandsInv, NEW m \in Machines, cmd_grant_permission(m)
    PROVE  LocalStep(m)
<1>1. PICK id : id = CHOOSE x \in Fresh(Grants) : TRUE
  OBVIOUS
<1>2. Running(m, "grant") /\ Fresh(Grants) # {} /\ grant_permission(m, id)
  BY <1>1 DEF cmd_grant_permission
<1>3. id \in Grants /\ \A n \in Machines : \A s \in vault[n] : About(s) # id
  BY <1>1, <1>2, FreshId
<1>4. PICK data : data = [NoData EXCEPT !.subject = cmd[m].cmd.on, !.permission = cmd[m].cmd.arg]
  OBVIOUS
<1>5. PICK r : r = commit_record(m, "grant", <<id>>, TRUE, data)
  OBVIOUS
<1>6. \/ Fail(m, cmd[m].report, cmd[m].memory) \/ Fail(m, report[m], ratchet[m])
      \/ Mintable({r}) /\ Locked(m, {r}, r, "converge")
  BY <1>2, <1>4, <1>5 DEF grant_permission, PrepareOne, Prepare, Locked
<1>7. Phase(m, "run") /\ cmd[m].cmd.op = "grant" /\ <<"grant", <<id>>>> \in RecordKeys
  BY <1>2, <1>3 DEF Running, RecordKeys
<1>8. Made(m, r) /\ r.key = <<"grant", <<id>>>> /\ Kind(r) = "grant" /\ r.live = TRUE
  <2>1. /\ r.key = <<"grant", <<id>>>> /\ r.live = TRUE /\ r.by = KeyOf[cmd[m].who]
        /\ r.counter = Larger(report[m].next, report[m].floor)
    BY <1>5 DEF commit_record, Record
  <2>2. Made(m, r)
    BY <1>7, <2>1, CommitRecordMade
  <2> QED
    BY <2>1, <2>2 DEF Kind
<1>9. \A n \in Machines : \A s \in vault[n] : s.key # r.key
  BY <1>3, <1>8 DEF About
<1> QED
  BY <1>6, <1>7, <1>8, <1>9, OneStep

LEMMA GrantDeleteStep ==
    ASSUME CommandsInv, NEW m \in Machines, cmd_grant_delete(m)
    PROVE  LocalStep(m)
<1> DEFINE seen == CHOOSE x \in grants_at(cmd[m].report, cmd[m].cmd.on) : TRUE
<1>1. PICK data : data = [NoData EXCEPT !.permission = seen.data.permission]
  OBVIOUS
<1>2. PICK on, r : on = cmd[m].cmd.on /\ r = commit_record(m, "grant", <<on>>, FALSE, data)
  OBVIOUS
<1>3. Running(m, "grant_delete") /\ delete_grant(m)
  BY DEF cmd_grant_delete
<1>4. \/ Fail(m, cmd[m].report, cmd[m].memory) \/ Fail(m, report[m], ratchet[m])
      \/ grants_at(report[m], on) # {} /\ Mintable({r}) /\ Locked(m, {r}, r, "done")
  BY <1>1, <1>2, <1>3 DEF delete_grant, PrepareOne, Prepare, Locked
<1>5. Phase(m, "run") /\ cmd[m].cmd.op = "grant_delete"
  BY <1>3 DEF Running
<1>6. CASE Fail(m, cmd[m].report, cmd[m].memory) \/ Fail(m, report[m], ratchet[m])
  BY <1>5, <1>6, FailsStep
<1>7. CASE grants_at(report[m], on) # {} /\ Mintable({r}) /\ Locked(m, {r}, r, "done")
  <2>1. PICK x \in report[m].grants : About(x) = on
    BY <1>7 DEF grants_at
  <2>2. Reported(vault[m], ratchet[m], report[m])
    BY DEF CommandsInv
  <2>3. x \in verified_records(vault[m]) /\ Kind(x) = "grant" /\ Wellformed(vault[m])
    BY <2>2, ShownNotRolled DEF Reported
  <2>4. x.key \in RecordKeys
    BY <2>3, VerifiedOrigin
  <2>5. x.key = <<"grant", <<on>>>>
    BY <2>1, <2>3, <2>4, KeyShapes DEF Kind, About
  <2>6. Made(m, r) /\ r.key = <<"grant", <<on>>>> /\ Kind(r) = "grant" /\ r.live = FALSE
    <3>1. /\ r.key = <<"grant", <<on>>>> /\ r.live = FALSE /\ r.by = KeyOf[cmd[m].who]
          /\ r.counter = Larger(report[m].next, report[m].floor)
      BY <1>2 DEF commit_record, Record
    <3>2. Made(m, r)
      BY <1>5, <2>4, <2>5, <3>1, CommitRecordMade
    <3> QED
      BY <3>1, <3>2 DEF Kind
  <2> QED
    BY <1>5, <1>7, <2>6, OneStep
<1> QED
  BY <1>4, <1>6, <1>7

LEMMA GroupCreateStep ==
    ASSUME CommandsInv, NEW m \in Machines, cmd_group_create(m)
    PROVE  LocalStep(m)
<1>1. PICK id : id = CHOOSE x \in Fresh(Groups) : TRUE
  OBVIOUS
<1>2. Running(m, "group_create") /\ Fresh(Groups) # {} /\ create_group(m, id)
  BY <1>1 DEF cmd_group_create
<1>3. PICK r : r = commit_record(m, "group", <<id>>, TRUE, NoData)
  OBVIOUS
<1>4. \/ Fail(m, cmd[m].report, cmd[m].memory) \/ Fail(m, report[m], ratchet[m])
      \/ Mintable({r}) /\ Locked(m, {r}, r, "done")
  BY <1>2, <1>3 DEF create_group, PrepareOne, Prepare, Locked
<1>5. id \in Groups
  BY <1>1, <1>2, FreshId
<1>6. Phase(m, "run") /\ cmd[m].cmd.op = "group_create" /\ <<"group", <<id>>>> \in RecordKeys
  BY <1>2, <1>5 DEF Running, RecordKeys
<1>7. Made(m, r) /\ r.key = <<"group", <<id>>>> /\ Kind(r) = "group" /\ r.live = TRUE
  <2>1. /\ r.key = <<"group", <<id>>>> /\ r.live = TRUE /\ r.by = KeyOf[cmd[m].who]
        /\ r.counter = Larger(report[m].next, report[m].floor)
    BY <1>3 DEF commit_record, Record
  <2>2. Made(m, r)
    BY <1>6, <2>1, CommitRecordMade
  <2> QED
    BY <2>1, <2>2 DEF Kind
<1> QED
  BY <1>4, <1>6, <1>7, OneStep

LEMMA GroupAddStep ==
    ASSUME CommandsInv, NEW m \in Machines, cmd_group_add(m)
    PROVE  LocalStep(m)
<1>1. PICK id : id = <<cmd[m].cmd.on, cmd[m].cmd.arg>>
  OBVIOUS
<1>2. PICK r : r = commit_record(m, "member", id, TRUE, NoData)
  OBVIOUS
<1>3. Running(m, "group_add") /\ add_group_member(m)
  BY DEF cmd_group_add
<1>4. \/ Fail(m, cmd[m].report, cmd[m].memory) \/ Fail(m, report[m], ratchet[m])
      \/ Mintable({r}) /\ Locked(m, {r}, r, "converge")
  BY <1>1, <1>2, <1>3 DEF add_group_member, PrepareOne, Prepare, Locked
<1>5. Phase(m, "run") /\ cmd[m].cmd.op = "group_add" /\ cmd[m].home = "idle"
  BY <1>3 DEF Running
<1>6. cmd[m].cmd.on \in Groups /\ cmd[m].cmd.arg \in Principals
  BY <1>5 DEF CommandsInv, SessionOK, Typed, Phase
<1>7. <<"member", id>> \in RecordKeys
  BY <1>1, <1>6 DEF RecordKeys
<1>8. Made(m, r) /\ r.key = <<"member", id>> /\ Kind(r) = "member" /\ r.live = TRUE
  <2>1. /\ r.key = <<"member", id>> /\ r.live = TRUE /\ r.by = KeyOf[cmd[m].who]
        /\ r.counter = Larger(report[m].next, report[m].floor)
    BY <1>2 DEF commit_record, Record
  <2>2. Made(m, r)
    BY <1>5, <1>7, <2>1, CommitRecordMade
  <2> QED
    BY <2>1, <2>2 DEF Kind
<1> QED
  BY <1>4, <1>5, <1>8, OneStep

LEMMA GroupRemoveStep ==
    ASSUME CommandsInv, NEW m \in Machines, cmd_group_remove(m)
    PROVE  LocalStep(m)
<1>1. PICK id : id = <<cmd[m].cmd.on, cmd[m].cmd.arg>>
  OBVIOUS
<1>2. PICK r : r = commit_record(m, "member", id, FALSE, NoData)
  OBVIOUS
<1>3. Running(m, "group_remove") /\ delete_group_member(m)
  BY DEF cmd_group_remove
<1>4. \/ Fail(m, cmd[m].report, cmd[m].memory) \/ Fail(m, report[m], ratchet[m])
      \/ id \in report[m].members /\ Mintable({r}) /\ Locked(m, {r}, r, "done")
  BY <1>1, <1>2, <1>3 DEF delete_group_member, PrepareOne, Prepare, Locked
<1>5. Phase(m, "run") /\ cmd[m].cmd.op = "group_remove"
  BY <1>3 DEF Running
<1>6. CASE Fail(m, cmd[m].report, cmd[m].memory) \/ Fail(m, report[m], ratchet[m])
  BY <1>5, <1>6, FailsStep
<1>7. CASE id \in report[m].members /\ Mintable({r}) /\ Locked(m, {r}, r, "done")
  <2>1. Reported(vault[m], ratchet[m], report[m])
    BY DEF CommandsInv
  <2>2. <<"member", id>> \in RecordKeys
    BY <1>7, <2>1, ShownNotRolled
  <2>3. Made(m, r) /\ r.key = <<"member", id>> /\ Kind(r) = "member" /\ r.live = FALSE
    <3>1. /\ r.key = <<"member", id>> /\ r.live = FALSE /\ r.by = KeyOf[cmd[m].who]
          /\ r.counter = Larger(report[m].next, report[m].floor)
      BY <1>2 DEF commit_record, Record
    <3>2. Made(m, r)
      BY <1>5, <2>2, <3>1, CommitRecordMade
    <3> QED
      BY <3>1, <3>2 DEF Kind
  <2> QED
    BY <1>5, <1>7, <2>3, OneStep
<1> QED
  BY <1>4, <1>6, <1>7

LEMMA HandleSetStep ==
    ASSUME CommandsInv, NEW m \in Machines, cmd_user_handle_set(m)
    PROVE  LocalStep(m)
<1>1. PICK data : data = [NoData EXCEPT !.subject = cmd[m].cmd.arg]
  OBVIOUS
<1>2. PICK on, r : on = cmd[m].cmd.on /\ r = commit_record(m, "handle", <<on>>, TRUE, data)
  OBVIOUS
<1>3. Running(m, "handle_set") /\ set_user_handle(m)
  BY DEF cmd_user_handle_set
<1>4. \/ Fail(m, cmd[m].report, cmd[m].memory) \/ Fail(m, report[m], ratchet[m])
      \/ Mintable({r}) /\ Locked(m, {r}, r, "done")
  BY <1>1, <1>2, <1>3 DEF set_user_handle, PrepareOne, Prepare, Locked
<1>5. Phase(m, "run") /\ cmd[m].cmd.op = "handle_set"
  BY <1>3 DEF Running
<1>6. on \in UserHandles
  BY <1>2, <1>5 DEF CommandsInv, SessionOK, Typed, Phase
<1>7. <<"handle", <<on>>>> \in RecordKeys
  BY <1>6 DEF RecordKeys
<1>8. Made(m, r) /\ r.key = <<"handle", <<on>>>> /\ Kind(r) = "handle" /\ r.live = TRUE
  <2>1. /\ r.key = <<"handle", <<on>>>> /\ r.live = TRUE /\ r.by = KeyOf[cmd[m].who]
        /\ r.counter = Larger(report[m].next, report[m].floor)
    BY <1>2 DEF commit_record, Record
  <2>2. Made(m, r)
    BY <1>5, <1>7, <2>1, CommitRecordMade
  <2> QED
    BY <2>1, <2>2 DEF Kind
<1> QED
  BY <1>4, <1>5, <1>8, OneStep

LEMMA NameSetStep ==
    ASSUME CommandsInv, NEW m \in Machines, cmd_vault_name_set(m)
    PROVE  LocalStep(m)
<1>1. PICK on, r : on = cmd[m].cmd.on /\ r = commit_record(m, "vault", <<on>>, TRUE, NoData)
  OBVIOUS
<1>2. Running(m, "name_set") /\ set_vault_handle(m)
  BY DEF cmd_vault_name_set
<1>3. \/ Fail(m, cmd[m].report, cmd[m].memory) \/ Fail(m, report[m], ratchet[m])
      \/ Mintable({r}) /\ Locked(m, {r}, r, "done")
  BY <1>1, <1>2 DEF set_vault_handle, PrepareOne, Prepare, Locked
<1>4. Phase(m, "run") /\ cmd[m].cmd.op = "name_set"
  BY <1>2 DEF Running
<1>5. on \in VaultHandles
  BY <1>1, <1>4 DEF CommandsInv, SessionOK, Typed, Phase
<1>6. <<"vault", <<on>>>> \in RecordKeys
  BY <1>5 DEF RecordKeys
<1>7. Made(m, r) /\ r.key = <<"vault", <<on>>>> /\ Kind(r) = "vault" /\ r.live = TRUE
  <2>1. /\ r.key = <<"vault", <<on>>>> /\ r.live = TRUE /\ r.by = KeyOf[cmd[m].who]
        /\ r.counter = Larger(report[m].next, report[m].floor)
    BY <1>1 DEF commit_record, Record
  <2>2. Made(m, r)
    BY <1>4, <1>6, <2>1, CommitRecordMade
  <2> QED
    BY <2>1, <2>2 DEF Kind
<1> QED
  BY <1>3, <1>4, <1>7, OneStep

\* Records among which no grant is created.
LEMMA SetAppendable ==
    ASSUME NEW m \in Machines, NEW new, IsFiniteSet(new), Mintable(new),
           \A r \in new : Made(m, r) /\ ~ (Kind(r) = "grant" /\ r.live)
    PROVE  Appendable(new, vault)
<1>1. \A r \in new : r.counter \in 1 .. MaxCounter
  BY CommandsAssumption DEF Mintable, Made
<1> QED
  BY <1>1 DEF Appendable, Wellformed, Made

\* SetToSeq lists a finite set.
LEMMA SetToSeqFacts ==
    ASSUME NEW S, IsFiniteSet(S), NEW q, q = SetToSeq(S)
    PROVE  /\ DOMAIN q = 1 .. Cardinality(S) /\ Cardinality(S) \in Nat
           /\ \A i \in DOMAIN q : q[i] \in S
           /\ \A x \in S : \E i \in DOMAIN q : q[i] = x
           /\ Len(q) \in Nat
<1> DEFINE N == Cardinality(S)
<1>1. N \in Nat /\ ExistsBijection(1 .. N, S)
  BY FS_CardinalityType
<1>2. \E f \in [1 .. N -> S] : IsInjective(f)
  BY <1>1 DEF ExistsBijection, Bijection, Injection
<1>3. q \in [1 .. N -> S] /\ IsInjective(q)
  BY <1>2 DEF SetToSeq
<1>4. q \in Injection(1 .. N, S)
  BY <1>3 DEF Injection
<1>5. IsFiniteSet(1 .. N) /\ Cardinality(1 .. N) = N
  <2> HIDE DEF N
  <2>1. N \in Int /\ 1 \in Int /\ (1 > N => N = 0)
    BY <1>1
  <2> QED
    BY <1>1, <2>1, FS_Interval
<1> HIDE DEF N
<1>6. q \in Surjection(1 .. N, S)
  BY <1>4, <1>5, FS_Injection DEF N
<1>7. Len(q) \in Nat
  BY <1>1, <1>3
<1> QED
  BY <1>1, <1>3, <1>6, <1>7 DEF Surjection, N

\* The cascade deletes all that hangs off the principal, above the counter of
\* its tombstone.
LEMMA CascadeFacts ==
    ASSUME CommandsInv, NEW m \in Machines, NEW p, Phase(m, p), p # "idle", NEW x
    PROVE  /\ IsFiniteSet(Cascade(m, x))
           /\ \A r \in Cascade(m, x) : Made(m, r) /\ ~ r.live
           /\ Cascaded(report[m], x, cmd[m].who, Cascade(m, x))
<1>1. Reported(vault[m], ratchet[m], report[m]) /\ cmd[m].who \in Users
  BY DEF CommandsInv, SessionOK, Phase
<1>2. PICK n : n = report[m].next
  OBVIOUS
<1>3. n \in Nat /\ n >= 1
  BY <1>1, <1>2, ReportNumbers
<1>4. PICK u : u = cmd[m].who
  OBVIOUS
<1>5. PICK M, G : M = members_of(report[m], x) /\ G = grants_of(report[m], x)
  OBVIOUS
<1>6. M \in SUBSET report[m].members /\ G \in SUBSET report[m].grants
  BY <1>5 DEF members_of, grants_of
<1>7. IsFiniteSet(M) /\ IsFiniteSet(G)
  BY <1>1, <1>6, ReportFinite, FS_Subset
<1>8. PICK ms, gs : ms = SetToSeq(M) /\ gs = SetToSeq(G)
  OBVIOUS
<1>9. /\ DOMAIN ms = 1 .. Cardinality(M) /\ Cardinality(M) \in Nat
      /\ \A i \in DOMAIN ms : ms[i] \in M
      /\ \A y \in M : \E i \in DOMAIN ms : ms[i] = y
      /\ Len(ms) \in Nat
  BY <1>7, <1>8, SetToSeqFacts
<1>10. /\ DOMAIN gs = 1 .. Cardinality(G) /\ Cardinality(G) \in Nat
       /\ \A i \in DOMAIN gs : gs[i] \in G
       /\ \A y \in G : \E i \in DOMAIN gs : gs[i] = y
  BY <1>7, <1>8, SetToSeqFacts
<1> DEFINE f == [i \in DOMAIN ms |-> Record("member", ms[i], FALSE, NoData, n + i, u)]
           h == [i \in DOMAIN gs |->
                    Record("grant", Id(gs[i]), FALSE,
                           [NoData EXCEPT !.permission = gs[i].data.permission],
                           n + Len(ms) + i, u)]
           A == {f[i] : i \in DOMAIN ms}
           B == {h[i] : i \in DOMAIN gs}
<1>11. Cascade(m, x) = A \cup B
  BY <1>2, <1>4, <1>5, <1>8 DEF Cascade
<1>12. ASSUME NEW i \in DOMAIN ms
       PROVE  /\ f[i].key = <<"member", ms[i]>> /\ f[i].live = FALSE
              /\ f[i].counter = n + i /\ f[i].by = KeyOf[u]
  BY DEF Record
<1>13. ASSUME NEW i \in DOMAIN gs
       PROVE  /\ h[i].key = <<"grant", Id(gs[i])>> /\ h[i].live = FALSE
              /\ h[i].counter = n + Len(ms) + i /\ h[i].by = KeyOf[u]
  BY DEF Record
<1>14. f = [i \in DOMAIN ms |-> f[i]] /\ h = [i \in DOMAIN gs |-> h[i]]
  OBVIOUS
<1> HIDE DEF f, h
<1>15. KeyOf[u] \in SigningKeys
  BY <1>1, <1>4 DEF SigningKeys
<1>16. ASSUME NEW i \in DOMAIN ms
       PROVE  Made(m, f[i]) /\ ~ f[i].live /\ f[i].counter > n
  <2>1. <<"member", ms[i]>> \in RecordKeys
    BY <1>1, <1>6, <1>9, ShownNotRolled
  <2>2. n + i \in Nat /\ n + i >= 1 /\ n + i > n
    BY <1>3, <1>9
  <2>3. PICK r : r = f[i]
    OBVIOUS
  <2>4. /\ r.key = <<"member", ms[i]>> /\ r.live = FALSE
        /\ r.counter = n + i /\ r.by = KeyOf[u]
    BY <1>12, <2>3
  <2>5. Made(m, r) /\ ~ r.live /\ r.counter > n
    BY <1>15, <2>1, <2>2, <2>4 DEF Made, Kind
  <2> QED
    BY <2>3, <2>5
<1>17. ASSUME NEW i \in DOMAIN gs
       PROVE  /\ Made(m, h[i]) /\ ~ h[i].live /\ h[i].counter > n
              /\ h[i].key = gs[i].key
  <2>1. gs[i] \in verified_records(vault[m]) /\ Kind(gs[i]) = "grant" /\ Wellformed(vault[m])
    BY <1>1, <1>6, <1>10, ShownNotRolled DEF Reported
  <2>2. gs[i].key \in RecordKeys
    BY <2>1, VerifiedOrigin
  <2>3. gs[i].key = <<"grant", Id(gs[i])>>
    BY <2>1, <2>2, KeyShapes DEF Kind, Id
  <2>4. n + Len(ms) + i \in Nat /\ n + Len(ms) + i >= 1 /\ n + Len(ms) + i > n
    BY <1>3, <1>9, <1>10
  <2>5. PICK r : r = h[i]
    OBVIOUS
  <2>6. /\ r.key = gs[i].key /\ r.key = <<"grant", Id(gs[i])>> /\ r.live = FALSE
        /\ r.counter = n + Len(ms) + i /\ r.by = KeyOf[u]
    BY <1>13, <2>3, <2>5
  <2>7. Made(m, r) /\ ~ r.live /\ r.counter > n
    BY <1>15, <2>2, <2>4, <2>6 DEF Made, Kind
  <2> QED
    BY <2>5, <2>6, <2>7
<1>18. IsFiniteSet(DOMAIN ms) /\ IsFiniteSet(DOMAIN gs)
  BY <1>9, <1>10, FS_Interval
<1>19. IsFiniteSet(A) /\ IsFiniteSet(B)
  <2>1. \A y \in A : \E i \in DOMAIN ms : y = f[i]
    OBVIOUS
  <2>2. \A y \in B : \E i \in DOMAIN gs : y = h[i]
    OBVIOUS
  <2> HIDE DEF A, B
  <2> QED
    BY <1>14, <1>18, <2>1, <2>2, FiniteRange
<1>20. \A r \in A \cup B : Made(m, r) /\ ~ r.live
  BY <1>16, <1>17
<1>21. ASSUME NEW id \in M
       PROVE  \E r \in A \cup B : /\ r.key = <<"member", id>> /\ ~ r.live
                                  /\ r.by = KeyOf[u] /\ r.counter > n
  <2>1. PICK i \in DOMAIN ms : ms[i] = id
    BY <1>9
  <2>2. f[i] \in A
    OBVIOUS
  <2> HIDE DEF A, B
  <2> QED
    BY <1>12, <1>16, <2>1, <2>2
<1>22. ASSUME NEW y \in G
       PROVE  \E r \in A \cup B : /\ r.key = y.key /\ ~ r.live
                                  /\ r.by = KeyOf[u] /\ r.counter > n
  <2>1. PICK i \in DOMAIN gs : gs[i] = y
    BY <1>10
  <2>2. h[i] \in B
    OBVIOUS
  <2> HIDE DEF A, B
  <2> QED
    BY <1>13, <1>17, <2>1, <2>2
<1> HIDE DEF A, B
<1>23. IsFiniteSet(A \cup B)
  BY <1>19, FS_Union
<1>24. Cascaded(report[m], x, cmd[m].who, A \cup B)
  BY <1>2, <1>4, <1>5, <1>21, <1>22 DEF Cascaded
<1> QED
  BY <1>11, <1>20, <1>23, <1>24

LEMMA SetStep ==
    ASSUME CommandsInv, NEW m \in Machines, NEW p, Phase(m, p), p # "idle",
           NEW new, NEW main, IsFiniteSet(new),
           \A r \in new : Made(m, r) /\ ~ (Kind(r) = "grant" /\ r.live),
           cmd[m].cmd.op = "user_delete" =>
               Cascaded(report[m], cmd[m].cmd.on, cmd[m].who, new),
           \/ Fail(m, cmd[m].report, cmd[m].memory) \/ Fail(m, report[m], ratchet[m])
           \/ Mintable(new) /\ Locked(m, new, main, "done")
    PROVE  LocalStep(m)
<1>1. CASE Fail(m, cmd[m].report, cmd[m].memory) \/ Fail(m, report[m], ratchet[m])
  BY <1>1, FailsStep
<1>2. CASE Mintable(new) /\ Locked(m, new, main, "done")
  <2>1. Appendable(new, vault)
    BY <1>2, SetAppendable
  <2> QED
    BY <1>2, <2>1, LockedStep
<1> QED
  BY <1>1, <1>2

\* The tombstone of a principal, with what hangs off it.
LEMMA TombstoneMade ==
    ASSUME CommandsInv, NEW m \in Machines, NEW p, Phase(m, p), p # "idle",
           NEW kind, NEW x, <<kind, <<x>>>> \in RecordKeys, kind # "entry",
           NEW t, t = Tombstone(m, kind, x)
    PROVE  Made(m, t) /\ ~ t.live
<1>1. Reported(vault[m], ratchet[m], report[m]) /\ cmd[m].who \in Users
  BY DEF CommandsInv, SessionOK, Phase
<1>2. report[m].next \in Nat /\ report[m].next >= 1
  BY <1>1, ReportNumbers
<1>3. KeyOf[cmd[m].who] \in SigningKeys
  BY <1>1 DEF SigningKeys
<1>4. /\ t.key = <<kind, <<x>>>> /\ t.live = FALSE /\ t.by = KeyOf[cmd[m].who]
      /\ t.counter = report[m].next
  BY DEF Tombstone, Record
<1> QED
  BY <1>2, <1>3, <1>4 DEF Made, Kind

LEMMA TombstoneCascade ==
    ASSUME CommandsInv, NEW m \in Machines, NEW p, Phase(m, p), p # "idle",
           NEW x, NEW t, Made(m, t), ~ t.live, NEW new, new = {t} \cup Cascade(m, x)
    PROVE  /\ IsFiniteSet(new)
           /\ \A r \in new : Made(m, r) /\ ~ (Kind(r) = "grant" /\ r.live)
           /\ Cascaded(report[m], x, cmd[m].who, new)
<1>1. /\ IsFiniteSet(Cascade(m, x))
      /\ \A r \in Cascade(m, x) : Made(m, r) /\ ~ r.live
      /\ Cascaded(report[m], x, cmd[m].who, Cascade(m, x))
  BY CascadeFacts
<1>2. IsFiniteSet({t})
  BY FS_Singleton
<1>3. IsFiniteSet(new)
  BY <1>1, <1>2, FS_Union
<1>4. \A r \in new : Made(m, r) /\ ~ r.live
  BY <1>1
<1>5. Cascaded(report[m], x, cmd[m].who, new)
  BY <1>1 DEF Cascaded
<1> QED
  BY <1>3, <1>4, <1>5

LEMMA GroupDeleteStep ==
    ASSUME CommandsInv, NEW m \in Machines, cmd_group_delete(m)
    PROVE  LocalStep(m)
<1>1. PICK id : id = cmd[m].cmd.on
  OBVIOUS
<1>2. PICK t : t = Tombstone(m, "group", id)
  OBVIOUS
<1>3. PICK new : new = {t} \cup Cascade(m, id)
  OBVIOUS
<1>4. Running(m, "group_delete") /\ delete_group(m)
  BY DEF cmd_group_delete
<1>5. \/ Fail(m, cmd[m].report, cmd[m].memory) \/ Fail(m, report[m], ratchet[m])
      \/ id \in report[m].groups /\ Mintable(new) /\ Locked(m, new, t, "done")
  BY <1>1, <1>2, <1>3, <1>4 DEF delete_group, Prepare, Locked
<1>6. Phase(m, "run") /\ cmd[m].cmd.op = "group_delete"
  BY <1>4 DEF Running
<1>7. CASE Fail(m, cmd[m].report, cmd[m].memory) \/ Fail(m, report[m], ratchet[m])
  BY <1>6, <1>7, FailsStep
<1>8. CASE id \in report[m].groups /\ Mintable(new) /\ Locked(m, new, t, "done")
  <2>1. Reported(vault[m], ratchet[m], report[m])
    BY DEF CommandsInv
  <2>2. id \in Groups
    BY <1>8, <2>1, ShownNotRolled
  <2>3. <<"group", <<id>>>> \in RecordKeys
    BY <2>2 DEF RecordKeys
  <2>4. Made(m, t) /\ ~ t.live
    BY <1>2, <1>6, <2>3, TombstoneMade
  <2>5. /\ IsFiniteSet(new)
        /\ \A r \in new : Made(m, r) /\ ~ (Kind(r) = "grant" /\ r.live)
    BY <1>3, <1>6, <2>4, TombstoneCascade
  <2> QED
    BY <1>6, <1>8, <2>5, SetStep
<1> QED
  BY <1>5, <1>7, <1>8

LEMMA UserDeleteStep ==
    ASSUME CommandsInv, NEW m \in Machines, cmd_user_delete(m)
    PROVE  LocalStep(m)
<1>1. PICK id : id = cmd[m].cmd.on
  OBVIOUS
<1>2. PICK t : t = Tombstone(m, "user", id)
  OBVIOUS
<1>3. PICK new : new = {t} \cup Cascade(m, id)
  OBVIOUS
<1>4. Running(m, "user_delete") /\ delete_user(m)
  BY DEF cmd_user_delete
<1>5. \/ Fail(m, cmd[m].report, cmd[m].memory) \/ Fail(m, report[m], ratchet[m])
      \/ id \in report[m].users /\ Mintable(new) /\ Locked(m, new, t, "done")
  BY <1>1, <1>2, <1>3, <1>4 DEF delete_user, Prepare, Locked
<1>6. Phase(m, "run") /\ cmd[m].cmd.op = "user_delete"
  BY <1>4 DEF Running
<1>7. CASE Fail(m, cmd[m].report, cmd[m].memory) \/ Fail(m, report[m], ratchet[m])
  BY <1>6, <1>7, FailsStep
<1>8. CASE id \in report[m].users /\ Mintable(new) /\ Locked(m, new, t, "done")
  <2>1. Reported(vault[m], ratchet[m], report[m])
    BY DEF CommandsInv
  <2>2. id \in Users
    BY <1>8, <2>1, ShownNotRolled
  <2>3. <<"user", <<id>>>> \in RecordKeys
    BY <2>2 DEF RecordKeys
  <2>4. Made(m, t) /\ ~ t.live
    BY <1>2, <1>6, <2>3, TombstoneMade
  <2>5. /\ IsFiniteSet(new)
        /\ \A r \in new : Made(m, r) /\ ~ (Kind(r) = "grant" /\ r.live)
        /\ Cascaded(report[m], id, cmd[m].who, new)
    BY <1>3, <1>6, <2>4, TombstoneCascade
  <2> QED
    BY <1>1, <1>6, <1>8, <2>5, SetStep
<1> QED
  BY <1>5, <1>7, <1>8

LEMMA UserAddStep ==
    ASSUME CommandsInv, NEW m \in Machines, add_user(m)
    PROVE  LocalStep(m)
<1>1. PICK on, n : on = cmd[m].cmd.on /\ n = report[m].next
  OBVIOUS
<1>2. PICK user : user = Record("user", <<on>>, TRUE, NoData, n, cmd[m].who)
  OBVIOUS
<1>3. PICK entry : entry = Record("entry", <<on>>, TRUE, NoData, n, on)
  OBVIOUS
<1>4. Running(m, "user_add")
  BY DEF add_user
<1>5. \/ Fail(m, cmd[m].report, cmd[m].memory) \/ Fail(m, report[m], ratchet[m])
      \/ Mintable({user, entry}) /\ Locked(m, {user, entry}, user, "done")
  BY <1>1, <1>2, <1>3 DEF add_user, Prepare, Locked
<1>6. Phase(m, "run") /\ cmd[m].cmd.op = "user_add"
  BY <1>4 DEF Running
<1>7. on \in Users /\ cmd[m].who \in Users
  BY <1>1, <1>6 DEF CommandsInv, SessionOK, Typed, Phase
<1>8. n \in Nat /\ n >= 1
  BY <1>1, ReportNumbers DEF CommandsInv
<1>9. <<"user", <<on>>>> \in RecordKeys /\ <<"entry", <<on>>>> \in RecordKeys
  BY <1>7 DEF RecordKeys
<1>10. KeyOf[on] \in SigningKeys /\ KeyOf[cmd[m].who] \in SigningKeys
  BY <1>7 DEF SigningKeys
<1>11. user.key = <<"user", <<on>>>> /\ user.counter = n /\ user.by = KeyOf[cmd[m].who]
  BY <1>2 DEF Record
<1>12. entry.key = <<"entry", <<on>>>> /\ entry.counter = n /\ entry.by = KeyOf[on]
  BY <1>3 DEF Record
<1>13. Made(m, user) /\ Kind(user) # "grant"
  BY <1>8, <1>9, <1>10, <1>11 DEF Made, Kind
<1>14. Made(m, entry) /\ Kind(entry) # "grant"
  BY <1>8, <1>9, <1>10, <1>12 DEF Made, Kind, About
<1>15. IsFiniteSet({user, entry})
  <2>1. IsFiniteSet({user}) /\ IsFiniteSet({entry}) /\ {user, entry} = {user} \cup {entry}
    BY FS_Singleton
  <2> QED
    BY <2>1, FS_Union
<1>16. PICK new : new = {user, entry}
  OBVIOUS
<1>17. \A r \in new : Made(m, r) /\ ~ (Kind(r) = "grant" /\ r.live)
  BY <1>13, <1>14, <1>16
<1> QED
  BY <1>5, <1>6, <1>15, <1>16, <1>17, SetStep

(* ------------------------------- secrets ------------------------------- *)

\* What a command that writes one secret does.
WritesSecret(m, x, next) ==
    \/ Fail(m, cmd[m].report, cmd[m].memory) \/ Fail(m, report[m], ratchet[m])
    \/ \E r : /\ r.key = <<"secret", <<x>>>> /\ r.by = KeyOf[cmd[m].who]
              /\ r.counter = Larger(report[m].next, report[m].floor)
              /\ Mintable({r}) /\ Locked(m, {r}, r, next)

LEMMA WritesSecretStep ==
    ASSUME CommandsInv, NEW m \in Machines, NEW p, Phase(m, p), p # "idle",
           NEW x \in Secrets, NEW next \in {"done", "vacate"}, WritesSecret(m, x, next),
           next = "vacate" => cmd[m].cmd.on \in Secrets,
           cmd[m].cmd.op # "user_delete"
    PROVE  LocalStep(m)
<1>1. CASE Fail(m, cmd[m].report, cmd[m].memory) \/ Fail(m, report[m], ratchet[m])
  BY <1>1, FailsStep
<1>2. CASE \E r : /\ r.key = <<"secret", <<x>>>> /\ r.by = KeyOf[cmd[m].who]
                  /\ r.counter = Larger(report[m].next, report[m].floor)
                  /\ Mintable({r}) /\ Locked(m, {r}, r, next)
  <2>1. PICK r : /\ r.key = <<"secret", <<x>>>> /\ r.by = KeyOf[cmd[m].who]
                 /\ r.counter = Larger(report[m].next, report[m].floor)
                 /\ Mintable({r}) /\ Locked(m, {r}, r, next)
    BY <1>2
  <2>2. <<"secret", <<x>>>> \in RecordKeys
    BY DEF RecordKeys
  <2>3. Made(m, r)
    BY <2>1, <2>2, CommitRecordMade
  <2>4. Kind(r) = "secret"
    BY <2>1 DEF Kind
  <2> QED
    BY <2>1, <2>3, <2>4, OneStep
<1> QED
  BY <1>1, <1>2 DEF WritesSecret

\* set_secret_value and delete_secret, given that their outcome is one of
\* these (the permission they ask for is the caller's).
LEMMA SetSecretWrites ==
    ASSUME NEW m, NEW x, NEW content, NEW next,
           \/ Fail(m, cmd[m].report, cmd[m].memory) \/ Fail(m, report[m], ratchet[m])
           \/ LET r == commit_record(m, "secret", <<x>>, TRUE, seal_secret_payload(m, x, content))
              IN  Mintable({r}) /\ Locked(m, {r}, r, next)
    PROVE  WritesSecret(m, x, next)
<1>1. PICK r : r = commit_record(m, "secret", <<x>>, TRUE, seal_secret_payload(m, x, content))
  OBVIOUS
<1>2. /\ r.key = <<"secret", <<x>>>> /\ r.by = KeyOf[cmd[m].who]
      /\ r.counter = Larger(report[m].next, report[m].floor)
  BY <1>1 DEF commit_record, Record
<1>3. \/ Fail(m, cmd[m].report, cmd[m].memory) \/ Fail(m, report[m], ratchet[m])
      \/ Mintable({r}) /\ Locked(m, {r}, r, next)
  BY <1>1, Zenon
<1> QED
  BY <1>2, <1>3, Zenon DEF WritesSecret

LEMMA DeleteSecretWrites ==
    ASSUME NEW m, NEW x, NEW next,
           \/ Fail(m, cmd[m].report, cmd[m].memory) \/ Fail(m, report[m], ratchet[m])
           \/ LET r == commit_record(m, "secret", <<x>>, FALSE, NoData)
              IN  Mintable({r}) /\ Locked(m, {r}, r, next)
    PROVE  WritesSecret(m, x, next)
<1>1. PICK r : r = commit_record(m, "secret", <<x>>, FALSE, NoData)
  OBVIOUS
<1>2. /\ r.key = <<"secret", <<x>>>> /\ r.by = KeyOf[cmd[m].who]
      /\ r.counter = Larger(report[m].next, report[m].floor)
  BY <1>1 DEF commit_record, Record
<1>3. \/ Fail(m, cmd[m].report, cmd[m].memory) \/ Fail(m, report[m], ratchet[m])
      \/ Mintable({r}) /\ Locked(m, {r}, r, next)
  BY <1>1, Zenon
<1> QED
  BY <1>2, <1>3, Zenon DEF WritesSecret

\* A running command on a secret.
LEMMA RunningSecret ==
    ASSUME CommandsInv, NEW m \in Machines,
           NEW op \in {"set", "delete", "move", "field_set", "field_delete"},
           Running(m, op) \/ Calling(m, op)
    PROVE  /\ Phase(m, "run") /\ cmd[m].cmd.op # "user_delete"
           /\ cmd[m].cmd.on \in Secrets /\ (op = "move" => cmd[m].cmd.arg \in Secrets)
<1>1. Phase(m, "run") /\ cmd[m].cmd.op = op
  BY DEF Running, Calling
<1> QED
  BY <1>1 DEF CommandsInv, SessionOK, Typed, Phase

LEMMA SecretWriteStep ==
    ASSUME CommandsInv, NEW m \in Machines, cmd_secret_write(m) \/ Vault_set(m)
    PROVE  LocalStep(m)
<1>1. Running(m, "set") \/ Calling(m, "set")
  BY DEF cmd_secret_write, Vault_set
<1>2. /\ Phase(m, "run") /\ cmd[m].cmd.op # "user_delete"
      /\ cmd[m].cmd.on \in Secrets
  BY <1>1, RunningSecret
<1>3. PICK x : x = cmd[m].cmd.on
  OBVIOUS
<1>4. WritesSecret(m, x, "done")
  <2>1. CASE cmd_secret_write(m)
    <3>1. PICK kept : kept = IF ensure_secret_decryptable(cmd[m].report, cmd[m].who, x)
                             THEN decrypt_secret_from_report(cmd[m].report, x).fields ELSE NoFields
      OBVIOUS
    <3>2. PICK content : content = [primary |-> cmd[m].cmd.arg, fields |-> kept]
      OBVIOUS
    <3>3. set_secret_value(m, ensure_secret_writable(cmd[m].report, cmd[m].who, x),
                           x, content, "done")
      BY <1>3, <2>1, <3>1, <3>2, Zenon DEF cmd_secret_write
    <3>4. \/ Fail(m, cmd[m].report, cmd[m].memory) \/ Fail(m, report[m], ratchet[m])
          \/ LET r == commit_record(m, "secret", <<x>>, TRUE, seal_secret_payload(m, x, content))
             IN  Mintable({r}) /\ Locked(m, {r}, r, "done")
      BY <3>3 DEF set_secret_value, PrepareOne, Prepare, Locked
    <3> QED
      BY <3>4, SetSecretWrites
  <2>2. CASE Vault_set(m)
    <3>1. PICK content : content = [primary |-> cmd[m].cmd.arg, fields |-> NoFields]
      OBVIOUS
    <3>2. \/ Fail(m, cmd[m].report, cmd[m].memory) \/ Fail(m, report[m], ratchet[m])
          \/ LET r == commit_record(m, "secret", <<x>>, TRUE, seal_secret_payload(m, x, content))
             IN  Mintable({r}) /\ Locked(m, {r}, r, "done")
      BY <1>3, <2>2, <3>1 DEF Vault_set, set_secret_value, PrepareOne, Prepare, Locked
    <3> QED
      BY <3>2, SetSecretWrites
  <2> QED
    BY <2>1, <2>2
<1> QED
  BY <1>2, <1>3, <1>4, WritesSecretStep

LEMMA SetFieldStep ==
    ASSUME CommandsInv, NEW m \in Machines, cmd_field_set(m) \/ Vault_set_field(m)
    PROVE  LocalStep(m)
<1>1. (Running(m, "field_set") \/ Calling(m, "field_set")) /\ set_field(m)
  BY DEF cmd_field_set, Vault_set_field
<1>2. /\ Phase(m, "run") /\ cmd[m].cmd.op # "user_delete"
      /\ cmd[m].cmd.on \in Secrets
  BY <1>1, RunningSecret
<1>3. PICK x : x = cmd[m].cmd.on
  OBVIOUS
<1>4. PICK content : content = with_field(decrypt_secret_from_report(cmd[m].report, x),
                                          cmd[m].cmd.arg[1], cmd[m].cmd.arg[2])
  OBVIOUS
<1>5. \/ Fail(m, cmd[m].report, cmd[m].memory) \/ Fail(m, report[m], ratchet[m])
      \/ LET r == commit_record(m, "secret", <<x>>, TRUE, seal_secret_payload(m, x, content))
         IN  Mintable({r}) /\ Locked(m, {r}, r, "done")
  BY <1>1, <1>3, <1>4 DEF set_field, set_secret_value, PrepareOne, Prepare, Locked
<1>6. WritesSecret(m, x, "done")
  BY <1>5, SetSecretWrites
<1> QED
  BY <1>2, <1>3, <1>6, WritesSecretStep

LEMMA DeleteFieldStep ==
    ASSUME CommandsInv, NEW m \in Machines, cmd_field_delete(m) \/ Vault_delete_field(m)
    PROVE  LocalStep(m)
<1>1. (Running(m, "field_delete") \/ Calling(m, "field_delete")) /\ delete_field(m)
  BY DEF cmd_field_delete, Vault_delete_field
<1>2. /\ Phase(m, "run") /\ cmd[m].cmd.op # "user_delete"
      /\ cmd[m].cmd.on \in Secrets
  BY <1>1, RunningSecret
<1>3. PICK x : x = cmd[m].cmd.on
  OBVIOUS
<1>4. PICK content : content = with_field(decrypt_secret_from_report(cmd[m].report, x),
                                          cmd[m].cmd.arg, None)
  OBVIOUS
<1>5. \/ Fail(m, cmd[m].report, cmd[m].memory) \/ Fail(m, report[m], ratchet[m])
      \/ LET r == commit_record(m, "secret", <<x>>, TRUE, seal_secret_payload(m, x, content))
         IN  Mintable({r}) /\ Locked(m, {r}, r, "done")
  BY <1>1, <1>3, <1>4 DEF delete_field, set_secret_value, PrepareOne, Prepare, Locked
<1>6. WritesSecret(m, x, "done")
  BY <1>5, SetSecretWrites
<1> QED
  BY <1>2, <1>3, <1>6, WritesSecretStep

LEMMA SecretDeleteStep ==
    ASSUME CommandsInv, NEW m \in Machines, cmd_secret_delete(m) \/ Vault_delete(m)
    PROVE  LocalStep(m)
<1>1. Running(m, "delete") \/ Calling(m, "delete")
  BY DEF cmd_secret_delete, Vault_delete
<1>2. /\ Phase(m, "run") /\ cmd[m].cmd.op # "user_delete"
      /\ cmd[m].cmd.on \in Secrets
  BY <1>1, RunningSecret
<1>3. PICK x : x = cmd[m].cmd.on
  OBVIOUS
<1>4. \/ Fail(m, cmd[m].report, cmd[m].memory) \/ Fail(m, report[m], ratchet[m])
      \/ LET r == commit_record(m, "secret", <<x>>, FALSE, NoData)
         IN  Mintable({r}) /\ Locked(m, {r}, r, "done")
  BY <1>3 DEF cmd_secret_delete, Vault_delete, delete_secret, PrepareOne, Prepare, Locked
<1>5. WritesSecret(m, x, "done")
  BY <1>4, DeleteSecretWrites
<1> QED
  BY <1>2, <1>3, <1>5, WritesSecretStep

LEMMA SecretMoveStep ==
    ASSUME CommandsInv, NEW m \in Machines, cmd_secret_move(m) \/ Vault_move_secret(m)
    PROVE  LocalStep(m)
<1>1. Running(m, "move") \/ Calling(m, "move")
  BY DEF cmd_secret_move, Vault_move_secret
<1>2. /\ Phase(m, "run") /\ cmd[m].cmd.op # "user_delete"
      /\ cmd[m].cmd.on \in Secrets /\ cmd[m].cmd.arg \in Secrets
  BY <1>1, RunningSecret
<1>3. PICK x, next : /\ x = cmd[m].cmd.arg
                     /\ next = IF cmd[m].cmd.on = cmd[m].cmd.arg THEN "done" ELSE "vacate"
  OBVIOUS
<1>4. PICK content : content = decrypt_secret_from_report(cmd[m].report, cmd[m].cmd.on)
  OBVIOUS
<1>5. \/ Fail(m, cmd[m].report, cmd[m].memory) \/ Fail(m, report[m], ratchet[m])
      \/ LET r == commit_record(m, "secret", <<x>>, TRUE, seal_secret_payload(m, x, content))
         IN  Mintable({r}) /\ Locked(m, {r}, r, next)
  BY <1>3, <1>4 DEF cmd_secret_move, Vault_move_secret, relabel_secret, set_secret_value,
                    PrepareOne, Prepare, Locked
<1>6. WritesSecret(m, x, next)
  BY <1>5, SetSecretWrites
<1>7. next \in {"done", "vacate"}
  BY <1>3
<1> QED
  BY <1>2, <1>3, <1>6, <1>7, WritesSecretStep

LEMMA VacateStep ==
    ASSUME CommandsInv, NEW m \in Machines, relabel_secret_vacate(m)
    PROVE  LocalStep(m)
<1>1. Phase(m, "vacate")
  BY DEF relabel_secret_vacate
<1>2. cmd[m].cmd.on \in Secrets /\ cmd[m].cmd.op # "user_delete"
  BY <1>1 DEF CommandsInv, SessionOK, Phase
<1>3. PICK x : x = cmd[m].cmd.on
  OBVIOUS
<1>4. \/ Fail(m, cmd[m].report, cmd[m].memory) \/ Fail(m, report[m], ratchet[m])
      \/ LET r == commit_record(m, "secret", <<x>>, FALSE, NoData)
         IN  Mintable({r}) /\ Locked(m, {r}, r, "done")
  BY <1>3 DEF relabel_secret_vacate, delete_secret, PrepareOne, Prepare, Locked
<1>5. WritesSecret(m, x, "done")
  BY <1>4, DeleteSecretWrites
<1> QED
  BY <1>1, <1>2, <1>3, <1>5, WritesSecretStep

\* The user is remembered, or not.
LEMMA RememberType ==
    ASSUME CommandsInv, NEW m \in Machines, NEW s, s.who \in Users,
           remember_user_if_explicit(m, s)
    PROVE  default' \in [Machines -> Users \cup {None}]
BY DEF CommandsInv, remember_user_if_explicit

LEMMA ConvergeStep ==
    ASSUME CommandsInv, NEW m \in Machines, converge_readers(m)
    PROVE  LocalStep(m)
<1> DEFINE opened == {x \in missing_reader_candidates(cmd[m].report) :
                         \E r \in secret_record(cmd[m].report, x) :
                             cmd[m].who \in r.data.value.slots}
           seal(x) == Record("secret", <<x>>, TRUE,
                             seal_secret_payload(m, x, decrypt_secret_from_report(cmd[m].report, x)),
                             report[m].next, cmd[m].who)
           f       == [x \in opened |-> seal(x)]
           new     == {seal(x) : x \in opened}
<1>1. Phase(m, "converge")
  BY DEF converge_readers
<1>2. /\ cmd[m].phase = "converge" /\ cmd[m].who \in Users
      /\ cmd[m].memory \in [RecordKeys -> 0 .. MaxCounter]
      /\ Remembers(cmd[m].report, cmd[m].memory) /\ cmd[m].cmd.op # "user_delete"
      /\ \A n \in Machines : cmd[n].phase # "commit"
  BY <1>1 DEF CommandsInv, SessionOK, Held, Phase
<1>3. CASE opened = {}
  <2>1. /\ cmd' = [cmd EXCEPT ![m] = Return(m, cmd[m].report, cmd[m].memory)]
        /\ remember_user_if_explicit(m, cmd[m])
        /\ UNCHANGED <<vault, ratchet, report, issues, commits, released, lost>>
    BY <1>3 DEF converge_readers
  <2>2. /\ cmd'[m] = Return(m, cmd[m].report, cmd[m].memory) /\ DOMAIN cmd' = Machines
        /\ \A n \in Machines \ {m} : cmd'[n] = cmd[n]
    BY <2>1 DEF CommandsInv
  <2>3. /\ SessionOK(Return(m, cmd[m].report, cmd[m].memory), ratchet[m])
        /\ Return(m, cmd[m].report, cmd[m].memory).phase # "commit"
    BY <1>2, ReturnOK
  <2>4. default' \in [Machines -> Users \cup {None}]
    BY <1>2, <2>1, RememberType
  <2> QED
    BY <1>2, <2>1, <2>2, <2>3, <2>4 DEF LocalStep, CommandsInv, CommitOK
<1>4. CASE opened # {}
  <2>1. \/ Fail(m, cmd[m].report, cmd[m].memory) \/ Fail(m, report[m], ratchet[m])
        \/ Mintable(new) /\ Locked(m, new, None, "done")
    <3>1. Prepare(m, TRUE, new, None, "done")
      BY <1>4, Zenon DEF converge_readers
    <3> HIDE DEF new
    <3> QED
      BY <3>1 DEF Prepare, Locked
  <2>2. PICK V, u : Reported(V, u, cmd[m].report)
    BY <1>2 DEF Remembers
  <2>3. cmd[m].report.secrets \in SUBSET verified_records(V) /\ Wellformed(V)
    BY <2>2, ShownNotRolled DEF Reported
  <2>4. IsFiniteSet(cmd[m].report.secrets)
    BY <2>3, VerifiedTyped, FS_Subset DEF Verified
  <2>5. opened \subseteq Secrets
    BY DEF missing_reader_candidates
  <2>6. IsFiniteSet(opened)
    <3> DEFINE a == [r \in cmd[m].report.secrets |-> About(r)]
    <3>1. a = [r \in cmd[m].report.secrets |-> a[r]]
      OBVIOUS
    <3>2. \A x \in opened : \E r \in cmd[m].report.secrets : x = a[r]
      BY DEF secret_record, live_secret_winner
    <3> HIDE DEF opened, a
    <3> QED
      BY <2>4, <3>1, <3>2, FiniteRange
  <2>7. f = [x \in opened |-> f[x]] /\ \A y \in new : \E x \in opened : y = f[x]
    OBVIOUS
  <2>8. IsFiniteSet(new)
    <3> HIDE DEF new, f, opened
    <3> QED
      BY <2>6, <2>7, FiniteRange
  <2>9. report[m].next \in Nat /\ report[m].next >= 1
    BY ReportNumbers DEF CommandsInv
  <2>10. KeyOf[cmd[m].who] \in SigningKeys
    BY <1>2 DEF SigningKeys
  <2>11. ASSUME NEW x \in opened
         PROVE  Made(m, seal(x)) /\ ~ (Kind(seal(x)) = "grant" /\ seal(x).live)
    <3>1. PICK r : r = seal(x)
      OBVIOUS
    <3>2. /\ r.key = <<"secret", <<x>>>> /\ r.by = KeyOf[cmd[m].who]
          /\ r.counter = report[m].next
      BY <3>1 DEF Record
    <3>3. <<"secret", <<x>>>> \in RecordKeys
      BY <2>5 DEF RecordKeys
    <3>4. Made(m, r) /\ Kind(r) # "grant"
      BY <2>9, <2>10, <3>2, <3>3 DEF Made, Kind
    <3> QED
      BY <3>1, <3>4
  <2>12. \A r \in new : Made(m, r) /\ ~ (Kind(r) = "grant" /\ r.live)
    <3> HIDE DEF seal, opened
    <3> QED
      BY <2>11
  <2> HIDE DEF new
  <2> QED
    BY <1>1, <1>2, <2>1, <2>8, <2>12, SetStep
<1> QED
  BY <1>3, <1>4

(* -------------------------- sessions and reads ------------------------- *)

\* References resolve to principals of the report.
LEMMA ReferencesTyped ==
    ASSUME NEW V, NEW t, NEW e, Reported(V, t, e), NEW ref
    PROVE  /\ resolve_user_ref(e, ref) \subseteq Users
           /\ resolve_group_ref(e, ref) \subseteq Groups
           /\ resolve_principal_ref(e, ref) \subseteq Principals
<1>1. e.users \subseteq Users /\ e.groups \subseteq Groups
  BY ShownNotRolled
<1>2. resolve_user_ref(e, ref) \subseteq e.users /\ resolve_group_ref(e, ref) \subseteq e.groups
  BY DEF resolve_user_ref, resolve_group_ref
<1> QED
  BY <1>1, <1>2 DEF resolve_principal_ref, Principals

\* A resolved command is the one issued, with its references resolved.
LEMMA ResolvedTyped ==
    ASSUME NEW V, NEW t, NEW e, Reported(V, t, e), NEW c, Issuable(c), NEW r \in Resolved(c, e)
    PROVE  /\ r.op = c.op
           /\ r.op = "user_add" => r.on \in Users
           /\ r.op = "handle_set" => r.on \in UserHandles
           /\ r.op = "name_set" => r.on \in VaultHandles
           /\ r.op \in {"set", "delete", "move", "field_set", "field_delete"} => r.on \in Secrets
           /\ r.op = "move" => r.arg \in Secrets
           /\ r.op = "group_add" => r.on \in Groups /\ r.arg \in Principals
           /\ r.op = "user_use" => r.on \in Users
<1>1. DOMAIN c = {"at", "as", "op", "on", "arg"}
  BY DEF Issuable
<1>2. CASE c.op = "grant"
  <2>r. r \in resolved_grant(c, e)
    BY <1>2, Zenon DEF Resolved
  <2>1. PICK p : r = [c EXCEPT !.on = p[1], !.arg = p[2]]
    BY <2>r, Zenon DEF resolved_grant
  <2>3. PICK a, b : a = p[1] /\ b = p[2]
    OBVIOUS
  <2>4. r = [c EXCEPT !.on = a, !.arg = b]
    BY <2>1, <2>3
  <2>2. r.op = c.op
    BY <1>1, <2>4
  <2> QED
    BY <1>2, <2>2
<1>3. CASE c.op = "user_delete" \/ c.op = "group_delete"
  <2>r. \/ r \in {[c EXCEPT !.on = u] : u \in resolve_user_ref(e, c.on)}
        \/ r \in {[c EXCEPT !.on = g] : g \in resolve_group_ref(e, c.on)}
    BY <1>3, Zenon DEF Resolved
  <2>1. PICK u : r = [c EXCEPT !.on = u]
    BY <2>r
  <2>2. r.op = c.op
    BY <1>1, <2>1
  <2> QED
    BY <1>3, <2>2
<1>4. CASE c.op \in {"group_add", "group_remove"}
  <2>r. r \in resolved_member(c, e)
    BY <1>4, Zenon DEF Resolved
  <2>1. PICK p \in resolve_group_ref(e, c.on) \X resolve_principal_ref(e, c.arg) :
            r = [c EXCEPT !.on = p[1], !.arg = p[2]]
    BY <2>r, Zenon DEF resolved_member
  <2>3. PICK a, b : a = p[1] /\ b = p[2]
    OBVIOUS
  <2>4. r = [c EXCEPT !.on = a, !.arg = b]
    BY <2>1, <2>3
  <2>2. r.op = c.op /\ r.on = p[1] /\ r.arg = p[2]
    BY <1>1, <2>3, <2>4
  <2> QED
    BY <1>4, <2>2, ReferencesTyped
<1>5. CASE c.op = "grant_delete"
  <2>1. r = c
    BY <1>5 DEF Resolved
  <2> QED
    BY <1>5, <2>1
<1>6. CASE c.op = "handle_set"
  <2>1. PICK u : r = [c EXCEPT !.arg = u]
    BY <1>6 DEF Resolved
  <2>2. r.op = c.op /\ r.on = c.on
    BY <1>1, <2>1
  <2> QED
    BY <1>6, <2>2 DEF Issuable
<1>7. CASE c.op = "user_use"
  <2>1. PICK u \in resolve_user_ref(e, c.on) : r = [c EXCEPT !.on = u]
    BY <1>7 DEF Resolved
  <2>2. r.op = c.op /\ r.on = u
    BY <1>1, <2>1
  <2> QED
    BY <1>7, <2>2, ReferencesTyped
<1>8. CASE c.op \notin {"grant", "user_delete", "group_add", "group_remove", "group_delete",
                        "grant_delete", "handle_set", "user_use"}
  <2>1. r \in {c}
    BY <1>8, Zenon DEF Resolved
  <2> QED
    BY <1>8, <2>1 DEF Issuable
<1> QED
  BY <1>2, <1>3, <1>4, <1>5, <1>6, <1>7, <1>8

\* Whoever acts is a user.
LEMMA PromotedTyped ==
    ASSUME CommandsInv, NEW m \in Machines, NEW c, NEW u \in promote_for_action(m, c)
    PROVE  u \in Users
<1>1. u \in report[m].users
  BY Zenon DEF promote_for_action, promote, unlock, ensure_member
<1> QED
  BY <1>1, ShownNotRolled DEF CommandsInv

\* What a session remembers once it has loaded.
LEMMA RaisedRemembers ==
    ASSUME CommandsInv, NEW m \in Machines
    PROVE  /\ Raised(m) \in [RecordKeys -> 0 .. MaxCounter]
           /\ Remembers(report[m], Raised(m))
           /\ \A k \in RecordKeys : Raised(m)[k] >= ratchet[m][k]
<1>r. PICK raised : raised = apply_update(ratchet[m], report[m])
  OBVIOUS
<1>1. Reported(vault[m], ratchet[m], report[m])
  BY DEF CommandsInv
<1>2. \A k \in RecordKeys : k \notin report[m].rolled => raised[k] = Marks(vault[m])[k]
  BY <1>r, <1>1, AbsorbEven
<1>3. /\ Reported(vault[m], raised, report[m])
      /\ \A k \in RecordKeys : raised[k] >= ratchet[m][k]
  BY <1>r, <1>1, AbsorbReported
<1>4. \A k \in RecordKeys : k \in report[m].rolled \/ Marks(vault[m])[k] >= raised[k]
  <2>1. \A k \in RecordKeys : Marks(vault[m])[k] \in Nat
    BY <1>1, MarksFacts, CommandsAssumption DEF Reported
  <2> QED
    BY <1>2, <2>1
<1>5. raised \in [RecordKeys -> 0 .. MaxCounter]
  BY <1>3 DEF Reported
<1> QED
  BY <1>r, <1>1, <1>3, <1>4, <1>5 DEF Remembers, Raised

LEMMA SecretKey ==
    ASSUME NEW e, NEW t, Remembers(e, t), NEW r \in e.secrets
    PROVE  /\ r.key = <<"secret", <<About(r)>>>> /\ r.key \in RecordKeys
           /\ r.counter \in 1 .. MaxCounter
<1>1. PICK V, u : Reported(V, u, e)
  BY DEF Remembers
<1>2. Wellformed(V) /\ r \in verified_records(V) /\ Kind(r) = "secret"
  BY <1>1, ShownNotRolled DEF Reported
<1>3. r.key \in RecordKeys /\ r.counter \in 1 .. MaxCounter
  BY <1>2, VerifiedOrigin
<1> QED
  BY <1>2, <1>3, KeyShapes DEF Kind, About

\* What a session reads is no older than what its machine remembers.
LEMMA ReadAsNew ==
    ASSUME NEW e, NEW t \in [RecordKeys -> 0 .. MaxCounter], Remembers(e, t), Authoritative(e),
           NEW x, NEW n, ReadFrom(e, x, n)
    PROVE  n >= t[<<"secret", <<x>>>>]
<1>1. PICK V, u : /\ Reported(V, u, e)
                  /\ \A k \in RecordKeys : k \in e.rolled \/ Marks(V)[k] >= t[k]
  BY DEF Remembers
<1>2. PICK r \in e.secrets : r.key = <<"secret", <<x>>>> /\ r.counter = n
  BY DEF ReadFrom
<1>3. r.key \in RecordKeys /\ r.counter \in 1 .. MaxCounter
  BY SecretKey
<1>4. r.key \notin e.rolled
  BY <1>1, ShownNotRolled
<1>5. r.counter >= Marks(V)[r.key]
  BY <1>1, ShownNotBehind
<1>6. Marks(V)[r.key] \in 0 .. MaxCounter /\ t[r.key] \in 0 .. MaxCounter
  BY <1>1, <1>3, MarksFacts DEF Reported
<1>7. Marks(V)[r.key] >= t[r.key]
  BY <1>1, <1>3, <1>4
<1>8. r.counter >= t[r.key]
  BY <1>3, <1>5, <1>6, <1>7
<1> QED
  BY <1>2, <1>8

\* And what a command reads is remembered.
LEMMA ReadRemembered ==
    ASSUME CommandsInv, NEW m \in Machines, Authoritative(report[m]),
           NEW x, NEW n, ReadFrom(report[m], x, n)
    PROVE  Raised(m)[<<"secret", <<x>>>>] >= n
<1>1. PICK V, t, e, raised : /\ V = vault[m] /\ t = ratchet[m] /\ e = report[m]
                             /\ raised = apply_update(t, e)
  OBVIOUS
<1>2. Reported(V, t, e) /\ Authoritative(e) /\ ReadFrom(e, x, n)
  BY <1>1 DEF CommandsInv
<1>3. PICK r \in e.secrets : r.key = <<"secret", <<x>>>> /\ r.counter = n
  BY <1>2 DEF ReadFrom
<1>4. r.key \in RecordKeys /\ r.counter \in 1 .. MaxCounter
  BY <1>1, ReportRemembers, SecretKey
<1>5. r.counter <= Marks(V)[r.key]
  BY <1>2, ShownNotBehind
<1>6. Reported(V, raised, e) /\ \A k \in RecordKeys : raised[k] >= Marks(V)[k]
  BY <1>1, <1>2, AbsorbReported
<1>7. raised[r.key] \in 0 .. MaxCounter /\ Marks(V)[r.key] \in 0 .. MaxCounter
  BY <1>2, <1>4, <1>6, MarksFacts DEF Reported
<1>8. raised[r.key] >= r.counter
  BY <1>4, <1>5, <1>6, <1>7
<1>9. Raised(m) = raised
  BY <1>1 DEF Raised
<1> QED
  BY <1>3, <1>8, <1>9

\* What a session knows outlives what other processes of its machine remember.
LEMMA SessionMonotone ==
    ASSUME NEW s, NEW t \in [RecordKeys -> 0 .. MaxCounter], SessionOK(s, t),
           NEW u \in [RecordKeys -> 0 .. MaxCounter], \A k \in RecordKeys : u[k] >= t[k]
    PROVE  SessionOK(s, u)
<1>1. ASSUME s.phase = "read" PROVE InMemory(s, u)
  <2>1. Held(s) /\ InMemory(s, t)
    BY <1>1 DEF SessionOK
  <2>2. SUFFICES ASSUME s.stored, Authoritative(s.report), NEW x, NEW n, ReadFrom(s.report, x, n)
                 PROVE  u[<<"secret", <<x>>>>] >= n
    BY DEF InMemory
  <2>3. t[<<"secret", <<x>>>>] >= n
    BY <2>1, <2>2 DEF InMemory
  <2>4. PICK r \in s.report.secrets : r.key = <<"secret", <<x>>>> /\ r.counter = n
    BY <2>2 DEF ReadFrom
  <2>5. r.key \in RecordKeys /\ r.counter \in 1 .. MaxCounter
    BY <2>1, SecretKey DEF Held
  <2>6. t[r.key] \in 0 .. MaxCounter /\ u[r.key] \in 0 .. MaxCounter /\ u[r.key] >= t[r.key]
    BY <2>5
  <2> QED
    BY <2>3, <2>4, <2>5, <2>6
<1> QED
  BY <1>1 DEF SessionOK

\* The ratchet after a load.
LEMMA AbsorbStep ==
    ASSUME CommandsInv, NEW m \in Machines, NEW free \in BOOLEAN,
           absorb_clean_trust_raises(m, free)
    PROVE  /\ ratchet' = ratchet \/ ratchet' = [ratchet EXCEPT ![m] = Raised(m)]
           /\ free => ratchet'[m] = Raised(m)
BY DEF absorb_clean_trust_raises, CommandsInv

\* A machine that starts a session.
LEMMA OpenedStep ==
    ASSUME CommandsInv, NEW m \in Machines, Phase(m, "idle"), NEW free \in BOOLEAN,
           absorb_clean_trust_raises(m, free),
           UNCHANGED <<vault, report, default, issues, commits, released, lost>>,
           NEW phase \in {"run", "read", "sdk"}, NEW home, NEW c, NEW u \in Users,
           cmd' = [cmd EXCEPT ![m] = Session(m, phase, home, c, u, free)],
           phase = "run" => Typed([home |-> home, cmd |-> c]), phase = "sdk" => home # "idle"
    PROVE  LocalStep(m)
<1>1. PICK s : s = Session(m, phase, home, c, u, free)
  OBVIOUS
<1>2. /\ DOMAIN s = SessionFields /\ s.phase = phase /\ s.home = home /\ s.cmd = c /\ s.who = u
      /\ s.report = report[m] /\ s.memory = Raised(m) /\ s.stored = free
  BY <1>1 DEF Session, SessionFields
<1>3. /\ cmd'[m] = s /\ DOMAIN cmd' = Machines
      /\ \A n \in Machines \ {m} : cmd'[n] = cmd[n]
  BY <1>1 DEF CommandsInv
<1>4. Held(s)
  BY <1>2, RaisedRemembers DEF Held
<1>5. InMemory(s, ratchet'[m])
  BY <1>2, AbsorbStep, ReadRemembered DEF InMemory
<1>6. phase = "run" => Typed(s)
  BY <1>2 DEF Typed
<1>7. SessionOK(s, ratchet'[m]) /\ s.phase # "commit"
  BY <1>2, <1>4, <1>5, <1>6 DEF SessionOK
<1> QED
  BY <1>3, <1>7, AbsorbStep DEF LocalStep, CommandsInv, CommitOK, Phase

LEMMA BeginStep ==
    ASSUME CommandsInv, NEW m \in Machines, Begin(m)
    PROVE  LocalStep(m)
<1>c. PICK c \in issues, free \in BOOLEAN :
          /\ \E r \in Resolved(c, report[m]), u \in promote_for_action(m, c) :
                cmd' = [cmd EXCEPT ![m] = Session(m, "run", "idle", r, u, free)]
          /\ absorb_clean_trust_raises(m, free)
  BY DEF Begin
<1>1. PICK r \in Resolved(c, report[m]), u \in promote_for_action(m, c) :
          cmd' = [cmd EXCEPT ![m] = Session(m, "run", "idle", r, u, free)]
  BY <1>c
<1>2. u \in Users
  BY PromotedTyped
<1>3. Reported(vault[m], ratchet[m], report[m]) /\ Issuable(c)
  BY DEF CommandsInv
<1>4. Typed([home |-> "idle", cmd |-> r])
  BY <1>3, ResolvedTyped DEF Typed
<1>5. /\ Phase(m, "idle")
      /\ UNCHANGED <<vault, report, default, issues, commits, released, lost>>
  BY DEF Begin
<1> QED
  BY <1>c, <1>1, <1>2, <1>4, <1>5, OpenedStep

LEMMA BeginReadStep ==
    ASSUME CommandsInv, NEW m \in Machines, BeginRead(m)
    PROVE  LocalStep(m)
<1>c. PICK c \in issues, free \in BOOLEAN :
          /\ \E u \in promote_for_action(m, c) \cup read_session(m, c) :
                cmd' = [cmd EXCEPT ![m] = Session(m, "read", "idle", c, u, free)]
          /\ absorb_clean_trust_raises(m, free)
  BY Zenon DEF BeginRead
<1>1. PICK u \in promote_for_action(m, c) \cup read_session(m, c) :
          cmd' = [cmd EXCEPT ![m] = Session(m, "read", "idle", c, u, free)]
  BY <1>c
<1>2. u \in Users
  BY PromotedTyped DEF read_session, anchor_read
<1>3. /\ Phase(m, "idle")
      /\ UNCHANGED <<vault, report, default, issues, commits, released, lost>>
  BY DEF BeginRead
<1> QED
  BY <1>c, <1>1, <1>2, <1>3, OpenedStep

LEMMA OpenSessionStep ==
    ASSUME CommandsInv, NEW m \in Machines, open_session(m)
    PROVE  LocalStep(m)
<1>c. PICK c \in issues, free \in BOOLEAN :
          /\ \E u \in open_with_keychain(m, c) :
                cmd' = [cmd EXCEPT ![m] = Session(m, "sdk", "sdk", None, u, free)]
          /\ absorb_clean_trust_raises(m, free)
  BY DEF open_session
<1>1. PICK u \in open_with_keychain(m, c) :
          cmd' = [cmd EXCEPT ![m] = Session(m, "sdk", "sdk", None, u, free)]
  BY <1>c
<1>2. u \in Users
  BY PromotedTyped DEF open_with_keychain
<1>3. /\ Phase(m, "idle")
      /\ UNCHANGED <<vault, report, default, issues, commits, released, lost>>
  BY DEF open_session
<1>4. PICK phase, home, none : phase = "sdk" /\ home = "sdk" /\ none = None
  OBVIOUS
<1>5. cmd' = [cmd EXCEPT ![m] = Session(m, phase, home, none, u, free)]
  BY <1>1, <1>4
<1>6. phase \in {"run", "read", "sdk"} /\ phase # "run" /\ home # "idle"
  BY <1>4
<1> QED
  BY <1>c, <1>2, <1>3, <1>5, <1>6, OpenedStep

LEMMA EndStep ==
    ASSUME CommandsInv, NEW m \in Machines, confirm_destructive(m) \/ close_session(m)
    PROVE  LocalStep(m)
<1>1. /\ \A n \in Machines : cmd[n].phase # "commit"
      /\ cmd' = [cmd EXCEPT ![m] = Idle]
      /\ UNCHANGED <<vault, ratchet, report, default, issues, commits, released, lost>>
  BY DEF confirm_destructive, close_session, Phase
<1>2. /\ cmd'[m] = Idle /\ DOMAIN cmd' = Machines
      /\ \A n \in Machines \ {m} : cmd'[n] = cmd[n]
  BY <1>1 DEF CommandsInv
<1>3. Idle.phase = "idle"
  BY DEF Idle
<1>4. SessionOK(Idle, ratchet[m]) /\ CommitOK(Idle, vault, report[m])
  BY <1>3, IdleOK
<1> QED
  BY <1>1, <1>2, <1>4 DEF LocalStep, CommandsInv

LEMMA CallSessionStep ==
    ASSUME CommandsInv, NEW m \in Machines, call_session(m)
    PROVE  LocalStep(m)
<1>1. PICK c \in issues : cmd' = [cmd EXCEPT ![m].phase = "run", ![m].cmd = c]
  BY DEF call_session
<1>2. PICK s : s = [cmd[m] EXCEPT !.phase = "run", !.cmd = c]
  OBVIOUS
<1>3. /\ Phase(m, "sdk")
      /\ UNCHANGED <<vault, ratchet, report, default, issues, commits, released, lost>>
  BY DEF call_session
<1>4. /\ cmd[m].phase = "sdk" /\ SessionOK(cmd[m], ratchet[m])
      /\ \A n \in Machines : cmd[n].phase # "commit"
  BY <1>3 DEF Phase, CommandsInv
<1>5. DOMAIN cmd[m] = SessionFields /\ cmd[m].who \in Users /\ Held(cmd[m])
  BY <1>4 DEF SessionOK
<1>6. /\ DOMAIN s = SessionFields /\ s.phase = "run" /\ s.cmd = c /\ s.who = cmd[m].who
      /\ s.report = cmd[m].report /\ s.memory = cmd[m].memory /\ s.home = cmd[m].home
  BY <1>2, <1>5 DEF SessionFields
<1>7. /\ cmd'[m] = s /\ DOMAIN cmd' = Machines
      /\ \A n \in Machines \ {m} : cmd'[n] = cmd[n]
  BY <1>1, <1>2 DEF CommandsInv
<1>8. Issuable(c)
  BY DEF CommandsInv
<1>9. s.home # "idle"
  BY <1>4, <1>6 DEF SessionOK
<1>10. Typed(s)
  BY <1>6, <1>8, <1>9 DEF Typed, Issuable
<1>11. SessionOK(s, ratchet[m]) /\ s.phase # "commit"
  BY <1>5, <1>6, <1>10 DEF SessionOK, Held
<1> QED
  BY <1>3, <1>4, <1>7, <1>11 DEF LocalStep, CommandsInv, CommitOK

\* A step that only reads.
LEMMA LookStep ==
    ASSUME CommandsInv, NEW m \in Machines, NEW p, Phase(m, p),
           ratchet' = ratchet \/ ratchet' = [ratchet EXCEPT ![m] = Raised(m)],
           UNCHANGED <<vault, report, cmd, issues, commits, lost>>,
           default' \in [Machines -> Users \cup {None}],
           DOMAIN released' = Machines, \A n \in Machines : DOMAIN released'[n] = Secrets
    PROVE  LocalStep(m)
<1>1. cmd[m].phase = p /\ \A n \in Machines : cmd[n].phase # "commit"
  BY DEF Phase
<1>2. SessionOK(cmd[m], ratchet[m]) /\ ratchet[m] \in [RecordKeys -> 0 .. MaxCounter]
  BY DEF CommandsInv
<1>3. ratchet'[m] = ratchet[m] \/ ratchet'[m] = Raised(m)
  BY DEF CommandsInv
<1>4. SessionOK(cmd[m], Raised(m))
  BY <1>2, RaisedRemembers, SessionMonotone
<1>5. SessionOK(cmd[m], ratchet'[m])
  BY <1>2, <1>3, <1>4
<1>6. CommitOK(cmd[m], vault, report[m])
  BY <1>1 DEF CommitOK
<1> QED
  BY <1>1, <1>5, <1>6 DEF LocalStep, CommandsInv

\* The end of a command that reads.
LEMMA ReadingStep ==
    ASSUME CommandsInv, NEW m \in Machines, NEW op, Reading(m, op),
           default' \in [Machines -> Users \cup {None}],
           DOMAIN released' = Machines, \A n \in Machines : DOMAIN released'[n] = Secrets
    PROVE  LocalStep(m)
<1>1. /\ \A n \in Machines : cmd[n].phase # "commit"
      /\ cmd' = [cmd EXCEPT ![m] = Idle]
      /\ UNCHANGED <<vault, ratchet, report, issues, commits, lost>>
  BY DEF Reading, Phase
<1>2. /\ cmd'[m] = Idle /\ DOMAIN cmd' = Machines
      /\ \A n \in Machines \ {m} : cmd'[n] = cmd[n]
  BY <1>1 DEF CommandsInv
<1>3. Idle.phase = "idle"
  BY DEF Idle
<1>4. SessionOK(Idle, ratchet[m]) /\ CommitOK(Idle, vault, report[m])
  BY <1>3, IdleOK
<1> QED
  BY <1>1, <1>2, <1>4 DEF LocalStep, CommandsInv

LEMMA ReadingWho ==
    ASSUME CommandsInv, NEW m \in Machines, NEW op, Reading(m, op)
    PROVE  cmd[m].who \in Users /\ Held(cmd[m]) /\ InMemory(cmd[m], ratchet[m])
BY DEF Reading, Phase, CommandsInv, SessionOK

LEMMA GivesType ==
    ASSUME CommandsInv, NEW m \in Machines, NEW x, NEW counters, Gives(m, x, counters)
    PROVE  DOMAIN released' = Machines /\ \A n \in Machines : DOMAIN released'[n] = Secrets
<1>1. PICK n : released' = [released EXCEPT ![m][x] = n]
  BY DEF Gives
<1> QED
  BY <1>1 DEF CommandsInv

LEMMA OpenStep ==
    ASSUME CommandsInv, NEW m \in Machines, NEW op, Open(m, op)
    PROVE  LocalStep(m)
<1>1. /\ Reading(m, op)
      /\ default' = default \/ remember_user_if_explicit(m, cmd[m])
      /\ \/ Gives(m, cmd[m].cmd.on, get_secret(cmd[m].report, cmd[m].who, cmd[m].cmd.on))
         \/ UNCHANGED released
  BY Zenon DEF Open
<1>2. default' \in [Machines -> Users \cup {None}]
  BY <1>1, ReadingWho, RememberType DEF CommandsInv
<1>3. DOMAIN released' = Machines /\ \A n \in Machines : DOMAIN released'[n] = Secrets
  <2>1. CASE UNCHANGED released
    BY <2>1 DEF CommandsInv
  <2>2. CASE \E x, S : Gives(m, x, S)
    BY <2>2, GivesType
  <2> QED
    BY <1>1, <2>1, <2>2
<1> QED
  BY <1>1, <1>2, <1>3, ReadingStep

\* The secrets a run asks for.
Asked(e, specs) ==
    {i.secret : i \in plan_injections({About(r) : r \in secret_records(e)}, specs)}

LEMMA RunStep ==
    ASSUME CommandsInv, NEW m \in Machines, run_inject(m)
    PROVE  LocalStep(m)
<1>1. /\ Reading(m, "run") /\ remember_user_if_explicit(m, cmd[m])
      /\ \/ released' = [released EXCEPT ![m] =
                          [x \in Secrets |->
                              IF x \in Asked(cmd[m].report, cmd[m].cmd.on)
                              THEN Highest(get_secret(cmd[m].report, cmd[m].who, x))
                              ELSE released[m][x]]]
         \/ UNCHANGED released
  BY Zenon DEF run_inject, Asked
<1>2. default' \in [Machines -> Users \cup {None}]
  BY <1>1, ReadingWho, RememberType
<1>3. DOMAIN released' = Machines /\ \A n \in Machines : DOMAIN released'[n] = Secrets
  BY <1>1 DEF CommandsInv
<1> QED
  BY <1>1, <1>2, <1>3, ReadingStep

LEMMA UserUseStep ==
    ASSUME CommandsInv, NEW m \in Machines, cmd_user_use(m)
    PROVE  LocalStep(m)
<1>c. PICK c \in issues, free \in BOOLEAN :
          /\ c.op = "user_use"
          /\ \E r \in Resolved(c, report[m]) : default' = [default EXCEPT ![m] = r.on]
          /\ absorb_clean_trust_raises(m, free)
  BY DEF cmd_user_use
<1>1. PICK r \in Resolved(c, report[m]) : default' = [default EXCEPT ![m] = r.on]
  BY <1>c
<1>2. r.on \in Users
  BY <1>c, ResolvedTyped DEF CommandsInv
<1>3. default' \in [Machines -> Users \cup {None}]
  BY <1>1, <1>2 DEF CommandsInv
<1>4. /\ Phase(m, "idle")
      /\ UNCHANGED <<vault, report, cmd, issues, commits, released, lost>>
  BY DEF cmd_user_use
<1> QED
  BY <1>c, <1>3, <1>4, AbsorbStep, LookStep DEF CommandsInv

LEMMA ListStep ==
    ASSUME CommandsInv, NEW m \in Machines, cmd_list(m)
    PROVE  LocalStep(m)
<1>1. Reading(m, "list") /\ default' = default
  BY DEF cmd_list
<1>2. \E f : released' = [released EXCEPT ![m] = [x \in Secrets |-> f[x]]]
  <2> DEFINE listed(x) ==
                 {r.counter : r \in {v \in secret_records(cmd[m].report) : About(v) = x}}
             f == [x \in Secrets |-> IF listed(x) = {} THEN released[m][x] ELSE Highest(listed(x))]
  <2>1. released' = [released EXCEPT ![m] = f]
    BY Zenon DEF cmd_list
  <2>2. f = [x \in Secrets |-> f[x]]
    OBVIOUS
  <2> HIDE DEF f
  <2>3. released' = [released EXCEPT ![m] = [x \in Secrets |-> f[x]]]
    BY <2>1, <2>2
  <2> QED
    BY <2>3
<1>3. DOMAIN released' = Machines /\ \A n \in Machines : DOMAIN released'[n] = Secrets
  BY <1>2 DEF CommandsInv
<1> QED
  BY <1>1, <1>3, ReadingStep DEF CommandsInv

LEMMA ShowStep ==
    ASSUME CommandsInv, NEW m \in Machines, cmd_show(m)
    PROVE  LocalStep(m)
<1>1. /\ Reading(m, "show") /\ default' = default
      /\ (\E x, S : Gives(m, x, S)) \/ UNCHANGED released
  BY Zenon DEF cmd_show
<1>2. DOMAIN released' = Machines /\ \A n \in Machines : DOMAIN released'[n] = Secrets
  <2>1. CASE UNCHANGED released
    BY <2>1 DEF CommandsInv
  <2>2. CASE \E x, S : Gives(m, x, S)
    BY <2>2, GivesType
  <2> QED
    BY <1>1, <2>1, <2>2
<1> QED
  BY <1>1, <1>2, ReadingStep DEF CommandsInv

LEMMA InspectStep ==
    ASSUME CommandsInv, NEW m \in Machines, inspect_session(m)
    PROVE  LocalStep(m)
<1>1. /\ Phase(m, cmd[m].phase)
      /\ (\E free \in BOOLEAN : absorb_clean_trust_raises(m, free)) \/ ratchet' = ratchet
      /\ UNCHANGED <<vault, report, default, cmd, issues, commits, released, lost>>
  BY DEF inspect_session
<1>2. ratchet' = ratchet \/ ratchet' = [ratchet EXCEPT ![m] = Raised(m)]
  BY <1>1, AbsorbStep
<1> QED
  BY <1>1, <1>2, LookStep DEF CommandsInv

LEMMA SessionReadStep ==
    ASSUME CommandsInv, NEW m \in Machines, Vault_get(m) \/ Vault_fields(m)
    PROVE  LocalStep(m)
<1>1. /\ Phase(m, "sdk")
      /\ \E c \in issues : Gives(m, c.on, get_secret(cmd[m].report, cmd[m].who, c.on))
      /\ UNCHANGED <<vault, ratchet, report, default, cmd, issues, commits, lost>>
  BY DEF Vault_get, Vault_fields
<1>2. DOMAIN released' = Machines /\ \A n \in Machines : DOMAIN released'[n] = Secrets
  BY <1>1, GivesType
<1> QED
  BY <1>1, <1>2, LookStep DEF CommandsInv

(* --------------------------- merges and commits ------------------------ *)

\* Vaults of the same history unite.
LEMMA UnionWellformed ==
    ASSUME NEW V, NEW W, Wellformed(V), Wellformed(W),
           \A r \in V, s \in W : (r.key = s.key /\ Kind(r) = "grant" /\ r.live /\ s.live) => r = s
    PROVE  Wellformed(V \cup W)
<1>1. IsFiniteSet(V \cup W)
  BY FS_Union DEF Wellformed
<1>2. \A r \in V \cup W : /\ r.key \in RecordKeys /\ r.counter \in 1 .. MaxCounter
                          /\ r.by \in SigningKeys
                          /\ Kind(r) = "entry" => r.by = KeyOf[About(r)]
  BY DEF Wellformed
<1>3. ASSUME NEW r \in V \cup W, NEW s \in V \cup W,
             r.key = s.key /\ Kind(r) = "grant" /\ r.live /\ s.live
      PROVE  r = s
  <2>1. Kind(s) = "grant"
    BY <1>3 DEF Kind
  <2> QED
    BY <1>3, <2>1 DEF Wellformed
<1> QED
  BY <1>1, <1>2, <1>3 DEF Wellformed

LEMMA MergeKeeps ==
    ASSUME CommandsInv, NEW m \in Machines, git_merge(m)
    PROVE  CommandsInv'
<1>1. PICK n \in Machines :
          /\ vault'  = [vault EXCEPT ![m] = @ \cup vault[n]]
          /\ report' = [report EXCEPT ![m] = validate_v1(vault[m] \cup vault[n], ratchet[m])]
  BY DEF git_merge
<1>2. /\ UNCHANGED <<ratchet, default, cmd, issues, commits, released, lost>>
      /\ \A i \in Machines : cmd[i].phase # "commit"
  BY DEF git_merge, Phase
<1>3. PICK W : W = vault[m] \cup vault[n]
  OBVIOUS
<1>4. /\ vault'[m] = W /\ report'[m] = validate_v1(W, ratchet[m])
      /\ DOMAIN vault' = Machines /\ DOMAIN report' = Machines
      /\ \A i \in Machines \ {m} : vault'[i] = vault[i] /\ report'[i] = report[i]
  BY <1>1, <1>3 DEF CommandsInv
<1>5. Wellformed(vault[m]) /\ Wellformed(vault[n])
  BY DEF CommandsInv, Reported
<1>6. Wellformed(W)
  BY <1>3, <1>5, UnionWellformed DEF CommandsInv, Drawn
<1>7. Reported(W, ratchet[m], validate_v1(W, ratchet[m]))
  BY <1>3, <1>6, GrownReported DEF CommandsInv
<1>8. \A i \in Machines : Reported(vault'[i], ratchet'[i], report'[i])
  BY <1>2, <1>4, <1>7 DEF CommandsInv
<1>9. Drawn(vault')
  <2>1. \A i \in Machines : \A r \in vault'[i] : \E j \in Machines : r \in vault[j]
    BY <1>3, <1>4
  <2> QED
    BY <2>1 DEF CommandsInv, Drawn
<1>10. \A i \in Machines : CommitOK(cmd'[i], vault', report'[i])
  BY <1>2 DEF CommitOK
<1> QED
  BY <1>2, <1>4, <1>8, <1>9, <1>10 DEF CommandsInv

LEMMA InitKeeps == Init => CommandsInv
<1> SUFFICES ASSUME Init PROVE CommandsInv
  OBVIOUS
<1>1. PICK s \in Scenarios :
        /\ vault   = [m \in Machines |-> s.vault]
        /\ report  = [m \in Machines |-> validate_v1(s.vault, NoRatchet)]
        /\ ratchet = [m \in Machines |-> apply_update(NoRatchet, report[m])]
        /\ default = s.default
        /\ cmd     = [m \in Machines |-> Idle]
        /\ issues  = s.issues
        /\ commits = 0
        /\ released = [m \in Machines |-> [x \in Secrets |-> 0]]
        /\ lost    = [m \in Machines |-> {}]
  BY DEF Init
<1>2. /\ Wellformed(s.vault) /\ s.default \in [Machines -> Users \cup {None}]
      /\ \A c \in s.issues : Issuable(c)
  BY ScenariosAssumption
<1>3. PICK V, e, t : V = s.vault /\ e = validate_v1(V, NoRatchet) /\ t = apply_update(NoRatchet, e)
  OBVIOUS
<1>4. Reported(V, NoRatchet, e)
  <2>1. NoRatchet \in [RecordKeys -> 0 .. MaxCounter]
    BY CommandsAssumption DEF NoRatchet
  <2>2. Witnessed(V, NoRatchet)
    BY DEF Witnessed, NoRatchet
  <2> QED
    BY <1>2, <1>3, <2>1, <2>2 DEF Reported
<1>5. Reported(V, t, e)
  BY <1>3, <1>4, AbsorbReported
<1>6. t \in [RecordKeys -> 0 .. MaxCounter]
  BY <1>5 DEF Reported
<1>7. ratchet = [m \in Machines |-> t] /\ report = [m \in Machines |-> e]
      /\ vault = [m \in Machines |-> V]
  BY <1>1, <1>3
<1>8. \A m \in Machines : Reported(vault[m], ratchet[m], report[m])
  BY <1>5, <1>7
<1>9. Drawn(vault)
  BY <1>2, <1>3, <1>7 DEF Drawn, Wellformed
<1>10. \A m \in Machines : cmd[m].phase = "idle"
  BY <1>1 DEF Idle
<1>11. \A m \in Machines : SessionOK(cmd[m], ratchet[m]) /\ CommitOK(cmd[m], vault, report[m])
  BY <1>10, IdleOK
<1>12. \A m \in Machines : LostOK(lost[m], ratchet[m])
  BY <1>1 DEF LostOK
<1>13. ratchet \in [Machines -> [RecordKeys -> 0 .. MaxCounter]]
  BY <1>6, <1>7
<1>14. DOMAIN released = Machines /\ \A m \in Machines : DOMAIN released[m] = Secrets
  BY <1>1
<1>15. /\ DOMAIN vault = Machines /\ DOMAIN report = Machines /\ DOMAIN cmd = Machines
       /\ DOMAIN lost = Machines /\ commits \in Nat
       /\ default \in [Machines -> Users \cup {None}] /\ \A c \in issues : Issuable(c)
  BY <1>1, <1>2, <1>7
<1> QED
  BY <1>8, <1>9, <1>10, <1>11, <1>12, <1>13, <1>14, <1>15 DEF CommandsInv

\* A deletion by whoever is an administrator after it counts.
LEMMA DeletionCounts ==
    ASSUME NEW V, NEW t, NEW e, Reported(V, t, e), ~ AuthorityRolled(e),
           NEW r \in V, ~ r.live, Kind(r) \in {"member", "grant"},
           NEW u \in signer_for_key(V, r.by), e.auth[u].administer
    PROVE  r.counter <= Marks(V)[r.key]
<1>1. Wellformed(V) /\ e = validate_v1(V, t)
  BY DEF Reported
<1>2. PICK F : F = Final(V, e.rolled)
  OBVIOUS
<1>3. F = Whole(V)
  BY <1>2, NothingLeftOut
<1>4. e.auth = F.graph.auth
  <2>1. PICK rolled : rolled = rollback_keys(Marks(V), t)
    OBVIOUS
  <2>2. PICK graph : graph = Final(V, rolled).graph
    OBVIOUS
  <2>3. e.auth = graph.auth /\ e.rolled = rolled
    BY <1>1, <2>1, <2>2, ReportFields
  <2> QED
    BY <1>2, <2>2, <2>3
<1>5. PICK v : v = SignedBy(r, u)
  OBVIOUS
<1>6. /\ v.key = r.key /\ v.live = r.live /\ v.data = r.data
      /\ v.counter = r.counter /\ v.signer = u
  BY <1>5 DEF SignedBy
<1>7. v \in verified_records(V)
  BY <1>1, <1>5, VerifiedIff
<1>8. F.graph.auth[v.signer].administer
  BY <1>4, <1>6
<1>9. CASE Kind(r) = "member"
  <2>1. v \in Entitled(V)
    BY <1>3, <1>6, <1>7, <1>8, <1>9 DEF Entitled, Admitted, Kind
  <2> QED
    BY <1>1, <1>6, <2>1, MarksFacts
<1>10. CASE Kind(r) = "grant"
  <2>1. PICK P : P = principal_records(verified_records(V))
    OBVIOUS
  <2>2. Verified(P) /\ F = resolve_effective_with_deletions(P)
    <3>1. P \subseteq verified_records(V)
      BY <2>1 DEF principal_records
    <3> QED
      BY <1>1, <1>3, <2>1, <3>1, VerifiedTyped, SubsetVerified DEF Whole
  <2>3. v \in deletion_candidates(P)
    BY <1>6, <1>7, <1>10, <2>1 DEF deletion_candidates, principal_records, Kind
  <2>4. \A q : can_create_permission(F.graph.auth[v.signer], q)
    BY <1>8 DEF can_create_permission
  <2>5. grant_deleted_authorized(F.graph.auth[v.signer], v, F.graph.selected.grants)
    BY <1>8, <2>4 DEF grant_deleted_authorized
  <2>6. deletion_authorized(F.graph, v)
    BY <1>6, <1>10, <2>5 DEF deletion_authorized, Kind
  <2>7. v \in F.admitted
    BY <2>2, <2>3, <2>6, ResolutionComplete
  <2>8. v \in Entitled(V)
    BY <1>3, <1>6, <1>7, <1>10, <2>7 DEF Entitled, Admitted, Kind
  <2> QED
    BY <1>1, <1>6, <2>8, MarksFacts
<1> QED
  BY <1>9, <1>10

\* What the deletion of a user took away is behind its tombstones.
LEMMA TakenCounts ==
    ASSUME NEW m \in Machines, NEW V, V = vault[m] \cup cmd[m].new,
           NEW t, NEW post, Reported(V, t, post), StillAdministers(m, post),
           NEW p, Cascaded(report[m], p, cmd[m].who, cmd[m].new), report[m].next \in Nat,
           \A g \in report[m].grants : Kind(g) = "grant", NEW x \in Taken(m, p)
    PROVE  x.key \in RecordKeys /\ x.counter \in Nat /\ Marks(V)[x.key] > x.counter
<1>1. PICK k \in {<<"member", id>> : id \in members_of(report[m], p)}
                    \cup {g.key : g \in grants_of(report[m], p)} :
          x = [key |-> k, counter |-> report[m].next]
  BY DEF Taken
<1>2. x.key = k /\ x.counter = report[m].next
  BY <1>1
<1>3. PICK r \in cmd[m].new : /\ r.key = k /\ ~ r.live /\ r.by = KeyOf[cmd[m].who]
                              /\ r.counter > report[m].next
  BY <1>1 DEF Cascaded
<1>4. PICK u \in signer_for_key(V, r.by) : post.auth[u].administer /\ ~ AuthorityRolled(post)
  BY <1>3 DEF StillAdministers
<1>5. r \in V /\ Wellformed(V)
  BY DEF Reported
<1>6. r.key \in RecordKeys /\ r.counter \in 1 .. MaxCounter
  BY <1>5, WellformedRecord
<1>7. Kind(r) \in {"member", "grant"}
  BY <1>1, <1>3 DEF Kind, grants_of
<1>8. r.counter <= Marks(V)[r.key]
  BY <1>3, <1>4, <1>5, <1>7, DeletionCounts
<1>9. Marks(V)[r.key] \in Nat /\ r.counter \in Nat
  BY <1>5, <1>6, MarksFacts, CommandsAssumption
<1> QED
  BY <1>2, <1>3, <1>6, <1>8, <1>9

\* A commit that is refused changes nothing.
LEMMA RefusedKeeps ==
    ASSUME CommandsInv, NEW m \in Machines, cmd[m].phase = "commit", Fail(m, report[m], ratchet[m])
    PROVE  CommandsInv'
<1>1. /\ cmd' = [cmd EXCEPT ![m] = Return(m, report[m], ratchet[m])]
      /\ UNCHANGED <<vault, ratchet, report, default, issues, commits, released, lost>>
  BY DEF Fail
<1>2. /\ cmd'[m] = Return(m, report[m], ratchet[m]) /\ DOMAIN cmd' = Machines
      /\ \A n \in Machines \ {m} : cmd'[n] = cmd[n]
  BY <1>1 DEF CommandsInv
<1>7. ratchet[m] \in [RecordKeys -> 0 .. MaxCounter] /\ cmd[m].phase # "idle"
  BY DEF CommandsInv
<1>8. Remembers(report[m], ratchet[m])
  BY ReportRemembers
<1>3. SessionOK(cmd'[m], ratchet[m]) /\ cmd'[m].phase # "commit"
  BY <1>2, <1>7, <1>8, ReturnOK
<1>4. \A n \in Machines : cmd'[n].phase # "commit"
  BY <1>2, <1>3 DEF CommandsInv
<1>5. \A n \in Machines : SessionOK(cmd'[n], ratchet'[n])
  BY <1>1, <1>2, <1>3 DEF CommandsInv
<1>6. \A n \in Machines : CommitOK(cmd'[n], vault', report'[n])
  BY <1>4 DEF CommitOK
<1> QED
  BY <1>1, <1>2, <1>4, <1>5, <1>6 DEF CommandsInv

\* What a commit changes.
Committed(m, raised, post) ==
    /\ vault'   = [vault EXCEPT ![m] = @ \cup cmd[m].new]
    /\ ratchet' = [ratchet EXCEPT ![m] = apply_update(raised, post)]
    /\ report'  = [report EXCEPT ![m] = post]
    /\ commits' = commits + 1
    /\ Continue(m, post, apply_update(raised, post))
    /\ lost' = IF cmd[m].cmd.op = "user_delete" /\ StillAdministers(m, post)
               THEN [lost EXCEPT ![m] = @ \cup Taken(m, cmd[m].cmd.on)] ELSE lost
    /\ UNCHANGED <<issues, released>>

\* The vault a commit would leave, and what it means.
LEMMA CommitReports ==
    ASSUME CommandsInv, NEW m \in Machines, cmd[m].phase = "commit",
           NEW raised, raised = apply_update(ratchet[m], report[m]),
           NEW V, V = vault[m] \cup cmd[m].new,
           NEW post, post = validate_v1(V, raised),
           NEW top, top = apply_update(raised, post)
    PROVE  /\ Reported(V, raised, post) /\ Reported(V, top, post)
           /\ \A k \in RecordKeys : top[k] >= ratchet[m][k] /\ top[k] >= Marks(V)[k]
           /\ Remembers(post, top)
<1>1. Reported(vault[m], ratchet[m], report[m]) /\ CommitOK(cmd[m], vault, report[m])
  BY DEF CommandsInv
<1>2. /\ Reported(vault[m], raised, report[m])
      /\ \A k \in RecordKeys : raised[k] >= ratchet[m][k]
  BY <1>1, AbsorbReported
<1>3. Appendable(cmd[m].new, vault)
  BY <1>1 DEF CommitOK
<1>4. Wellformed(V)
  <2>1. Wellformed(vault[m]) /\ Wellformed(cmd[m].new)
    BY <1>1, <1>3 DEF Reported, Appendable
  <2>2. ASSUME NEW r \in vault[m], NEW s \in cmd[m].new,
               r.key = s.key /\ Kind(r) = "grant" /\ r.live /\ s.live
        PROVE  r = s
    BY <1>3, <2>2 DEF Appendable, Kind
  <2> QED
    BY <2>1, <2>2, UnionWellformed
<1>5. Reported(V, raised, post)
  BY <1>2, <1>4, GrownReported
<1>6. /\ Reported(V, top, post)
      /\ \A k \in RecordKeys : top[k] >= raised[k] /\ top[k] >= Marks(V)[k]
  BY <1>5, AbsorbReported
<1>7. \A k \in RecordKeys : top[k] >= ratchet[m][k]
  <2>1. top \in [RecordKeys -> 0 .. MaxCounter]
    BY <1>6 DEF Reported
  <2>2. raised \in [RecordKeys -> 0 .. MaxCounter]
    BY <1>2 DEF Reported
  <2>3. ratchet[m] \in [RecordKeys -> 0 .. MaxCounter]
    BY <1>1 DEF Reported
  <2>4. SUFFICES ASSUME NEW k \in RecordKeys PROVE top[k] >= ratchet[m][k]
    OBVIOUS
  <2>5. top[k] \in 0 .. MaxCounter /\ raised[k] \in 0 .. MaxCounter
        /\ ratchet[m][k] \in 0 .. MaxCounter
    BY <2>1, <2>2, <2>3, Zenon
  <2>6. top[k] >= raised[k] /\ raised[k] >= ratchet[m][k]
    BY <1>2, <1>6
  <2> QED
    BY <2>5, <2>6
<1>8. \A k \in RecordKeys : k \in post.rolled \/ Marks(V)[k] >= top[k]
  BY <1>6, MarksNotBehind
<1>9. Remembers(post, top)
  BY <1>6, <1>8 DEF Remembers
<1> QED
  BY <1>5, <1>6, <1>7, <1>9

\* Where the command goes on.
LEMMA ContinueOK ==
    ASSUME CommandsInv, NEW m \in Machines, cmd[m].phase = "commit",
           NEW post, NEW top \in [RecordKeys -> 0 .. MaxCounter], Remembers(post, top),
           Continue(m, post, top)
    PROVE  /\ DOMAIN cmd' = Machines /\ \A n \in Machines \ {m} : cmd'[n] = cmd[n]
           /\ SessionOK(cmd'[m], top) /\ cmd'[m].phase # "commit"
           /\ default' \in [Machines -> Users \cup {None}]
<1>1. /\ DOMAIN cmd[m] = SessionFields /\ cmd[m].who \in Users
      /\ CommitOK(cmd[m], vault, report[m])
  BY DEF CommandsInv, SessionOK
<1>2. CASE cmd[m].next = "done"
  <2>1. cmd' = [cmd EXCEPT ![m] = Return(m, post, top)] /\ remember_user_if_explicit(m, cmd[m])
    BY <1>2 DEF Continue
  <2>2. /\ cmd'[m] = Return(m, post, top) /\ DOMAIN cmd' = Machines
        /\ \A n \in Machines \ {m} : cmd'[n] = cmd[n]
    BY <2>1 DEF CommandsInv
  <2>3. default' \in [Machines -> Users \cup {None}]
    BY <1>1, <2>1, RememberType
  <2> QED
    BY <2>2, <2>3, ReturnOK
<1>3. CASE cmd[m].next # "done"
  <2>1. /\ cmd[m].next \in {"converge", "vacate"} /\ cmd[m].cmd.op # "user_delete"
        /\ cmd[m].next = "vacate" => cmd[m].cmd.on \in Secrets
    BY <1>1, <1>3 DEF CommitOK
  <2>2. PICK s : s = [cmd[m] EXCEPT !.phase = cmd[m].next, !.report = post, !.memory = top]
    OBVIOUS
  <2>3. /\ s.phase = cmd[m].next /\ s.report = post /\ s.memory = top /\ s.who = cmd[m].who
        /\ s.cmd = cmd[m].cmd /\ DOMAIN s = SessionFields
    BY <1>1, <2>2 DEF SessionFields
  <2>4. SessionOK(s, top) /\ s.phase # "commit"
    BY <1>1, <2>1, <2>3 DEF SessionOK, Held
  <2>5. /\ cmd' = [cmd EXCEPT ![m].phase = cmd[m].next, ![m].report = post, ![m].memory = top]
        /\ default' = default
    BY <1>3 DEF Continue
  <2>6. /\ cmd'[m] = s /\ DOMAIN cmd' = Machines
        /\ \A n \in Machines \ {m} : cmd'[n] = cmd[n]
    BY <2>2, <2>5 DEF CommandsInv
  <2> QED
    BY <2>4, <2>5, <2>6 DEF CommandsInv
<1> QED
  BY <1>2, <1>3

LEMMA CommitKeeps ==
    ASSUME CommandsInv, NEW m \in Machines, commit(m)
    PROVE  CommandsInv'
<1>1. PICK raised : raised = apply_update(ratchet[m], report[m])
  OBVIOUS
<1>2. PICK V : V = vault[m] \cup cmd[m].new
  OBVIOUS
<1>3. PICK post : post = validate_v1(V, raised)
  OBVIOUS
<1>4. PICK top : top = apply_update(raised, post)
  OBVIOUS
<1>5. cmd[m].phase = "commit" /\ (Fail(m, report[m], ratchet[m]) \/ Committed(m, raised, post))
  BY <1>1, <1>2, <1>3, Zenon DEF commit, Committed, Raised
<1>6. CASE Fail(m, report[m], ratchet[m])
  BY <1>5, <1>6, RefusedKeeps
<1>7. CASE Committed(m, raised, post)
  <2>1. /\ Reported(V, raised, post) /\ Reported(V, top, post)
        /\ \A k \in RecordKeys : top[k] >= ratchet[m][k] /\ top[k] >= Marks(V)[k]
        /\ Remembers(post, top)
    BY <1>1, <1>2, <1>3, <1>4, <1>5, CommitReports
  <2>2. /\ vault' = [vault EXCEPT ![m] = V] /\ ratchet' = [ratchet EXCEPT ![m] = top]
        /\ report' = [report EXCEPT ![m] = post] /\ commits' = commits + 1
        /\ UNCHANGED <<issues, released>>
    BY <1>2, <1>4, <1>7 DEF Committed
  <2>3. top \in [RecordKeys -> 0 .. MaxCounter]
    BY <2>1 DEF Reported
  <2>4. /\ DOMAIN vault' = Machines /\ vault'[m] = V
        /\ \A n \in Machines \ {m} : vault'[n] = vault[n]
    BY <2>2 DEF CommandsInv
  <2>5. /\ DOMAIN report' = Machines /\ report'[m] = post
        /\ \A n \in Machines \ {m} : report'[n] = report[n]
    BY <2>2 DEF CommandsInv
  <2>6. /\ ratchet' \in [Machines -> [RecordKeys -> 0 .. MaxCounter]] /\ ratchet'[m] = top
        /\ \A n \in Machines \ {m} : ratchet'[n] = ratchet[n]
    BY <2>2, <2>3 DEF CommandsInv
  <2>7. Continue(m, post, top)
    BY <1>4, <1>7 DEF Committed
  <2>8. /\ DOMAIN cmd' = Machines /\ \A n \in Machines \ {m} : cmd'[n] = cmd[n]
        /\ SessionOK(cmd'[m], top) /\ cmd'[m].phase # "commit"
        /\ default' \in [Machines -> Users \cup {None}]
    BY <1>5, <2>1, <2>3, <2>7, ContinueOK
  <2>9. \A n \in Machines : cmd'[n].phase # "commit"
    BY <1>5, <2>8 DEF CommandsInv
  <2>10. \A n \in Machines : SessionOK(cmd'[n], ratchet'[n])
    BY <2>6, <2>8 DEF CommandsInv
  <2>11. \A n \in Machines : CommitOK(cmd'[n], vault', report'[n])
    BY <2>9 DEF CommitOK
  <2>12. \A n \in Machines : Reported(vault'[n], ratchet'[n], report'[n])
    BY <2>1, <2>4, <2>5, <2>6 DEF CommandsInv
  <2>13. Drawn(vault')
    <3>1. Appendable(cmd[m].new, vault)
      BY <1>5 DEF CommandsInv, CommitOK
    <3>2. ASSUME NEW i \in Machines, NEW r \in vault'[i]
          PROVE  r \in cmd[m].new \/ \E j \in Machines : r \in vault[j]
      BY <1>2, <2>4
    <3>3. ASSUME NEW r, NEW s, r.key = s.key, Kind(r) = "grant", r.live, s.live,
                 r \in cmd[m].new \/ \E j \in Machines : r \in vault[j],
                 s \in cmd[m].new \/ \E j \in Machines : s \in vault[j]
          PROVE  r = s
      <4>1. Kind(s) = "grant"
        BY <3>3 DEF Kind
      <4>2. CASE r \in cmd[m].new /\ s \in cmd[m].new
        BY <3>1, <3>3, <4>2 DEF Appendable, Wellformed
      <4>3. CASE r \in cmd[m].new /\ \E j \in Machines : s \in vault[j]
        BY <3>1, <3>3, <4>3 DEF Appendable
      <4>4. CASE s \in cmd[m].new /\ \E j \in Machines : r \in vault[j]
        BY <3>1, <3>3, <4>1, <4>4 DEF Appendable
      <4>5. CASE (\E j \in Machines : r \in vault[j]) /\ \E j \in Machines : s \in vault[j]
        BY <3>3, <4>5 DEF CommandsInv, Drawn
      <4> QED
        BY <3>3, <4>2, <4>3, <4>4, <4>5
    <3> QED
      BY <3>2, <3>3 DEF Drawn
  <2>14. LostOK(lost[m], top)
    <3>1. LostOK(lost[m], ratchet[m]) /\ ratchet[m] \in [RecordKeys -> 0 .. MaxCounter]
      BY DEF CommandsInv
    <3>2. \A k \in RecordKeys : top[k] \in Int /\ ratchet[m][k] \in Int
      BY <2>3, <3>1
    <3> QED
      BY <2>1, <3>1, <3>2 DEF LostOK
  <2>15. (cmd[m].cmd.op = "user_delete" /\ StillAdministers(m, post))
             => LostOK(Taken(m, cmd[m].cmd.on), top)
    <3>1. SUFFICES ASSUME cmd[m].cmd.op = "user_delete", StillAdministers(m, post),
                          NEW x \in Taken(m, cmd[m].cmd.on)
                   PROVE  x.key \in RecordKeys /\ x.counter \in Nat /\ top[x.key] > x.counter
      BY DEF LostOK
    <3>2. Cascaded(report[m], cmd[m].cmd.on, cmd[m].who, cmd[m].new)
      BY <1>5, <3>1 DEF CommandsInv, CommitOK
    <3>3. report[m].next \in Nat /\ \A g \in report[m].grants : Kind(g) = "grant"
      BY ReportNumbers, ShownNotRolled DEF CommandsInv
    <3>4. x.key \in RecordKeys /\ x.counter \in Nat /\ Marks(V)[x.key] > x.counter
      BY <1>2, <2>1, <3>1, <3>2, <3>3, TakenCounts
    <3>5. top[x.key] \in Int /\ Marks(V)[x.key] \in Int /\ top[x.key] >= Marks(V)[x.key]
      BY <2>1, <2>3, <3>4, MarksFacts DEF Reported
    <3> QED
      BY <3>4, <3>5
  <2>16. DOMAIN lost' = Machines /\ \A n \in Machines : LostOK(lost'[n], ratchet'[n])
    <3>1. CASE cmd[m].cmd.op = "user_delete" /\ StillAdministers(m, post)
      <4>1. lost' = [lost EXCEPT ![m] = @ \cup Taken(m, cmd[m].cmd.on)]
        BY <1>7, <3>1 DEF Committed
      <4>2. LostOK(lost[m] \cup Taken(m, cmd[m].cmd.on), top)
        BY <2>14, <2>15, <3>1 DEF LostOK
      <4> QED
        BY <2>6, <4>1, <4>2 DEF CommandsInv
    <3>2. CASE ~ (cmd[m].cmd.op = "user_delete" /\ StillAdministers(m, post))
      <4>1. lost' = lost
        BY <1>7, <3>2 DEF Committed
      <4> QED
        BY <2>6, <2>14, <4>1 DEF CommandsInv
    <3> QED
      BY <3>1, <3>2
  <2>17. /\ DOMAIN released' = Machines /\ \A n \in Machines : DOMAIN released'[n] = Secrets
         /\ commits' \in Nat /\ \A c \in issues' : Issuable(c)
    BY <2>2 DEF CommandsInv
  <2>18. \A i, n \in Machines : (cmd'[i].phase = "commit" /\ cmd'[n].phase = "commit") => i = n
    BY <2>9
  <2> QED
    BY <2>4, <2>5, <2>6, <2>8, <2>10, <2>11, <2>12, <2>13, <2>16, <2>17, <2>18 DEF CommandsInv
<1> QED
  BY <1>5, <1>6, <1>7

(* ------------------------- what the commands keep ----------------------- *)

LEMMA NextKeeps == CommandsInv /\ [Next]_vars => CommandsInv'
<1> SUFFICES ASSUME CommandsInv, [Next]_vars PROVE CommandsInv'
  OBVIOUS
<1>1. CASE UNCHANGED vars
  BY <1>1 DEF vars, CommandsInv
<1>2. ASSUME NEW m \in Machines,
             \/ cmd_secret_get(m) \/ cmd_field_get(m) \/ cmd_field_list(m)
             \/ cmd_list(m) \/ cmd_show(m) \/ inspect_session(m)
             \/ run_inject(m) \/ Vault_get(m) \/ Vault_fields(m) \/ cmd_user_use(m)
      PROVE  LocalStep(m)
  BY <1>2, OpenStep, ListStep, ShowStep, InspectStep, RunStep, SessionReadStep, UserUseStep
     DEF cmd_secret_get, cmd_field_get, cmd_field_list
<1>3. ASSUME NEW m \in Machines,
             \/ open_session(m) \/ close_session(m) \/ call_session(m)
             \/ Begin(m) \/ BeginRead(m) \/ confirm_destructive(m)
      PROVE  LocalStep(m)
  BY <1>3, OpenSessionStep, EndStep, CallSessionStep, BeginStep, BeginReadStep
<1>4. ASSUME NEW m \in Machines,
             \/ Vault_set(m) \/ Vault_delete(m) \/ Vault_move_secret(m)
             \/ Vault_set_field(m) \/ Vault_delete_field(m)
             \/ cmd_secret_write(m) \/ cmd_field_set(m) \/ cmd_field_delete(m)
             \/ cmd_secret_delete(m) \/ cmd_secret_move(m) \/ relabel_secret_vacate(m)
             \/ converge_readers(m)
      PROVE  LocalStep(m)
  BY <1>4, SecretWriteStep, SetFieldStep, DeleteFieldStep, SecretDeleteStep, SecretMoveStep,
     VacateStep, ConvergeStep
<1>5. ASSUME NEW m \in Machines,
             \/ cmd_grant_permission(m) \/ cmd_grant_delete(m)
             \/ cmd_group_create(m) \/ cmd_group_delete(m)
             \/ cmd_group_add(m) \/ cmd_group_remove(m)
             \/ add_user(m) \/ cmd_user_delete(m)
             \/ cmd_user_handle_set(m) \/ cmd_vault_name_set(m)
      PROVE  LocalStep(m)
  BY <1>5, GrantPermissionStep, GrantDeleteStep, GroupCreateStep, GroupDeleteStep, GroupAddStep,
     GroupRemoveStep, UserAddStep, UserDeleteStep, HandleSetStep, NameSetStep
<1>6. CASE \E m \in Machines : LocalStep(m)
  BY <1>6, LocalStepKeeps
<1>7. CASE \E m \in Machines : commit(m)
  BY <1>7, CommitKeeps
<1>8. CASE \E m \in Machines : git_merge(m)
  BY <1>8, MergeKeeps
<1> QED
  BY <1>1, <1>2, <1>3, <1>4, <1>5, <1>6, <1>7, <1>8 DEF Next

\* The invariant of the commands: every report is the meaning of its worktree
\* against a ratchet that has seen nothing else, whatever is running.
THEOREM CommandsInvariant == Spec => []CommandsInv
BY InitKeeps, NextKeeps, PTL DEF Spec

LEMMA InvTypeOK == CommandsInv => TypeOK
<1> SUFFICES ASSUME CommandsInv PROVE TypeOK
  OBVIOUS
<1>1. ASSUME NEW m \in Machines
      PROVE  /\ \A r \in vault[m] : r.key \in RecordKeys /\ r.counter \in 1 .. MaxCounter
             /\ default[m] \in Users \cup {None}
             /\ cmd[m].phase \in {"idle", "run", "read", "commit", "converge", "vacate", "sdk"}
  <2>1. Wellformed(vault[m])
    BY DEF CommandsInv, Reported
  <2>2. default[m] \in Users \cup {None}
    BY DEF CommandsInv
  <2>3. SessionOK(cmd[m], ratchet[m])
    BY DEF CommandsInv
  <2> QED
    BY <2>1, <2>2, <2>3, WellformedRecord DEF SessionOK
<1>2. ratchet \in [Machines -> [RecordKeys -> 0 .. MaxCounter]] /\ commits \in Nat
  BY DEF CommandsInv
<1> QED
  BY <1>1, <1>2 DEF TypeOK

\* Whatever people issue on whichever machines, every counter in a worktree and
\* in a ratchet is within MAX_LWW_COUNTER, and every record has a key.
THEOREM CommandsTypeCorrect == Spec => []TypeOK
BY CommandsInvariant, InvTypeOK, PTL

\* The newest record a worktree shows at a key is as new as the ratchet.
LEMMA ShownAsNew ==
    ASSUME CommandsInv, NEW m \in Machines, Authoritative(report[m]), NEW r \in Shown(m)
    PROVE  \E w \in Shown(m) : w.key = r.key /\ w.counter >= ratchet[m][r.key]
<1>1. PICK V, t, e : V = vault[m] /\ t = ratchet[m] /\ e = report[m]
  OBVIOUS
<1>2. Reported(V, t, e) /\ Authoritative(e)
  BY <1>1 DEF CommandsInv
<1>3. Wellformed(V) /\ t \in [RecordKeys -> 0 .. MaxCounter]
  BY <1>2 DEF Reported
<1>4. ASSUME NEW w, w.key = r.key, w.key \in RecordKeys, w.key \notin e.rolled, w.counter \in Int,
             w.counter >= Marks(V)[w.key]
      PROVE  w.counter >= t[w.key]
  <2>1. Marks(V)[w.key] >= t[w.key]
    BY <1>2, <1>4, MarksNotBehind
  <2>2. Marks(V)[w.key] \in 0 .. MaxCounter /\ t[w.key] \in 0 .. MaxCounter
    BY <1>3, <1>4, MarksFacts
  <2> QED
    BY <1>4, <2>1, <2>2
<1>5. CASE r \in e.secrets \cup e.names \cup e.grants
  <2>1. r \in verified_records(V) /\ r.key \notin e.rolled /\ r.counter >= Marks(V)[r.key]
    BY <1>2, <1>5, ShownNotRolled, ShownNotBehind
  <2>2. r.key \in RecordKeys /\ r.counter \in Int
    BY <1>3, <2>1, VerifiedOrigin
  <2> QED
    BY <1>1, <1>4, <2>1, <2>2
<1>6. CASE r \in cmd_user_list(m)
  <2>1. r \in V /\ Kind(r) = "user" /\ About(r) \in e.users \ {rootUser}
    BY <1>1, <1>6 DEF cmd_user_list, OfKind
  <2>2. r.key \in RecordKeys
    BY <1>3, <2>1, WellformedRecord
  <2>3. r.key = <<"user", <<About(r)>>>>
    BY <2>1, <2>2, KeyShapes DEF Kind, About
  <2>4. PICK w \in V : w.key = <<"user", <<About(r)>>>> /\ w.live /\ w.counter >= Marks(V)[w.key]
    BY <1>2, <2>1, ShownNotBehind
  <2>5. r.key \notin e.rolled
    BY <1>2, <2>1, <2>3, ShownNotRolled
  <2>6. w.counter \in Int
    BY <1>3, WellformedRecord
  <2>7. w.counter >= t[w.key]
    BY <1>4, <2>2, <2>3, <2>4, <2>5, <2>6
  <2>8. w \in cmd_user_list(m)
    BY <1>1, <2>1, <2>3, <2>4 DEF cmd_user_list, OfKind, Kind, About
  <2> QED
    BY <1>1, <2>3, <2>4, <2>7, <2>8 DEF Shown
<1>7. CASE r \in cmd_group_list(m)
  <2>1. r \in V /\ Kind(r) = "member" /\ Id(r) \in e.members
    BY <1>1, <1>7 DEF cmd_group_list, OfKind
  <2>2. r.key \in RecordKeys
    BY <1>3, <2>1, WellformedRecord
  <2>3. r.key = <<"member", Id(r)>>
    BY <2>1, <2>2, KeyShapes DEF Kind, Id
  <2>4. PICK w \in V : w.key = <<"member", Id(r)>> /\ w.live /\ w.counter >= Marks(V)[w.key]
    <3>1. PICK id \in e.members : id = Id(r)
      BY <2>1
    <3>2. \E w \in V : w.key = <<"member", id>> /\ w.live /\ w.counter >= Marks(V)[w.key]
      BY <1>2, ShownNotBehind
    <3> QED
      BY <3>1, <3>2
  <2>5. r.key \notin e.rolled
    BY <1>2, <2>1, <2>3, ShownNotRolled
  <2>6. w.counter \in Int
    BY <1>3, WellformedRecord
  <2>7. w.counter >= t[w.key]
    BY <1>4, <2>2, <2>3, <2>4, <2>5, <2>6
  <2>8. w \in cmd_group_list(m)
    BY <1>1, <2>1, <2>3, <2>4 DEF cmd_group_list, OfKind, Kind, Id
  <2> QED
    BY <1>1, <2>3, <2>4, <2>7, <2>8 DEF Shown
<1> QED
  BY <1>1, <1>5, <1>6, <1>7 DEF Shown, cmd_grant_list, cmd_vault_show

\* Nothing is shown at a key behind the ratchet.
LEMMA ShownKeys ==
    ASSUME CommandsInv, NEW m \in Machines, NEW r \in Shown(m)
    PROVE  r.key \notin report[m].rolled /\ r.key \in RecordKeys /\ r.counter \in 0 .. MaxCounter
<1>1. PICK V, t, e : V = vault[m] /\ t = ratchet[m] /\ e = report[m]
  OBVIOUS
<1>2. Reported(V, t, e) /\ Wellformed(V)
  BY <1>1 DEF CommandsInv, Reported
<1>3. CASE r \in e.secrets \cup e.names \cup e.grants
  <2>1. r \in verified_records(V) /\ r.key \notin e.rolled
    BY <1>2, <1>3, ShownNotRolled
  <2> QED
    BY <1>1, <1>2, <2>1, VerifiedOrigin
<1>4. CASE r \in cmd_user_list(m)
  <2>1. r \in V /\ Kind(r) = "user" /\ About(r) \in e.users \ {rootUser}
    BY <1>1, <1>4 DEF cmd_user_list, OfKind
  <2>2. r.key \in RecordKeys /\ r.counter \in 1 .. MaxCounter
    BY <1>2, <2>1, WellformedRecord
  <2>3. r.key = <<"user", <<About(r)>>>>
    BY <2>1, <2>2, KeyShapes DEF Kind, About
  <2> QED
    BY <1>1, <1>2, <2>1, <2>2, <2>3, ShownNotRolled
<1>5. CASE r \in cmd_group_list(m)
  <2>1. r \in V /\ Kind(r) = "member" /\ Id(r) \in e.members
    BY <1>1, <1>5 DEF cmd_group_list, OfKind
  <2>2. r.key \in RecordKeys /\ r.counter \in 1 .. MaxCounter
    BY <1>2, <2>1, WellformedRecord
  <2>3. r.key = <<"member", Id(r)>>
    BY <2>1, <2>2, KeyShapes DEF Kind, Id
  <2> QED
    BY <1>1, <1>2, <2>1, <2>2, <2>3, ShownNotRolled
<1> QED
  BY <1>1, <1>3, <1>4, <1>5 DEF Shown, cmd_grant_list, cmd_vault_show

LEMMA InvNotBelowMemory == CommandsInv => EffectiveNotBelowMemory
<1> SUFFICES ASSUME CommandsInv, NEW m \in Machines
             PROVE  /\ \A r \in Shown(m) : r.key \notin report[m].rolled
                    /\ Authoritative(report[m]) =>
                           \A k \in {r.key : r \in Shown(m)} :
                               Highest({r.counter : r \in {x \in Shown(m) : x.key = k}})
                                   >= ratchet[m][k]
  BY DEF EffectiveNotBelowMemory
<1>1. \A r \in Shown(m) : r.key \notin report[m].rolled
  BY ShownKeys
<1>2. ASSUME Authoritative(report[m]), NEW k \in {r.key : r \in Shown(m)}
      PROVE  Highest({r.counter : r \in {x \in Shown(m) : x.key = k}}) >= ratchet[m][k]
  <2> DEFINE S == {r.counter : r \in {x \in Shown(m) : x.key = k}}
  <2>1. PICK r \in Shown(m) : r.key = k
    OBVIOUS
  <2>2. PICK w \in Shown(m) : w.key = k /\ w.counter >= ratchet[m][k]
    BY <1>2, <2>1, ShownAsNew
  <2>3. w.counter \in S
    BY <2>2
  <2>4. S \subseteq 0 .. MaxCounter
    BY ShownKeys
  <2>5. ratchet[m][k] \in 0 .. MaxCounter
    BY <2>1, ShownKeys DEF CommandsInv
  <2> HIDE DEF S
  <2>6. w.counter <= Highest(S) /\ Highest(S) \in 0 .. MaxCounter
    BY <2>3, <2>4, HighestFacts, CommandsAssumption
  <2>7. w.counter \in 0 .. MaxCounter
    BY <2>3, <2>4
  <2>8. Highest(S) >= ratchet[m][k]
    BY <2>2, <2>5, <2>6, <2>7
  <2> QED
    BY <2>8 DEF S
<1> QED
  BY <1>1, <1>2

\* Whatever is merged and whoever is revoked, no worktree shows anything older
\* than its machine has seen admitted, unless authority itself is in conflict.
THEOREM CommandsNotBelowMemory == Spec => []EffectiveNotBelowMemory
BY CommandsInvariant, InvNotBelowMemory, PTL

LEMMA InvNoOldAccess == CommandsInv => RestoredHasNoOldAccess
<1> SUFFICES ASSUME CommandsInv, NEW m \in Machines, Authoritative(report[m]), NEW x \in lost[m],
                    x.key \in ({<<"member", id>> : id \in report[m].members}
                                  \cup {g.key : g \in report[m].grants})
             PROVE  \E r \in vault[m] : r.key = x.key /\ r.live /\ r.counter > x.counter
  BY DEF RestoredHasNoOldAccess
<1>1. PICK V, t, e : V = vault[m] /\ t = ratchet[m] /\ e = report[m]
  OBVIOUS
<1>2. Reported(V, t, e) /\ Authoritative(e)
  BY <1>1 DEF CommandsInv
<1>3. Wellformed(V) /\ t \in [RecordKeys -> 0 .. MaxCounter]
  BY <1>2 DEF Reported
<1>4. x.key \in RecordKeys /\ x.counter \in Nat /\ t[x.key] > x.counter
  BY <1>1 DEF CommandsInv, LostOK
<1>5. \E r \in V : r.key = x.key /\ r.live /\ r.counter >= Marks(V)[x.key]
  <2>1. CASE x.key \in {<<"member", id>> : id \in report[m].members}
    BY <1>1, <1>2, <2>1, ShownNotBehind
  <2>2. CASE x.key \in {g.key : g \in report[m].grants}
    BY <1>1, <1>2, <2>2, ShownNotBehind
  <2> QED
    BY <2>1, <2>2
<1>6. x.key \notin e.rolled
  BY <1>1, <1>2, ShownNotRolled
<1>7. Marks(V)[x.key] >= t[x.key]
  BY <1>2, <1>4, <1>6, MarksNotBehind
<1>8. Marks(V)[x.key] \in 0 .. MaxCounter /\ t[x.key] \in 0 .. MaxCounter
  BY <1>3, <1>4, MarksFacts
<1>9. \A r \in V : r.counter \in Int
  BY <1>3, WellformedRecord
<1> QED
  BY <1>1, <1>4, <1>5, <1>7, <1>8, <1>9

\* A user who is deleted and restored has none of the memberships and grants of
\* before on that machine, unless somebody added them again.
THEOREM DeletionIsFinal == Spec => []RestoredHasNoOldAccess
BY CommandsInvariant, InvNoOldAccess, PTL

(* -------------------------- what is given out -------------------------- *)

\* The counters a command gives out are those of values of the secret.
LEMMA GetSecretReads ==
    ASSUME NEW e, NEW t, Remembers(e, t), NEW u, NEW x, NEW n,
           n \in get_secret(e, u, x) \/ n \in {r.counter : r \in secret_record(e, x)}
    PROVE  ReadFrom(e, x, n)
<1>1. PICK r \in secret_record(e, x) : n = r.counter
  BY DEF get_secret
<1>2. r \in e.secrets /\ About(r) = x
  BY <1>1 DEF secret_record, live_secret_winner
<1> QED
  BY <1>1, <1>2, SecretKey DEF ReadFrom

LEMMA GivesReads ==
    ASSUME CommandsInv, NEW i \in Machines, NEW y, NEW e, NEW t, Remembers(e, t), NEW counters,
           \A n \in counters : ReadFrom(e, y, n), Gives(i, y, counters),
           NEW m \in Machines, NEW x \in Secrets, released'[m][x] # released[m][x]
    PROVE  m = i /\ ReadFrom(e, x, released'[m][x])
<1>1. PICK n \in counters : released' = [released EXCEPT ![i][y] = n]
  BY DEF Gives
<1>2. m = i /\ x = y /\ released'[m][x] = n
  BY <1>1 DEF CommandsInv
<1> QED
  BY <1>1, <1>2

\* The newest of several counters is one of them.
LEMMA HighestReads ==
    ASSUME NEW e, NEW t, Remembers(e, t), NEW x, NEW counters, counters # {},
           \A n \in counters : ReadFrom(e, x, n)
    PROVE  ReadFrom(e, x, Highest(counters))
<1>1. counters \subseteq 0 .. MaxCounter
  BY SecretKey DEF ReadFrom
<1>2. Highest(counters) \in counters
  BY <1>1, HighestFacts, CommandsAssumption
<1> QED
  BY <1>2

\* What a step that reads promises of the machine it is on.
Reads(i) ==
    /\ Held(cmd[i])
    /\ cmd[i].phase = "read" => InMemory(cmd[i], ratchet[i])
    /\ \A m \in Machines, x \in Secrets :
          released'[m][x] # released[m][x] =>
              m = i /\ ReadFrom(cmd[i].report, x, released'[m][x])

\* A step that gives out one value of a secret, or none.
LEMMA GivingReads ==
    ASSUME CommandsInv, NEW i \in Machines,
           Held(cmd[i]), cmd[i].phase = "read" => InMemory(cmd[i], ratchet[i]), NEW y, NEW u, NEW S,
           \/ S = get_secret(cmd[i].report, u, y)
           \/ S = {r.counter : r \in secret_record(cmd[i].report, y)},
           Gives(i, y, S) \/ UNCHANGED released
    PROVE  Reads(i)
<1>1. PICK e, t : e = cmd[i].report /\ t = cmd[i].memory /\ Remembers(e, t)
  BY DEF Held
<1>2. \A n \in S : ReadFrom(e, y, n)
  BY <1>1, GetSecretReads
<1>3. ASSUME NEW m \in Machines, NEW x \in Secrets, released'[m][x] # released[m][x]
      PROVE  m = i /\ ReadFrom(e, x, released'[m][x])
  BY <1>1, <1>2, <1>3, GivesReads
<1> QED
  BY <1>1, <1>3 DEF Reads

LEMMA OpenReads ==
    ASSUME CommandsInv, NEW i \in Machines, NEW op, Open(i, op)
    PROVE  Reads(i)
<1>1. /\ Reading(i, op)
      /\ \/ Gives(i, cmd[i].cmd.on, get_secret(cmd[i].report, cmd[i].who, cmd[i].cmd.on))
         \/ UNCHANGED released
  BY Zenon DEF Open
<1> QED
  BY <1>1, ReadingWho, GivingReads

LEMMA ShowReads ==
    ASSUME CommandsInv, NEW i \in Machines, cmd_show(i)
    PROVE  Reads(i)
<1>1. /\ Reading(i, "show")
      /\ \/ Gives(i, cmd[i].cmd.on,
                  {r.counter : r \in secret_record(cmd[i].report, cmd[i].cmd.on)})
         \/ UNCHANGED released
  BY Zenon DEF cmd_show
<1> QED
  BY <1>1, ReadingWho, GivingReads

LEMMA SessionReads ==
    ASSUME CommandsInv, NEW i \in Machines, Vault_get(i) \/ Vault_fields(i)
    PROVE  Reads(i)
<1>1. PICK c \in issues : Gives(i, c.on, get_secret(cmd[i].report, cmd[i].who, c.on))
  BY DEF Vault_get, Vault_fields
<1>2. cmd[i].phase = "sdk"
  BY DEF Vault_get, Vault_fields, Phase
<1>3. Held(cmd[i])
  BY <1>2 DEF CommandsInv, SessionOK
<1> QED
  BY <1>1, <1>2, <1>3, GivingReads

LEMMA ListReads ==
    ASSUME CommandsInv, NEW i \in Machines, cmd_list(i)
    PROVE  Reads(i)
<1>e. PICK e, t : e = cmd[i].report /\ t = cmd[i].memory
  OBVIOUS
<1> DEFINE listed(x) == {r.counter : r \in {v \in secret_records(e) : About(v) = x}}
           f == [x \in Secrets |-> IF listed(x) = {} THEN released[i][x] ELSE Highest(listed(x))]
<1>1. Reading(i, "list")
  BY DEF cmd_list
<1>2. Held(cmd[i]) /\ InMemory(cmd[i], ratchet[i]) /\ Remembers(e, t)
  BY <1>e, <1>1, ReadingWho DEF Held
<1>3. released' = [released EXCEPT ![i] = f]
  BY <1>e, Zenon DEF cmd_list
<1>4. ASSUME NEW m \in Machines, NEW x \in Secrets, released'[m][x] # released[m][x]
      PROVE  m = i /\ ReadFrom(e, x, released'[m][x])
  <2>1. m = i
    <3> HIDE DEF f
    <3> QED
      BY <1>3, <1>4 DEF CommandsInv
  <2>2. released'[i] = f
    <3> HIDE DEF f
    <3> QED
      BY <1>3 DEF CommandsInv
  <2>3. listed(x) # {} /\ released'[m][x] = Highest(listed(x))
    BY <1>4, <2>1, <2>2, Zenon
  <2>4. PICK counters : counters = listed(x)
    OBVIOUS
  <2>5. ASSUME NEW n \in counters
        PROVE  ReadFrom(e, x, n)
    <3>1. PICK r \in secret_records(e) : About(r) = x /\ r.counter = n
      BY <2>4
    <3>2. r \in e.secrets
      BY <3>1 DEF secret_records
    <3> QED
      BY <1>2, <3>1, <3>2, SecretKey DEF ReadFrom
  <2>6. ReadFrom(e, x, Highest(counters))
    BY <1>2, <2>3, <2>4, <2>5, HighestReads
  <2> QED
    BY <2>1, <2>3, <2>4, <2>6
<1> QED
  BY <1>e, <1>2, <1>4 DEF Reads

LEMMA RunReads ==
    ASSUME CommandsInv, NEW i \in Machines, run_inject(i)
    PROVE  Reads(i)
<1>e. PICK e, t, u, xs : /\ e = cmd[i].report /\ t = cmd[i].memory /\ u = cmd[i].who
                         /\ xs = Asked(e, cmd[i].cmd.on)
  OBVIOUS
<1>1. /\ Reading(i, "run")
      /\ \/ /\ get_secrets_for_run(e, u, xs)
            /\ released' = [released EXCEPT ![i] =
                               [x \in Secrets |-> IF x \in xs THEN Highest(get_secret(e, u, x))
                                                  ELSE released[i][x]]]
         \/ UNCHANGED released
  BY <1>e, Zenon DEF run_inject, Asked
<1>2. Held(cmd[i]) /\ InMemory(cmd[i], ratchet[i]) /\ Remembers(e, t)
  BY <1>e, <1>1, ReadingWho DEF Held
<1>3. ASSUME NEW m \in Machines, NEW x \in Secrets, released'[m][x] # released[m][x]
      PROVE  m = i /\ ReadFrom(e, x, released'[m][x])
  <2>1. /\ m = i /\ x \in xs /\ get_secrets_for_run(e, u, xs)
        /\ released'[m][x] = Highest(get_secret(e, u, x))
    BY <1>1, <1>3 DEF CommandsInv
  <2>2. PICK counters : counters = get_secret(e, u, x)
    OBVIOUS
  <2>3. counters # {}
    <3>1. ensure_secret_decryptable(e, u, x)
      BY <2>1 DEF get_secrets_for_run
    <3>2. secret_record(e, x) # {}
      BY <3>1 DEF ensure_secret_decryptable, classify_secret_for_user
    <3> QED
      BY <2>2, <3>1, <3>2 DEF get_secret
  <2>4. \A n \in counters : ReadFrom(e, x, n)
    BY <1>2, <2>2, GetSecretReads
  <2>5. ReadFrom(e, x, Highest(counters))
    BY <1>2, <2>3, <2>4, HighestReads
  <2> QED
    BY <2>1, <2>2, <2>5
<1> QED
  BY <1>e, <1>2, <1>3 DEF Reads

\* Only what reads gives out or lists anything.
LEMMA StepsRead ==
    ASSUME CommandsInv, [Next]_vars
    PROVE  released' = released \/ \E i \in Machines : Reads(i)
<1>1. CASE UNCHANGED vars
  BY <1>1 DEF vars
<1>2. ASSUME NEW i \in Machines,
             \/ cmd_secret_get(i) \/ cmd_field_get(i) \/ cmd_field_list(i)
             \/ cmd_list(i) \/ cmd_show(i) \/ run_inject(i) \/ Vault_get(i) \/ Vault_fields(i)
      PROVE  Reads(i)
  BY <1>2, OpenReads, ListReads, ShowReads, RunReads, SessionReads
     DEF cmd_secret_get, cmd_field_get, cmd_field_list
<1>3. ASSUME NEW i \in Machines, NEW allowed, NEW new, NEW main, NEW next,
             Prepare(i, allowed, new, main, next)
      PROVE  released' = released
  BY <1>3 DEF Prepare, Fail
<1>4. ASSUME NEW i \in Machines,
             \/ open_session(i) \/ close_session(i) \/ call_session(i) \/ inspect_session(i)
             \/ Begin(i) \/ BeginRead(i) \/ confirm_destructive(i) \/ cmd_user_use(i)
             \/ git_merge(i)
      PROVE  released' = released
  BY <1>4 DEF open_session, close_session, call_session, inspect_session, Begin, BeginRead,
              confirm_destructive, cmd_user_use, git_merge
<1>5. ASSUME NEW i \in Machines,
             \/ Vault_set(i) \/ Vault_delete(i) \/ Vault_move_secret(i)
             \/ Vault_set_field(i) \/ Vault_delete_field(i)
             \/ cmd_secret_write(i) \/ cmd_field_set(i) \/ cmd_field_delete(i)
             \/ cmd_secret_delete(i) \/ cmd_secret_move(i) \/ relabel_secret_vacate(i)
      PROVE  released' = released
  <2>1. \E x, live, data, next, allowed :
            PrepareOne(i, allowed, commit_record(i, "secret", <<x>>, live, data), next)
    BY <1>5, Zenon
       DEF Vault_set, Vault_delete, Vault_move_secret, Vault_set_field, Vault_delete_field,
           cmd_secret_write, cmd_field_set, cmd_field_delete, cmd_secret_delete,
           cmd_secret_move, relabel_secret_vacate, relabel_secret, set_field, delete_field,
           set_secret_value, delete_secret
  <2> QED
    BY <1>3, <2>1 DEF PrepareOne
<1>6. ASSUME NEW i \in Machines,
             \/ cmd_grant_permission(i) \/ cmd_grant_delete(i)
             \/ cmd_group_create(i) \/ cmd_group_delete(i)
             \/ cmd_group_add(i) \/ cmd_group_remove(i)
             \/ add_user(i) \/ cmd_user_delete(i)
             \/ cmd_user_handle_set(i) \/ cmd_vault_name_set(i)
      PROVE  released' = released
  <2>1. \E allowed, new, main, next : Prepare(i, allowed, new, main, next)
    BY <1>6, Zenon
       DEF cmd_grant_permission, grant_permission, cmd_grant_delete, delete_grant,
           cmd_group_create, create_group, cmd_group_delete, delete_group, cmd_group_add,
           add_group_member, cmd_group_remove, delete_group_member, add_user, cmd_user_delete,
           delete_user, cmd_user_handle_set, set_user_handle, cmd_vault_name_set,
           set_vault_handle, PrepareOne
  <2> QED
    BY <1>3, <2>1
<1>7. ASSUME NEW i \in Machines, converge_readers(i)
      PROVE  released' = released
  <2>1. released' = released \/ \E allowed, new, main, next : Prepare(i, allowed, new, main, next)
    BY <1>7, Zenon DEF converge_readers
  <2> QED
    BY <1>3, <2>1
<1>8. ASSUME NEW i \in Machines, commit(i)
      PROVE  released' = released
  BY <1>8, Zenon DEF commit, Fail
<1> QED
  BY <1>1, <1>2, <1>4, <1>5, <1>6, <1>7, <1>8 DEF Next

LEMMA ReadsStep ==
    ASSUME CommandsInv, [Next]_vars, NEW m \in Machines, NEW x \in Secrets,
           released'[m][x] # released[m][x], Authoritative(cmd[m].report)
    PROVE  /\ released'[m][x] >= cmd[m].memory[<<"secret", <<x>>>>]
           /\ (cmd[m].phase = "read" /\ cmd[m].stored) =>
                  ratchet[m][<<"secret", <<x>>>>] >= released'[m][x]
<1>1. PICK i \in Machines : Reads(i)
  BY StepsRead
<1>2. m = i /\ ReadFrom(cmd[m].report, x, released'[m][x])
  BY <1>1 DEF Reads
<1>3. PICK n, e, t : n = released'[m][x] /\ e = cmd[m].report /\ t = cmd[m].memory
  OBVIOUS
<1>4. /\ t \in [RecordKeys -> 0 .. MaxCounter] /\ Remembers(e, t)
      /\ ReadFrom(e, x, n) /\ Authoritative(e)
  BY <1>1, <1>2, <1>3 DEF Reads, Held
<1>5. n >= t[<<"secret", <<x>>>>]
  BY <1>4, ReadAsNew
<1>6. ASSUME cmd[m].phase = "read", cmd[m].stored
      PROVE  ratchet[m][<<"secret", <<x>>>>] >= n
  BY <1>1, <1>2, <1>3, <1>4, <1>6 DEF Reads, InMemory
<1> QED
  BY <1>3, <1>5, <1>6

\* No session gives out or lists a value older than its machine remembered when
\* the session last read the vault, and what a command gave out its machine
\* remembers, whatever its other processes have loaded meanwhile.
THEOREM CommandsReadForward == Spec => ReadsNeverGoBack
<1>1. CommandsInv /\ [Next]_vars =>
          [\A m \in Machines, x \in Secrets :
              LET k == <<"secret", <<x>>>>
                  s == cmd[m]
              IN  (released'[m][x] # released[m][x] /\ Authoritative(s.report)) =>
                      /\ released'[m][x] >= s.memory[k]
                      /\ (s.phase = "read" /\ s.stored) => ratchet[m][k] >= released'[m][x]]_vars
  BY ReadsStep
<1> QED
  BY <1>1, CommandsInvariant, PTL DEF Spec, ReadsNeverGoBack
=============================================================================
