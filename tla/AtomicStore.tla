---------------------------- MODULE AtomicStore ----------------------------
(***************************************************************************)
(* What the durable transactions of thorax-ops promise: the vault file of  *)
(* a worktree and the machine's rollback memory (the ratchet) change in    *)
(* one step.  Module Transaction implements it with a journal, two file    *)
(* writes and crash recovery.                                              *)
(*                                                                         *)
(* The last commit stays in doubt until it has settled: until then it can  *)
(* be abandoned, and it wins over what git puts in its place meanwhile.    *)
(***************************************************************************)
EXTENDS Naturals

CONSTANTS Workspaces, Keys, Images, Genesis, Watermarks, Clean, Successors, Nothing

VARIABLES
    vault,     \* the vault each worktree has
    trust,     \* per key, the highest counter this machine vouches for
    inDoubt,   \* the commit that has not settled yet
    edits      \* changes git has made

avars == <<vault, trust, inDoubt, edits>>

\* Nothing trust vouches for is missing from r.
Keeps(r) == \A k \in Keys : trust[k] <= r[k]

\* r is what trust becomes when the image u, committed on top of v, is
\* absorbed: nothing is made up, and every counter of u is remembered.
Absorbs(r, v, u) ==
    \A k \in Keys :
        /\ Watermarks[u][k] <= r[k]
        /\ r[k] \in {trust[k], Watermarks[v][k], Watermarks[u][k]}

AInit ==
    /\ vault = [w \in Workspaces |-> Genesis]
    /\ trust = Watermarks[Genesis]
    /\ inDoubt = Nothing
    /\ edits = 0

\* A commit: built on the current vault, remembered at once.
ACommit(w, u) ==
    /\ inDoubt = Nothing
    /\ vault[w] \in Clean
    /\ u \in Successors[vault[w]] \cap Clean
    /\ vault' = [vault EXCEPT ![w] = u]
    /\ Keeps(trust') /\ Absorbs(trust', vault[w], u)
    /\ inDoubt' = [at |-> w, before |-> vault[w], next |-> u]
    /\ UNCHANGED edits

\* The commit has settled: it is what the worktree holds.
ASettle ==
    /\ inDoubt # Nothing
    /\ vault[inDoubt.at] = inDoubt.next
    /\ inDoubt' = Nothing
    /\ UNCHANGED <<vault, trust, edits>>

\* The user gives up a commit; the rollback memory keeps it.
AAbandon ==
    /\ inDoubt # Nothing
    /\ \/ UNCHANGED vault
       \/ /\ vault[inDoubt.at] = inDoubt.next
          /\ vault' = [vault EXCEPT ![inDoubt.at] = inDoubt.before]
    /\ inDoubt' = Nothing
    /\ UNCHANGED <<trust, edits>>

\* The commit in doubt overwrites what git has put in its place.
AReassert ==
    /\ inDoubt # Nothing
    /\ vault' = [vault EXCEPT ![inDoubt.at] = inDoubt.next]
    /\ UNCHANGED <<trust, inDoubt, edits>>

\* Git replaces a vault file.
AEdit(w, v) ==
    /\ vault' = [vault EXCEPT ![w] = v]
    /\ edits' = edits + 1
    /\ UNCHANGED <<trust, inDoubt>>

\* Seeing a clean vault raises the memory, never lowers it.
ARaise(v) ==
    /\ inDoubt = Nothing
    /\ Keeps(trust')
    /\ \A k \in Keys : trust'[k] \in {trust[k], Watermarks[v][k]}
    /\ UNCHANGED <<vault, inDoubt, edits>>

\* The user forgets: one key, or everything one vault does not show.
AForget(v) ==
    /\ inDoubt = Nothing
    /\ \/ trust' = Watermarks[v]
       \/ \E k \in Keys : trust' = [trust EXCEPT ![k] = Watermarks[v][k]]
    /\ UNCHANGED <<vault, inDoubt, edits>>

ANext ==
    \/ \E w \in Workspaces, u \in Images : ACommit(w, u) \/ AEdit(w, u)
    \/ ASettle \/ AAbandon \/ AReassert
    \/ \E v \in Images : ARaise(v) \/ AForget(v)

Spec == AInit /\ [][ANext]_avars
=============================================================================
