---- MODULE MCKeychain ----
EXTENDS Keychain, TLC

CONSTANTS r1, r2, u1, u2

None == [u \in Users |-> 0]
Fresh == [identity |-> [r \in Roots |-> None], current |-> [r \in Roots |-> Nobody],
          combined |-> [r \in Roots |-> NoFile], legacy |-> [u \in Users |-> NoFile],
          trust |-> [r \in Roots |-> FALSE], latest |-> [r \in Roots |-> None]]

\* The combined file of r1 holds both users, and u1's own file an older seal of it
\* as well as its only identity of r2.
OlderLayouts ==
    [Fresh EXCEPT
        !.combined[r1] = [ids |-> (u1 :> 2 @@ u2 :> 3), current |-> {u1}, odd |-> FALSE],
        !.legacy[u1] = [ids |-> (r1 :> 1 @@ r2 :> 1), rest |-> FALSE],
        !.current[r2] = u1,
        !.trust = [r \in Roots |-> TRUE],
        !.latest = (r1 :> (u1 :> 2 @@ u2 :> 3) @@ r2 :> (u1 :> 1 @@ u2 :> 0))]

\* A newer version left a record of its own in r1's file.
NewerRecords ==
    [OlderLayouts EXCEPT !.combined[r1].odd = TRUE, !.current[r1] = u1,
                         !.legacy[u1].rest = TRUE]

\* The combined file of r1 was copied back from a backup after it had been split and
\* another user selected.
RestoredBackup ==
    [OlderLayouts EXCEPT !.identity[r1] = (u1 :> 2 @@ u2 :> 3), !.current[r1] = u2]

MCStarts == {Fresh, OlderLayouts, NewerRecords, RestoredBackup}
Symmetry == Permutations(Procs)
====
