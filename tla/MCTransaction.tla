--------------------------- MODULE MCTransaction ---------------------------
(***************************************************************************)
(* Instances of Transaction for TLC.  An image is the counter each key     *)
(* shows and who wrote it last, so that two worktrees can reach the same   *)
(* counters with different bytes; one image does not validate.             *)
(***************************************************************************)
EXTENDS Transaction

CONSTANTS MaxCounter, Writers, broken, noone

Valid == [shows : [Keys -> 0 .. MaxCounter], by : Writers]
MCGenesis == [shows |-> [k \in Keys |-> 0], by |-> noone]
MCClean == Valid \cup {MCGenesis}
MCImages == MCClean \cup {broken}
MCWatermarks ==
    [v \in MCImages |-> IF v = broken THEN [k \in Keys |-> 0] ELSE v.shows]

\* An update appends one record at the next counter (next_counter).
NextCounter(v) ==
    1 + CHOOSE n \in 0 .. MaxCounter :
            /\ \E k \in Keys : v.shows[k] = n
            /\ \A k \in Keys : v.shows[k] <= n

MCSuccessors ==
    [v \in MCImages |->
        IF v = broken THEN {}
        ELSE {[shows |-> [v.shows EXCEPT ![k] = NextCounter(v)], by |-> w]
                 : k \in Keys, w \in Writers} \cap MCClean]

\* A worktree for each process.
CONSTANTS p1, p2, w1, w2
Apart    == [p \in {p1, p2} |-> IF p = p1 THEN w1 ELSE w2]
=============================================================================
