--------------------------- MODULE MCController ---------------------------
(* Instances of Controller for TLC. *)
EXTENDS Controller

CONSTANTS r1, r2

One(at, e, f) ==
  [at |-> at, replicas |-> {r1}, projecting |-> TRUE, edits |-> e, faults |-> f]

Two(at, e, f) == [One(at, e, f) EXCEPT !.replicas = {r1, r2}, !.projecting = FALSE]

(* One replica: an enrollment, what may follow on one, and publications in  *)
(* any order.  Two that lead at the same time: a new version or a replay    *)
(* between any two of their steps.                                          *)
MCStarts ==
  {One("fresh", 3, 1), One("enrolled", 2, 1), One("enrolled", 3, 0),
   Two("enrolled", 2, 0)}
=============================================================================
