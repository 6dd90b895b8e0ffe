--------------------------- MODULE MCTaskService ---------------------------
(* Model values and bounds for TLC. *)
EXTENDS TaskService, TLC

CONSTANTS t1, t2, d1, d2, h1, h2

\* t2 is not described for d2 (Bert on an RK3588).
OnePair  == {<<t1, d1>>}

HandlerSymmetry == Permutations(Handler)

=============================================================================
