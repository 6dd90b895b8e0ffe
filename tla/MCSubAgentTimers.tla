------------------------- MODULE MCSubAgentTimers -------------------------
(* Model values for TLC. *)
EXTENDS SubAgentTimers

CONSTANTS h1, h2, a1, a2, d1, o1, o2, o3, o4

=============================================================================
