--------------------------- MODULE MCCLISessions ---------------------------
(* CLISessions for TLC: two tasks, all sessions stopped once.               *)
EXTENDS CLISessions, TLC

=============================================================================
