----------------------------- MODULE MCRealtime -----------------------------
(* Realtime for TLC: a task, a message of the bot, and a client with a
   queue of two messages.                                                   *)
EXTENDS Realtime
CONSTANTS c1, t1
=============================================================================
