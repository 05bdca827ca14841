-------------------------- MODULE MCMessageHandler --------------------------
(* MessageHandler for TLC.                                                  *)
EXTENDS MessageHandler, TLC

\* Which message is which does not matter, apart from the voice notes.
Symmetry == Permutations(Message \ Voice) \union Permutations(Voice)

=============================================================================
