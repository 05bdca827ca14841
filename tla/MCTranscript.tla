---------------------------- MODULE MCTranscript ----------------------------
(* Transcript for TLC: two Tasks, the second with no id of its own until its
   result, and a tool whose id is like nothing else.                        *)
EXTENDS Transcript

CONSTANTS t1, t2, r1, idT1, idT2, idR1

Ids1     == (t1 :> idT1) @@ (t2 :> NoId) @@ (r1 :> idR1)
Results1 == (t1 :> idT1) @@ (t2 :> idT2) @@ (r1 :> idR1)

=============================================================================
