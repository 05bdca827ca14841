------------------------ MODULE MCMessagingLimiter ------------------------
(* Small instances of MessagingLimiter: the calls are edits of one message, and
   one more call concerns another.                                          *)
EXTENDS MessagingLimiter, TLC

CONSTANTS other,   \* the call about the other message
          k1, k2   \* the keys of the two messages

Edits == [c \in Call |-> IF c = other THEN k2 ELSE k1]

\* The calls for the same message are interchangeable.
SameMessage == Permutations(Call \ {other})
=============================================================================
