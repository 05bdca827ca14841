---------------------------- MODULE MCTreeQueue ----------------------------
(* Small instances of TreeQueue: a conversation of at most Cardinality(Node)
   messages.                                                                *)
EXTENDS TreeQueueFifo, TLC

\* The replies are interchangeable; the root is not.
Replies == Permutations(Node \ {Root})

(* The history variables are written and never read, so the runs whose
   properties do not name them need not tell states apart by them.          *)
NoHistory == <<treeVars, state, procVars, taskVars, clearing>>

(* Kept is the filter of the Sequences module, written so that the provers can
   use it.                                                                  *)
ASSUME KeptIsSelectSeq ==
    \A q \in UNION {[1 .. k -> Node] : k \in 0 .. 3}, S \in SUBSET Node :
        {[i \in DOMAIN f |-> q[f[i]]] : f \in Kept(q, S)}
            = {SelectSeq(q, LAMBDA m : m \notin S)}
=============================================================================
