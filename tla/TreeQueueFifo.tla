--------------------------- MODULE TreeQueueFifo ---------------------------
(* TreeQueue implements FifoServer, for users who are patient, and serves
   everyone for users who are also careful (the conditions of Step).        *)
EXTENDS TreeQueue

(* A node in ERROR that no task has begun to process is already gone: its task,
   if it gets one, skips it.                                                *)
WaitingNodes == {n \in Queued : state[n] # "error"}
Ahead(m, n) == \E i, j \in DOMAIN queue : i < j /\ queue[i] = m /\ queue[j] = n
Waiting == [n \in WaitingNodes |-> {m \in WaitingNodes : Ahead(m, n)}]

Served  == {n \in LiveTasks : task[n] # "scheduled" \/ state[n] # "error"}
Serving == IF Served = {} THEN NoNode ELSE CHOOSE n \in Served : TRUE

Arrived == {n \in Node : state[n] # "absent"}
Gone    == Arrived \ (WaitingNodes \union Served)

Fifo == INSTANCE FifoServer WITH Job <- Node, None <- NoNode,
                                 waiting <- Waiting, serving <- Serving, gone <- Gone

(* One at a time, in the order of arrival, at most once
   (enqueue_and_start, _process_next, mark_node_error, cancel_tree).        *)
FifoSafe == Fifo!SafeSpec

\* The same, and nobody waits or is served for ever.
FifoLive == Fifo!Spec
=============================================================================
