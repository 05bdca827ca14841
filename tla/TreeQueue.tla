----------------------------- MODULE TreeQueue -----------------------------
(* One message tree of messaging/trees and the queue of nodes it processes.

   A conversation is a MessageTree: a reply becomes a child node, and the tree
   processes one node at a time, the others wait in a FIFO queue.  A node is
   processed by an asyncio task (TreeQueueProcessor.process_node) that runs the
   CLI, and that takes the next node of the queue when it ends.  /stop and
   /clear change the same state from other tasks.

   asyncio switches tasks only where a coroutine really waits, and no section
   under MessageTree._lock or TreeQueueManager._lock waits while it holds the
   lock: each action below is the code between two such points.  A task is
   named by its node, because a node is given a task at most once
   (NoRequeue).                                                            *)
EXTENDS Integers, Sequences, FiniteSets, Functions

CONSTANTS Node,    \* message ids, the ids of the nodes
          Root,    \* the message that opened the conversation
          NoNode   \* Python's None

ASSUME RootIsNode == Root \in Node
ASSUME NoNodeIsNoNode == NoNode \notin Node

VARIABLES
    nodes,         \* MessageTree._nodes
    parent,        \* MessageNode.parent_id
    state,         \* MessageNode.state; "absent" before the message arrives
    session,       \* the node's CLI has told its session id
    known,         \* the tree is in TreeRepository._trees
    queue,         \* MessageTree._queue
    isProcessing,  \* MessageTree._is_processing
    currentNode,   \* MessageTree._current_node_id
    currentTask,   \* MessageTree._current_task
    task,          \* where each node's task is
    cancelReq,     \* Task.cancel() was called, CancelledError not thrown yet
    clearing,      \* branches whose /clear waits for its message deletions
    cancelled,     \* history: nodes the user cancelled
    failed         \* history: nodes whose task reported an error

treeVars    == <<nodes, parent, known>>
procVars    == <<queue, isProcessing, currentNode, currentTask>>
taskVars    == <<session, task, cancelReq>>
historyVars == <<cancelled, failed>>
vars == <<treeVars, state, procVars, taskVars, clearing, historyVars>>

-----------------------------------------------------------------------------
(* Values. *)

States == {"absent", "pending", "in_progress", "completed", "error"}
Active == {"pending", "in_progress"}

(* "scheduled": created, not stepped yet; "running": in the CLI's event loop;
   "cancelling": CancelledError thrown, waiting for the CLI process to stop;
   "cleanup": in the handler's finally, waiting for remove_session.         *)
TaskStates == {"none", "scheduled", "running", "cancelling", "cleanup", "done"}
Live       == {"scheduled", "running", "cancelling", "cleanup"}

LiveTasks == {n \in Node : task[n] \in Live}
Queued    == Range(queue)

(* The least set of members of T that holds the children of n in T and, with a
   node, its children in T.                                                 *)
Below(n, T) ==
    {m \in T : \A S \in SUBSET T :
                 {c \in T : parent[c] \in S \union {n}} \subseteq S => m \in S}

\* MessageTree.get_descendants: a node and its subtree.
Descendants(n) == {n} \union Below(n, nodes)

\* TreeRepository.get_pending_children: only pending nodes lead further down.
PendingChildren(n) == Below(n, {c \in nodes : state[c] = "pending"})

(* _SnapshotQueue.remove_if_present, for each member of S: what remains of the
   queue, in its order.  Kept(q, S) holds one function, the increasing
   enumeration of the positions that stay.                                  *)
Kept(q, S) ==
    LET stay == {i \in DOMAIN q : q[i] \notin S}
    IN  {f \in [1 .. Cardinality(stay) -> stay] :
           /\ Range(f) = stay
           /\ \A i, j \in DOMAIN f : i < j => f[i] < f[j]}

RemoveFromQueue(S) == \E f \in Kept(queue, S) :
                        queue' = [i \in DOMAIN f |-> queue[f[i]]]

\* put_queue_unlocked.
EnqueueFront(n) == queue' = <<n>> \o queue
Enqueue(n) == queue' = Append(queue, n)

\* dequeue takes Head(queue) out.
Dequeue == queue' = Tail(queue)

\* The loop of drain_queue_and_mark_cancelled.
DrainOne == queue' = IF queue = <<>> THEN queue ELSE Tail(queue)
DrainQueue == queue' = <<>>

-----------------------------------------------------------------------------
(* State changes the operations share. *)

\* MessageTree.update_state: a node that left the tree is not changed.
WithState(n, s) == IF n \in nodes THEN [state EXCEPT ![n] = s] ELSE state

\* MessageTree.set_node_error_sync for every node of S.
WithNewState(S) == [n \in Node |-> IF n \in S THEN "cancelled" ELSE state[n]]
WithErrors(S) == [n \in Node |-> IF n \in S THEN "error" ELSE state[n]]

\* TreeQueueManager.mark_node_error, with its propagation to pending children.
WithFailure(n) ==
    IF known /\ n \in nodes THEN WithErrors({n} \union PendingChildren(n))
                            ELSE state

\* MessageTree.cancel_current_task: a finished task is left alone.
ForgetTask == UNCHANGED cancelReq
CancelCurrentTask ==
    cancelReq' = [cancelReq EXCEPT
                    ![currentTask] = @ \/ task[currentTask] \in Live]

(* TreeQueueProcessor._process_next, the last thing a task does: t is task
   after this task's end.  The dequeued id becomes the current node even when
   the tree no longer has that node; a task is created only when it does.   *)
ProcessNext(t) ==
    IF queue = <<>>
    THEN /\ isProcessing' = FALSE
         /\ currentNode' = NoNode
         /\ task' = t
         /\ UNCHANGED <<queue, currentTask>>
    ELSE /\ isProcessing' = TRUE
         /\ currentNode' = Head(queue)
         /\ Dequeue
         /\ IF Head(queue) \in nodes
            THEN /\ task' = [t EXCEPT ![Head(queue)] = "scheduled"]
                 /\ currentTask' = Head(queue)
            ELSE task' = t /\ UNCHANGED currentTask

-----------------------------------------------------------------------------
(* A message opens the conversation: create_tree, then enqueue, which finds
   the tree idle and creates the root's task.                               *)
Init ==
    /\ nodes = {Root}
    /\ parent = [n \in Node |-> NoNode]
    /\ state = [n \in Node |-> IF n = Root THEN "pending" ELSE "absent"]
    /\ session = [n \in Node |-> FALSE]
    /\ known = TRUE
    /\ queue = <<>>
    /\ isProcessing = TRUE
    /\ currentNode = Root
    /\ currentTask = Root
    /\ task = [n \in Node |-> IF n = Root THEN "scheduled" ELSE "none"]
    /\ cancelReq = [n \in Node |-> FALSE]
    /\ clearing = {}
    /\ cancelled = {}
    /\ failed = {}

\* enqueue_and_start's test: is another node being processed?
BusyByState == currentNode # NoNode /\ state[currentNode] = "in_progress"
Busy == isProcessing

(* The reply n to p, once its status message is sent: add_to_tree, which
   raises when p left the tree in the meantime, and enqueue.                *)
Reply(n, p) ==
    /\ known
    /\ p \in nodes
    /\ state[n] = "absent"
    /\ nodes' = nodes \union {n}
    /\ parent' = [parent EXCEPT ![n] = p]
    /\ state' = [state EXCEPT ![n] = "pending"]
    /\ IF Busy
       THEN /\ Enqueue(n)
            /\ UNCHANGED <<isProcessing, currentNode, currentTask, task>>
       ELSE /\ isProcessing' = TRUE
            /\ currentNode' = n
            /\ currentTask' = n
            /\ task' = [task EXCEPT ![n] = "scheduled"]
            /\ UNCHANGED queue
    /\ UNCHANGED <<known, session, cancelReq, clearing, historyVars>>

-----------------------------------------------------------------------------
(* The steps of a node's task. *)

\* process_node's test of the node before it starts the CLI.
Unchecked(n) == FALSE
InError(n) == state[n] = "error"

\* The first step of process_node, for a node not in ERROR.
Start(n) ==
    /\ task[n] = "scheduled"
    /\ ~cancelReq[n]
    /\ ~InError(n)
    /\ task' = [task EXCEPT ![n] = "running"]
    /\ state' = IF known THEN WithState(n, "in_progress") ELSE state
    /\ UNCHANGED <<treeVars, procVars, session, cancelReq, clearing, historyVars>>

\* The first step of process_node, for a node already in ERROR.
SkipOnly(n) ==
    /\ task[n] = "scheduled"
    /\ ~cancelReq[n]
    /\ InError(n)
    /\ task' = [task EXCEPT ![n] = "done"]
    /\ UNCHANGED <<treeVars, state, procVars, session, cancelReq, clearing, historyVars>>
Skip(n) ==
    /\ task[n] = "scheduled"
    /\ ~cancelReq[n]
    /\ InError(n)
    /\ ProcessNext([task EXCEPT ![n] = "done"])
    /\ UNCHANGED <<treeVars, state, session, cancelReq, clearing, historyVars>>

(* asyncio throws CancelledError into a task that has not run yet at its first
   line: process_node's try is never entered, so _process_next never runs.  *)
DieUnstarted(n) ==
    /\ task[n] = "scheduled"
    /\ cancelReq[n]
    /\ task' = [task EXCEPT ![n] = "done"]
    /\ cancelReq' = [cancelReq EXCEPT ![n] = FALSE]
    /\ UNCHANGED <<treeVars, state, procVars, session, clearing, historyVars>>

\* A CLI event can reach the handler: the task waits in start_task.
Listening(n) == task[n] = "running" /\ ~cancelReq[n]

\* The CLI's first event with a session id (_handle_session_info_event).
SessionInfo(n) ==
    /\ Listening(n)
    /\ ~session[n]
    /\ session' = [session EXCEPT ![n] = TRUE]
    /\ state' = WithState(n, "in_progress")
    /\ UNCHANGED <<treeVars, procVars, task, cancelReq, clearing, historyVars>>

\* An error event, or the CLI's stderr read before its exit code.
ErrorEvent(n) ==
    /\ Listening(n)
    /\ state' = WithFailure(n)
    /\ failed' = failed \union {n}
    /\ UNCHANGED <<treeVars, procVars, taskVars, clearing, cancelled>>

\* The CLI exits with code 0: a "complete" event.
ExitOk(n) ==
    /\ Listening(n)
    /\ state' = IF session[n] THEN WithState(n, "completed") ELSE state
    /\ task' = [task EXCEPT ![n] = "cleanup"]
    /\ UNCHANGED <<treeVars, procVars, session, cancelReq, clearing, historyVars>>

\* The CLI exits with another code: an "error" and then a "complete" event.
ExitFail(n) ==
    /\ Listening(n)
    /\ state' = IF session[n] /\ n \in nodes
                THEN [WithFailure(n) EXCEPT ![n] = "completed"]
                ELSE WithFailure(n)
    /\ failed' = failed \union {n}
    /\ task' = [task EXCEPT ![n] = "cleanup"]
    /\ UNCHANGED <<treeVars, procVars, session, cancelReq, clearing, cancelled>>

\* The CLI cannot be started, or an event handler raises.
Raise(n) ==
    /\ Listening(n)
    /\ state' = WithFailure(n)
    /\ failed' = failed \union {n}
    /\ task' = [task EXCEPT ![n] = "cleanup"]
    /\ UNCHANGED <<treeVars, procVars, session, cancelReq, clearing, cancelled>>

\* CancelledError reaches start_task, which stops the process under a shield.
DeliverCancel(n) ==
    /\ task[n] = "running"
    /\ cancelReq[n]
    /\ task' = [task EXCEPT ![n] = "cancelling"]
    /\ cancelReq' = [cancelReq EXCEPT ![n] = FALSE]
    /\ UNCHANGED <<treeVars, state, procVars, session, clearing, historyVars>>

\* The process is gone (or the wait was cancelled too): the handler's except.
CancelDone(n) ==
    /\ task[n] = "cancelling"
    /\ task' = [task EXCEPT ![n] = "cleanup"]
    /\ cancelReq' = [cancelReq EXCEPT ![n] = FALSE]
    /\ state' = WithState(n, "error")
    /\ UNCHANGED <<treeVars, procVars, session, clearing, historyVars>>

\* remove_session is over (or cancelled): the finally of process_node.
Release(n) ==
    /\ task[n] = "cleanup"
    /\ ProcessNext([task EXCEPT ![n] = "done"])
    /\ cancelReq' = [cancelReq EXCEPT ![n] = FALSE]
    /\ UNCHANGED <<treeVars, state, session, clearing, historyVars>>

-----------------------------------------------------------------------------
(* The user's commands. *)

\* "/stop" in reply to n: TreeQueueManager.cancel_node.
CancelNode(n) ==
    /\ known
    /\ n \in nodes
    /\ state[n] \in Active
    /\ IF currentNode = n THEN CancelCurrentTask ELSE UNCHANGED cancelReq
    /\ RemoveFromQueue({n})
    /\ state' = WithErrors({n})
    /\ cancelled' = cancelled \union {n}
    /\ UNCHANGED <<treeVars, isProcessing, currentNode, currentTask, session,
                   task, clearing, failed>>

\* TreeQueueManager.cancel_tree.
CancelAllNodes ==
    LET active == {n \in nodes : state[n] \in Active}
    IN  /\ CancelCurrentTask
        /\ DrainQueue
        /\ state' = WithErrors(active \union (nodes \intersect Queued))
        /\ isProcessing' = FALSE
        /\ currentNode' = NoNode
        /\ cancelled' = cancelled \union active
        /\ UNCHANGED <<currentTask, session, task, failed>>

\* "/stop" on its own: cancel_all reaches the tree.
CancelTree ==
    /\ known
    /\ CancelAllNodes
    /\ UNCHANGED <<treeVars, clearing>>

(* "/clear" in reply to b, up to its first wait: cancel_branch.  A node of the
   branch that is already in a final state stays in the queue.              *)
ClearBranchBegin(b) ==
    LET active == {n \in Descendants(b) : state[n] \in Active}
    IN  /\ known
        /\ b \in nodes
        /\ IF currentNode \in active THEN CancelCurrentTask ELSE UNCHANGED cancelReq
        /\ RemoveFromQueue(active \ {currentNode})
        /\ state' = WithErrors(active)
        /\ cancelled' = cancelled \union active
        /\ clearing' = clearing \union {b}
        /\ UNCHANGED <<treeVars, isProcessing, currentNode, currentTask, session,
                       task, failed>>

(* The messages are deleted: remove_branch, which leaves the queue, the current
   node and the tasks as they are.                                          *)
RemoveBranch(b) ==
    /\ b \in clearing
    /\ b # Root
    /\ clearing' = clearing \ {b}
    /\ nodes' = IF known /\ b \in nodes THEN nodes \ Descendants(b) ELSE nodes
    /\ UNCHANGED <<parent, known, state, procVars, taskVars, historyVars>>

\* The same for the root: cancel_tree, and the repository forgets the tree.
RemoveTree ==
    /\ Root \in clearing
    /\ clearing' = clearing \ {Root}
    /\ known' = FALSE
    /\ UNCHANGED <<nodes, parent>>
    /\ IF known THEN CancelAllNodes
                ELSE UNCHANGED <<state, procVars, taskVars, historyVars>>

-----------------------------------------------------------------------------
(* Specifications. *)

TaskStep(n) == \/ Start(n) \/ Skip(n) \/ DieUnstarted(n) \/ DeliverCancel(n)
               \/ CancelDone(n) \/ Release(n)

CliEvent(n) == SessionInfo(n) \/ ErrorEvent(n)
CliEnd(n)   == ExitOk(n) \/ ExitFail(n) \/ Raise(n)

ClearBranchEnd(b) == RemoveBranch(b) \/ (b = Root /\ RemoveTree)

(* What the users and the platform may do is narrowed by three conditions:
   patient: no reply comes between a /stop and the end of the task it stopped;
   started: no /stop or /clear of one branch comes while the tree's task has
            been created but not stepped;
   tidy:    no /clear removes a node that is still in the queue.            *)
Step(patient, started, tidy) ==
    \/ \E n \in Node :
         \/ TaskStep(n)
         \/ CliEvent(n)
         \/ CliEnd(n)
         \/ /\ patient => isProcessing \/ LiveTasks = {}
            /\ \E p \in Node : Reply(n, p)
         \/ /\ started => task[currentTask] # "scheduled"
            /\ CancelNode(n) \/ ClearBranchBegin(n)
         \/ /\ tidy => n = Root \/ Descendants(n) \intersect Queued = {}
            /\ ClearBranchEnd(n)
    \/ CancelTree

Next == Step(FALSE, FALSE, FALSE)
Spec == Init /\ [][Next]_vars

PatientNext == Step(TRUE, FALSE, FALSE)
PatientSpec == Init /\ [][PatientNext]_vars

StartedNext == Step(TRUE, TRUE, FALSE)
StartedSpec == Init /\ [][StartedNext]_vars

(* The event loop runs every task that can step, and every CLI process ends. *)
Fairness == \A n \in Node : WF_vars(TaskStep(n)) /\ WF_vars(CliEnd(n))

CarefulNext == Step(TRUE, TRUE, TRUE)
CarefulSpec == Init /\ [][CarefulNext]_vars /\ Fairness

-----------------------------------------------------------------------------
(* Properties. *)

\* Every variable holds values of its type.
TypeOK ==
    /\ nodes \subseteq Node
    /\ parent \in [Node -> Node \union {NoNode}]
    /\ state \in [Node -> States]
    /\ session \in [Node -> BOOLEAN]
    /\ known \in BOOLEAN
    /\ queue \in Seq(Node)
    /\ isProcessing \in BOOLEAN
    /\ currentNode \in Node \union {NoNode}
    /\ currentTask \in Node
    /\ task \in [Node -> TaskStates]
    /\ cancelReq \in [Node -> BOOLEAN]
    /\ clearing \subseteq Node
    /\ cancelled \subseteq Node
    /\ failed \subseteq Node

(* Nobody waits in an idle tree: enqueue_and_start puts a node in the queue
   only while another is processed, and _process_next and cancel_tree leave
   the busy state only with the queue empty.                                *)
QueueGuarded == queue # <<>> => isProcessing

(* A node is processed once: a queued node has had no task, and is in the
   queue once (enqueue_and_start, _process_next, cancel_tree, cancel_node). *)
NoRequeue ==
    /\ \A i \in DOMAIN queue : task[queue[i]] = "none"
    /\ \A i, j \in DOMAIN queue : queue[i] = queue[j] => i = j

(* The tasks of a tree do not overlap, their cleanup included: one is created
   when the one before has ended (process_node, enqueue_and_start).         *)
SingleRunner == \A m, n \in LiveTasks : m = n

(* "Per-tree queue ensures ordered processing" (handler.py:117): two nodes of a
   tree do not listen to a CLI at the same time.                            *)
OneCliAtATime == \A m, n \in Node : Listening(m) /\ Listening(n) => m = n

(* A reply is processed after the message it answers: while a node is being
   processed, the node it replies to is neither waiting nor processed, so its
   session id is there to be forked (get_parent_session_id).                *)
ParentBeforeChild ==
    \A n \in LiveTasks : /\ parent[n] \notin LiveTasks
                         /\ parent[n] \notin Queued

(* What the user stopped stays stopped: no later event of the CLI, and no end
   of its task, makes a cancelled node look in progress or completed.       *)
CancelledStaysCancelled == \A n \in cancelled : state[n] = "error"

(* A node that reported an error is not shown as a success ("COMPLETED =
   Processing finished successfully", data.py:65).                          *)
FailedNotCompleted == \A n \in failed : state[n] # "completed"

(* "IN_PROGRESS = Currently being processed by Claude" (data.py:63): a node in
   progress has a task.                                                     *)
InProgressHasTask == \A n \in Node : state[n] = "in_progress" => n \in LiveTasks

(* "Check if tree is currently processing a message" (is_processing,
   data.py:186): the tree is busy only while a task works for it, so that
   somebody will take the next node of the queue.                           *)
BusyHasTask == isProcessing => LiveTasks # {}

(* A node put in ERROR before its first step is never processed, whoever
   failed or cancelled it (process_node's check of the state).              *)
ErrorNeverStarts ==
    [][\A n \in Node : (state[n] = "error" /\ task[n] \in {"none", "scheduled"})
                         => state'[n] = "error" /\ task'[n] # "running"]_vars

(* Nodes are processed in the order they were sent: a node gets its task as
   the head of the queue, or with nobody waiting.                           *)
StartInOrder ==
    [][\A n \in Node : (task[n] = "none" /\ task'[n] = "scheduled")
                         => queue = <<>> \/ n = Head(queue)]_vars

=============================================================================
