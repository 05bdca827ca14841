-------------------------- MODULE TreeQueue_proofs --------------------------
(* Proofs about TreeQueue, for every set of messages. *)
EXTENDS TreeQueueFifo, FiniteSetTheorems, SequenceTheorems, TLAPS

-----------------------------------------------------------------------------
(* Lemmas about the operators. *)

\* What stays in the queue after remove_if_present is a sequence of its members.
LEMMA KeptType ==
    ASSUME NEW q \in Seq(Node), NEW S, NEW f \in Kept(q, S)
    PROVE  /\ [i \in DOMAIN f |-> q[f[i]]] \in Seq(Node)
           /\ \A i \in DOMAIN f : f[i] \in DOMAIN q
<1> DEFINE stay == {i \in DOMAIN q : q[i] \notin S}
<1>1. IsFiniteSet(DOMAIN q)
  BY FS_Interval, LenProperties
<1>2. Cardinality(stay) \in Nat
  BY <1>1, FS_Subset, FS_CardinalityType
<1>3. f \in [1 .. Cardinality(stay) -> stay]
  BY DEF Kept
<1>4. \A i \in DOMAIN f : f[i] \in DOMAIN q /\ q[f[i]] \in Node
  BY <1>3
<1>5. QED
  BY <1>2, <1>3, <1>4, IsASeq

\* _process_next keeps the types and starts at most one task.
LEMMA ProcessNextType ==
    ASSUME TypeOK, NEW t \in [Node -> TaskStates], ProcessNext(t)
    PROVE  /\ queue' \in Seq(Node)
           /\ isProcessing' \in BOOLEAN
           /\ currentNode' \in Node \union {NoNode}
           /\ currentTask' \in Node
           /\ task' \in [Node -> TaskStates]
<1>1. CASE queue = <<>>
  BY <1>1 DEF ProcessNext, TypeOK, Dequeue
<1>2. CASE queue # <<>>
  <2>1. Head(queue) \in Node /\ Tail(queue) \in Seq(Node)
    BY <1>2, HeadTailProperties DEF TypeOK
  <2>2. QED
    BY <1>2, <2>1 DEF ProcessNext, TypeOK, TaskStates, Dequeue
<1>3. QED
  BY <1>1, <1>2

LEMMA WithStateType ==
    ASSUME TypeOK, NEW n \in Node, NEW s \in States
    PROVE  WithState(n, s) \in [Node -> States]
BY DEF TypeOK, WithState

LEMMA WithErrorsType ==
    ASSUME TypeOK, NEW S
    PROVE  WithErrors(S) \in [Node -> States]
BY DEF TypeOK, WithErrors, States

LEMMA WithFailureType ==
    ASSUME TypeOK, NEW n \in Node
    PROVE  WithFailure(n) \in [Node -> States]
BY WithErrorsType DEF TypeOK, WithFailure

LEMMA CancelType ==
    ASSUME TypeOK, CancelCurrentTask
    PROVE  cancelReq' \in [Node -> BOOLEAN]
BY DEF TypeOK, CancelCurrentTask

\* remove_if_present of any set of nodes.
LEMMA RemoveFromQueueType ==
    ASSUME TypeOK, NEW S, RemoveFromQueue(S)
    PROVE  queue' \in Seq(Node)
BY KeptType DEF TypeOK, RemoveFromQueue

LEMMA CancelAllNodesType ==
    ASSUME TypeOK, CancelAllNodes
    PROVE  /\ state' \in [Node -> States]
           /\ queue' \in Seq(Node)
           /\ isProcessing' \in BOOLEAN
           /\ currentNode' \in Node \union {NoNode}
           /\ currentTask' \in Node
           /\ session' \in [Node -> BOOLEAN]
           /\ task' \in [Node -> TaskStates]
           /\ cancelReq' \in [Node -> BOOLEAN]
           /\ cancelled' \subseteq Node
           /\ failed' \subseteq Node
<1>1. state' \in [Node -> States]
  BY WithErrorsType DEF CancelAllNodes
<1>2. cancelReq' \in [Node -> BOOLEAN]
  BY CancelType DEF CancelAllNodes
<1>3. queue' \in Seq(Node)
  BY EmptySeq DEF CancelAllNodes, DrainQueue
<1>4. QED
  BY <1>1, <1>2, <1>3 DEF CancelAllNodes, TypeOK

-----------------------------------------------------------------------------
(* Type correctness. *)

LEMMA TypingInit == Init => TypeOK
BY RootIsNode, EmptySeq DEF Init, TypeOK, States, TaskStates

\* Whatever the users do, every step keeps the types.
LEMMA TypingStep ==
    ASSUME TypeOK,
           NEW patient \in BOOLEAN, NEW started \in BOOLEAN, NEW tidy \in BOOLEAN,
           [Step(patient, started, tidy)]_vars
    PROVE  TypeOK'
<1> USE DEF treeVars, procVars, taskVars, historyVars
<1>1. ASSUME NEW n \in Node, NEW p \in Node, Reply(n, p)
      PROVE  TypeOK'
  <2>1. Append(queue, n) \in Seq(Node)
    BY AppendProperties DEF TypeOK
  <2>2. QED
    BY <1>1, <2>1 DEF Reply, TypeOK, States, TaskStates, Busy, Enqueue
<1>2. ASSUME NEW n \in Node, Start(n)
      PROVE  TypeOK'
  <2>1. WithState(n, "in_progress") \in [Node -> States]
    BY WithStateType DEF States
  <2>2. QED
    BY <1>2, <2>1 DEF Start, TypeOK, TaskStates
<1>3. ASSUME NEW n \in Node, Skip(n)
      PROVE  TypeOK'
  <2>1. [task EXCEPT ![n] = "done"] \in [Node -> TaskStates]
    BY DEF TypeOK, TaskStates
  <2>2. QED
    BY <1>3, <2>1, ProcessNextType DEF Skip, TypeOK
<1>4. ASSUME NEW n \in Node, DieUnstarted(n)
      PROVE  TypeOK'
  BY <1>4 DEF DieUnstarted, TypeOK, TaskStates
<1>5. ASSUME NEW n \in Node, SessionInfo(n)
      PROVE  TypeOK'
  <2>1. WithState(n, "in_progress") \in [Node -> States]
    BY WithStateType DEF States
  <2>2. QED
    BY <1>5, <2>1 DEF SessionInfo, TypeOK
<1>6. ASSUME NEW n \in Node, ErrorEvent(n)
      PROVE  TypeOK'
  BY <1>6, WithFailureType DEF ErrorEvent, TypeOK
<1>7. ASSUME NEW n \in Node, ExitOk(n)
      PROVE  TypeOK'
  <2>1. WithState(n, "completed") \in [Node -> States]
    BY WithStateType DEF States
  <2>2. QED
    BY <1>7, <2>1 DEF ExitOk, TypeOK, TaskStates
<1>8. ASSUME NEW n \in Node, ExitFail(n)
      PROVE  TypeOK'
  <2>1. WithFailure(n) \in [Node -> States]
    BY WithFailureType
  <2>2. [WithFailure(n) EXCEPT ![n] = "completed"] \in [Node -> States]
    BY <2>1 DEF States
  <2>3. QED
    BY <1>8, <2>1, <2>2 DEF ExitFail, TypeOK, TaskStates
<1>9. ASSUME NEW n \in Node, Raise(n)
      PROVE  TypeOK'
  BY <1>9, WithFailureType DEF Raise, TypeOK, TaskStates
<1>10. ASSUME NEW n \in Node, DeliverCancel(n)
       PROVE  TypeOK'
  BY <1>10 DEF DeliverCancel, TypeOK, TaskStates
<1>11. ASSUME NEW n \in Node, CancelDone(n)
       PROVE  TypeOK'
  <2>1. WithState(n, "error") \in [Node -> States]
    BY WithStateType DEF States
  <2>2. QED
    BY <1>11, <2>1 DEF CancelDone, TypeOK, TaskStates
<1>12. ASSUME NEW n \in Node, Release(n)
       PROVE  TypeOK'
  <2>1. [task EXCEPT ![n] = "done"] \in [Node -> TaskStates]
    BY DEF TypeOK, TaskStates
  <2>2. QED
    BY <1>12, <2>1, ProcessNextType DEF Release, TypeOK
<1>13. ASSUME NEW n \in Node, CancelNode(n)
       PROVE  TypeOK'
  <2>1. queue' \in Seq(Node)
    BY <1>13, RemoveFromQueueType DEF CancelNode
  <2>2. state' \in [Node -> States]
    BY <1>13, WithErrorsType DEF CancelNode
  <2>3. cancelReq' \in [Node -> BOOLEAN]
    BY <1>13, CancelType DEF CancelNode, TypeOK
  <2>4. QED
    BY <1>13, <2>1, <2>2, <2>3 DEF CancelNode, TypeOK
<1>14. ASSUME CancelTree
       PROVE  TypeOK'
  BY <1>14, CancelAllNodesType DEF CancelTree, TypeOK
<1>15. ASSUME NEW n \in Node, ClearBranchBegin(n)
       PROVE  TypeOK'
  <2> DEFINE active == {m \in Descendants(n) : state[m] \in Active}
  <2>1. queue' \in Seq(Node)
    BY <1>15, RemoveFromQueueType DEF ClearBranchBegin
  <2>2. state' \in [Node -> States]
    BY <1>15, WithErrorsType DEF ClearBranchBegin
  <2>3. cancelReq' \in [Node -> BOOLEAN]
    BY <1>15, CancelType DEF ClearBranchBegin, TypeOK
  <2>4. Descendants(n) \subseteq Node
    BY DEF Descendants, Below, TypeOK
  <2>5. QED
    BY <1>15, <2>1, <2>2, <2>3, <2>4 DEF ClearBranchBegin, TypeOK
<1>16. ASSUME NEW n \in Node, RemoveBranch(n)
       PROVE  TypeOK'
  BY <1>16 DEF RemoveBranch, TypeOK
<1>17. ASSUME RemoveTree
       PROVE  TypeOK'
  BY <1>17, CancelAllNodesType DEF RemoveTree, TypeOK
<1>18. CASE UNCHANGED vars
  BY <1>18 DEF vars, TypeOK
<1>19. QED
  BY <1>1, <1>2, <1>3, <1>4, <1>5, <1>6, <1>7, <1>8, <1>9, <1>10, <1>11, <1>12,
     <1>13, <1>14, <1>15, <1>16, <1>17, <1>18
     DEF Step, TaskStep, CliEvent, CliEnd, ClearBranchEnd

\* Type correctness of the tree and its queue, with no condition on the users.
THEOREM Typing == Spec => []TypeOK
<1>1. TypeOK /\ [Next]_vars => TypeOK'
  BY TypingStep DEF Next
<1>2. QED
  BY TypingInit, <1>1, PTL DEF Spec

-----------------------------------------------------------------------------
(* The discipline of the queue, with no condition on the users. *)

(* QueueGuarded and NoRequeue are inductive together with the fact that a
   message not sent yet has left no trace: otherwise Reply could queue a node
   twice, or a node that had a task.                                        *)
QueueInv ==
    /\ QueueGuarded
    /\ NoRequeue
    /\ \A n \in Node : state[n] = "absent" =>
          task[n] = "none" /\ n \notin nodes /\ \A i \in DOMAIN queue : queue[i] # n

\* remove_if_present keeps the order of the queue, hence its distinctness.
LEMMA KeptOrder ==
    ASSUME TypeOK, NEW S, RemoveFromQueue(S)
    PROVE  \E f \in [DOMAIN queue' -> DOMAIN queue] :
             /\ \A i \in DOMAIN queue' : queue'[i] = queue[f[i]] /\ queue'[i] \notin S
             /\ \A i, j \in DOMAIN queue' : i < j => f[i] < f[j]
<1> DEFINE stay == {i \in DOMAIN queue : queue[i] \notin S}
<1>1. PICK f \in Kept(queue, S) : queue' = [i \in DOMAIN f |-> queue[f[i]]]
  BY DEF RemoveFromQueue
<1>2. /\ f \in [1 .. Cardinality(stay) -> stay]
      /\ \A i, j \in DOMAIN f : i < j => f[i] < f[j]
  BY <1>1 DEF Kept
<1>3. DOMAIN queue' = DOMAIN f
  BY <1>1
<1>4. QED
  BY <1>1, <1>2, <1>3

\* A step that leaves the queue alone and creates no task.
LEMMA QuietStep ==
    ASSUME QueueInv, UNCHANGED <<queue, isProcessing>>, nodes' \subseteq nodes,
           \A m \in Node : state'[m] = "absent" => state[m] = "absent",
           \A m \in Node : task[m] = "none" => task'[m] = "none",
           queue \in Seq(Node)
    PROVE  QueueInv'
<1>1. \A i \in DOMAIN queue : queue[i] \in Node
  BY ElementOfSeq, LenProperties
<1>2. QED
  BY <1>1 DEF QueueInv, QueueGuarded, NoRequeue

\* A step that removes nodes from the queue and creates no task.
LEMMA RemovalStep ==
    ASSUME TypeOK, QueueInv, NEW S, RemoveFromQueue(S),
           UNCHANGED <<nodes, task, isProcessing>>,
           \A m \in Node : state'[m] = "absent" => state[m] = "absent"
    PROVE  QueueInv'
<1>1. PICK f \in [DOMAIN queue' -> DOMAIN queue] :
             /\ \A i \in DOMAIN queue' : queue'[i] = queue[f[i]] /\ queue'[i] \notin S
             /\ \A i, j \in DOMAIN queue' : i < j => f[i] < f[j]
  BY KeptOrder
<1>2. queue' \in Seq(Node) /\ queue \in Seq(Node)
  BY RemoveFromQueueType DEF TypeOK
<1>3. QueueGuarded'
  <2>1. SUFFICES ASSUME queue' # <<>>
                 PROVE  isProcessing
    BY DEF QueueGuarded
  <2>2. 1 \in DOMAIN queue'
    BY <1>2, <2>1, EmptySeq, LenProperties
  <2>3. f[1] \in DOMAIN queue
    BY <2>2
  <2>4. queue # <<>>
    BY <1>2, <2>3, EmptySeq, LenProperties
  <2>5. QED
    BY <2>4 DEF QueueInv, QueueGuarded
<1>4. NoRequeue'
  <2>1. \A i \in DOMAIN queue' : task[queue'[i]] = "none"
    BY <1>1 DEF QueueInv, NoRequeue
  <2>2. ASSUME NEW i \in DOMAIN queue', NEW j \in DOMAIN queue', queue'[i] = queue'[j]
        PROVE  i = j
    <3>1. f[i] = f[j]
      BY <1>1, <2>2 DEF QueueInv, NoRequeue
    <3>2. i \in Int /\ j \in Int /\ f[i] \in Int
      BY <1>2, LenProperties
    <3>3. QED
      BY <1>1, <3>1, <3>2
  <2>3. QED
    BY <2>1, <2>2 DEF NoRequeue
<1>5. QED
  BY <1>1, <1>3, <1>4 DEF QueueInv

\* The end of a task, which takes the next node of the queue.
LEMMA ProcessNextStep ==
    ASSUME TypeOK, QueueInv, NEW n \in Node, task[n] # "none",
           ProcessNext([task EXCEPT ![n] = "done"]),
           UNCHANGED <<nodes, state>>
    PROVE  QueueInv'
<1>1. queue \in Seq(Node) /\ task \in [Node -> TaskStates]
  BY DEF TypeOK
<1>2. \A i \in DOMAIN queue : queue[i] \in Node /\ queue[i] # n
  BY <1>1, ElementOfSeq, LenProperties DEF QueueInv, NoRequeue
<1>3. CASE queue = <<>>
  BY <1>1, <1>3 DEF ProcessNext, QueueInv, QueueGuarded, NoRequeue, Dequeue
<1>4. CASE queue # <<>>
  <2>1. /\ queue' \in Seq(Node)
        /\ \A i \in DOMAIN queue' : i + 1 \in DOMAIN queue /\ queue'[i] = queue[i + 1]
        /\ Head(queue) = queue[1] /\ 1 \in DOMAIN queue
        /\ \A i \in DOMAIN queue' : i \in Nat \ {0}
    BY <1>1, <1>4, HeadTailProperties, LenProperties DEF ProcessNext, Dequeue
  <2>2. isProcessing'
    BY <1>4 DEF ProcessNext
  <2>3. \A m \in Node : m # n /\ m # Head(queue) => task'[m] = task[m]
    BY <1>1, <1>4 DEF ProcessNext, Dequeue
  <2>4. NoRequeue'
    <3>1. \A i \in DOMAIN queue' : queue'[i] # Head(queue) /\ queue'[i] # n
      BY <1>2, <2>1 DEF QueueInv, NoRequeue
    <3>2. \A i \in DOMAIN queue' : task'[queue'[i]] = "none"
      BY <1>2, <2>1, <2>3, <3>1 DEF QueueInv, NoRequeue
    <3>3. \A i, j \in DOMAIN queue' : queue'[i] = queue'[j] => i = j
      BY <2>1 DEF QueueInv, NoRequeue
    <3>4. QED
      BY <3>2, <3>3 DEF NoRequeue
  <2>5. ASSUME NEW m \in Node, state'[m] = "absent"
        PROVE  /\ task'[m] = "none" /\ m \notin nodes'
               /\ \A i \in DOMAIN queue' : queue'[i] # m
    BY <2>1, <2>3, <2>5 DEF QueueInv
  <2>6. QED
    BY <2>2, <2>4, <2>5 DEF QueueInv, QueueGuarded
<1>5. QED
  BY <1>3, <1>4

\* No update of a node that has come makes it absent again.
LEMMA StatesStay ==
    ASSUME TypeOK, NEW m \in Node, state[m] # "absent"
    PROVE  /\ \A S : WithErrors(S)[m] # "absent"
           /\ \A n \in Node : WithFailure(n)[m] # "absent"
           /\ \A n \in Node, s \in States \ {"absent"} : WithState(n, s)[m] # "absent"
<1>1. \A S : WithErrors(S)[m] # "absent"
  BY DEF WithErrors
<1>2. QED
  BY <1>1 DEF WithFailure, WithState, TypeOK

LEMMA CancelAllNodesStep ==
    ASSUME TypeOK, QueueInv, CancelAllNodes, UNCHANGED nodes
    PROVE  QueueInv'
<1>1. queue' = <<>> /\ task' = task /\ DOMAIN queue' = {}
  BY DEF CancelAllNodes, DrainQueue
<1>2. \A m \in Node : state'[m] = "absent" => state[m] = "absent"
  BY StatesStay DEF CancelAllNodes
<1>3. QED
  BY <1>1, <1>2 DEF QueueInv, QueueGuarded, NoRequeue

LEMMA ReplyStep ==
    ASSUME TypeOK, QueueInv, NEW n \in Node, NEW p \in Node, Reply(n, p)
    PROVE  QueueInv'
<1>1. /\ state[n] = "absent" /\ task[n] = "none"
      /\ \A i \in DOMAIN queue : queue[i] # n
  BY DEF Reply, QueueInv, Busy, Enqueue
<1>2. \A m \in Node : state'[m] = "absent" => state[m] = "absent" /\ m # n
  BY DEF Reply, TypeOK, Busy, Enqueue
<1>3. nodes' = nodes \union {n}
  BY DEF Reply, Busy, Enqueue
<1>4. CASE isProcessing
  <2>1. queue' = Append(queue, n) /\ UNCHANGED <<isProcessing, task>>
    BY <1>4 DEF Reply, Busy, Enqueue
  <2>2. /\ DOMAIN queue' = DOMAIN queue \union {Len(queue) + 1}
        /\ \A i \in DOMAIN queue : queue'[i] = queue[i]
        /\ queue'[Len(queue) + 1] = n
    BY <2>1, AppendProperties, LenProperties DEF TypeOK
  <2>3. NoRequeue'
    BY <1>1, <2>1, <2>2 DEF QueueInv, NoRequeue
  <2>4. QED
    BY <1>2, <1>3, <1>4, <2>1, <2>2, <2>3 DEF QueueInv, QueueGuarded
<1>5. CASE ~isProcessing
  <2>1. queue = <<>>
    BY <1>5 DEF QueueInv, QueueGuarded
  <2>2. queue' = queue /\ isProcessing' /\ task' = [task EXCEPT ![n] = "scheduled"]
    BY <1>5 DEF Reply, Busy, Enqueue
  <2>3. \A m \in Node : m # n => task'[m] = task[m]
    BY <2>2 DEF TypeOK
  <2>4. QED
    BY <1>2, <1>3, <2>1, <2>2, <2>3 DEF QueueInv, QueueGuarded, NoRequeue
<1>6. QED
  BY <1>4, <1>5

LEMMA QueueInit == Init => QueueInv
BY RootIsNode DEF Init, QueueInv, QueueGuarded, NoRequeue

LEMMA QueueStep ==
    ASSUME TypeOK, QueueInv,
           NEW patient \in BOOLEAN, NEW started \in BOOLEAN, NEW tidy \in BOOLEAN,
           [Step(patient, started, tidy)]_vars
    PROVE  QueueInv'
<1> USE DEF treeVars, procVars, taskVars, historyVars
<1> DEFINE Kept1 == \A m \in Node : state'[m] = "absent" => state[m] = "absent"
           Kept2 == \A m \in Node : task[m] = "none" => task'[m] = "none"
<1>1. queue \in Seq(Node) /\ task \in [Node -> TaskStates]
  BY DEF TypeOK
<1>2. ASSUME NEW n \in Node, NEW p \in Node, Reply(n, p)
      PROVE  QueueInv'
  BY <1>2, ReplyStep
<1>3. ASSUME NEW n \in Node, Start(n)
      PROVE  QueueInv'
  <2>1. Kept1
    BY <1>3, StatesStay DEF Start, States
  <2>2. QED
    BY <1>1, <1>3, <2>1, QuietStep DEF Start
<1>4. ASSUME NEW n \in Node, Skip(n)
      PROVE  QueueInv'
  BY <1>4, ProcessNextStep DEF Skip
<1>5. ASSUME NEW n \in Node, DieUnstarted(n)
      PROVE  QueueInv'
  BY <1>1, <1>5, QuietStep DEF DieUnstarted
<1>6. ASSUME NEW n \in Node, SessionInfo(n)
      PROVE  QueueInv'
  <2>1. Kept1
    BY <1>6, StatesStay DEF SessionInfo, States
  <2>2. QED
    BY <1>1, <1>6, <2>1, QuietStep DEF SessionInfo
<1>7. ASSUME NEW n \in Node, ErrorEvent(n)
      PROVE  QueueInv'
  <2>1. Kept1
    BY <1>7, StatesStay DEF ErrorEvent
  <2>2. QED
    BY <1>1, <1>7, <2>1, QuietStep DEF ErrorEvent
<1>8. ASSUME NEW n \in Node, ExitOk(n)
      PROVE  QueueInv'
  <2>1. Kept1
    BY <1>8, StatesStay DEF ExitOk, States
  <2>2. QED
    BY <1>1, <1>8, <2>1, QuietStep DEF ExitOk, Listening
<1>9. ASSUME NEW n \in Node, ExitFail(n)
      PROVE  QueueInv'
  <2>1. WithFailure(n) \in [Node -> States]
    BY WithFailureType
  <2>2. Kept1
    BY <1>9, <2>1, StatesStay DEF ExitFail
  <2>3. QED
    BY <1>1, <1>9, <2>2, QuietStep DEF ExitFail, Listening
<1>10. ASSUME NEW n \in Node, Raise(n)
       PROVE  QueueInv'
  <2>1. Kept1
    BY <1>10, StatesStay DEF Raise
  <2>2. QED
    BY <1>1, <1>10, <2>1, QuietStep DEF Raise, Listening
<1>11. ASSUME NEW n \in Node, DeliverCancel(n)
       PROVE  QueueInv'
  BY <1>1, <1>11, QuietStep DEF DeliverCancel
<1>12. ASSUME NEW n \in Node, CancelDone(n)
       PROVE  QueueInv'
  <2>1. Kept1
    BY <1>12, StatesStay DEF CancelDone, States
  <2>2. QED
    BY <1>1, <1>12, <2>1, QuietStep DEF CancelDone
<1>13. ASSUME NEW n \in Node, Release(n)
       PROVE  QueueInv'
  BY <1>13, ProcessNextStep DEF Release
<1>14. ASSUME NEW n \in Node, CancelNode(n)
       PROVE  QueueInv'
  <2>1. Kept1
    BY <1>14, StatesStay DEF CancelNode
  <2>2. QED
    BY <1>14, <2>1, RemovalStep DEF CancelNode
<1>15. ASSUME CancelTree
       PROVE  QueueInv'
  BY <1>15, CancelAllNodesStep DEF CancelTree
<1>16. ASSUME NEW n \in Node, ClearBranchBegin(n)
       PROVE  QueueInv'
  <2> DEFINE active == {m \in Descendants(n) : state[m] \in Active}
  <2>1. Kept1
    BY <1>16, StatesStay DEF ClearBranchBegin
  <2>2. RemoveFromQueue(active \ {currentNode}) /\ UNCHANGED <<nodes, task, isProcessing>>
    BY <1>16 DEF ClearBranchBegin
  <2>3. QED
    BY <2>1, <2>2, RemovalStep
<1>17. ASSUME NEW n \in Node, RemoveBranch(n)
       PROVE  QueueInv'
  BY <1>1, <1>17, QuietStep DEF RemoveBranch
<1>18. ASSUME RemoveTree
       PROVE  QueueInv'
  BY <1>1, <1>18, CancelAllNodesStep, QuietStep DEF RemoveTree
<1>19. CASE UNCHANGED vars
  BY <1>1, <1>19, QuietStep DEF vars
<1>20. QED
  BY <1>2, <1>3, <1>4, <1>5, <1>6, <1>7, <1>8, <1>9, <1>10, <1>11, <1>12, <1>13,
     <1>14, <1>15, <1>16, <1>17, <1>18, <1>19
     DEF Step, TaskStep, CliEvent, CliEnd, ClearBranchEnd

(* Nobody waits in an idle tree and no node is queued twice or queued after it
   had a task, whatever the users and the CLI do.                           *)
THEOREM QueueDiscipline == Spec => [](QueueGuarded /\ NoRequeue)
<1>1. Init => TypeOK /\ QueueInv
  BY TypingInit, QueueInit
<1>2. TypeOK /\ QueueInv /\ [Next]_vars => (TypeOK /\ QueueInv)'
  BY TypingStep, QueueStep DEF Next
<1>3. QueueInv => QueueGuarded /\ NoRequeue
  BY DEF QueueInv
<1>4. QED
  BY <1>1, <1>2, <1>3, PTL DEF Spec

\* How _process_next changes the tasks: the one that ends, and a new one.
LEMMA ProcessNextTasks ==
    ASSUME TypeOK, NEW n \in Node, ProcessNext([task EXCEPT ![n] = "done"])
    PROVE  \A m \in Node :
             \/ m # n /\ task'[m] = task[m]
             \/ m = n /\ task'[m] = "done"
             \/ /\ queue # <<>> /\ m = Head(queue)
                /\ task'[m] = "scheduled" /\ currentTask' = m /\ currentNode' = m
BY DEF ProcessNext, TypeOK, Dequeue

\* Only Reply to an idle tree and _process_next create tasks.
LEMMA StartInOrderStep ==
    ASSUME TypeOK, QueueInv, [Next]_vars, NEW n \in Node,
           task[n] = "none", task'[n] = "scheduled"
    PROVE  queue = <<>> \/ n = Head(queue)
<1> USE DEF treeVars, procVars, taskVars, historyVars
<1>1. task \in [Node -> TaskStates]
  BY DEF TypeOK
<1>2. ASSUME NEW m \in Node, NEW p \in Node, Reply(m, p)
      PROVE  queue = <<>> \/ n = Head(queue)
  BY <1>2 DEF Reply, QueueInv, QueueGuarded, Busy, Enqueue
<1>3. ASSUME NEW m \in Node, Skip(m) \/ Release(m)
      PROVE  queue = <<>> \/ n = Head(queue)
  BY <1>3, ProcessNextTasks DEF Skip, Release
<1>4. ASSUME NEW m \in Node,
             Start(m) \/ DieUnstarted(m) \/ DeliverCancel(m) \/ CancelDone(m)
      PROVE  FALSE
  BY <1>1, <1>4 DEF Start, DieUnstarted, DeliverCancel, CancelDone
<1>5. ASSUME NEW m \in Node, CliEvent(m) \/ CliEnd(m)
      PROVE  FALSE
  BY <1>1, <1>5 DEF CliEvent, CliEnd, SessionInfo, ErrorEvent, ExitOk, ExitFail, Raise
<1>6. ASSUME NEW m \in Node,
             CancelNode(m) \/ ClearBranchBegin(m) \/ RemoveBranch(m) \/ RemoveTree
             \/ CancelTree \/ UNCHANGED vars
      PROVE  FALSE
  BY <1>6 DEF CancelNode, ClearBranchBegin, RemoveBranch, RemoveTree, CancelTree,
              CancelAllNodes, vars
<1>7. QED
  BY <1>2, <1>3, <1>4, <1>5, <1>6 DEF Next, Step, TaskStep, ClearBranchEnd

\* Nodes get their tasks in the order of the queue.
THEOREM OrderedStart == Spec => StartInOrder
<1>1. Init => TypeOK /\ QueueInv
  BY TypingInit, QueueInit
<1>2. TypeOK /\ QueueInv /\ [Next]_vars => (TypeOK /\ QueueInv)'
  BY TypingStep, QueueStep DEF Next
<1>3. TypeOK /\ QueueInv /\ [Next]_vars =>
        [\A n \in Node : (task[n] = "none" /\ task'[n] = "scheduled")
                           => queue = <<>> \/ n = Head(queue)]_vars
  BY StartInOrderStep
<1>4. QED
  BY <1>1, <1>2, <1>3, PTL DEF Spec, StartInOrder

LEMMA ErrorNeverStartsStep ==
    ASSUME TypeOK, [Next]_vars, NEW n \in Node,
           state[n] = "error", task[n] \in {"none", "scheduled"}
    PROVE  state'[n] = "error" /\ task'[n] # "running"
<1> USE DEF treeVars, procVars, taskVars, historyVars
<1>1. /\ task \in [Node -> TaskStates] /\ state \in [Node -> States]
      /\ \A S : WithErrors(S)[n] = "error"
      /\ \A m \in Node : WithFailure(m) \in [Node -> States] /\ WithFailure(m)[n] = "error"
  BY WithFailureType DEF TypeOK, WithErrors, WithFailure
<1>2. ASSUME NEW m \in Node, NEW p \in Node, Reply(m, p)
      PROVE  state'[n] = "error" /\ task'[n] # "running"
  BY <1>1, <1>2 DEF Reply, Busy, Enqueue
<1>3. ASSUME NEW m \in Node, Skip(m) \/ Release(m)
      PROVE  state'[n] = "error" /\ task'[n] # "running"
  BY <1>3, ProcessNextTasks DEF Skip, Release
<1>4. ASSUME NEW m \in Node,
             Start(m) \/ DieUnstarted(m) \/ DeliverCancel(m) \/ CancelDone(m)
      PROVE  state'[n] = "error" /\ task'[n] # "running"
  BY <1>1, <1>4 DEF Start, DieUnstarted, DeliverCancel, CancelDone, WithState, InError
<1>5. ASSUME NEW m \in Node, CliEvent(m)
      PROVE  state'[n] = "error" /\ task'[n] # "running"
  BY <1>1, <1>5 DEF CliEvent, SessionInfo, ErrorEvent, Listening, WithState
<1>6. ASSUME NEW m \in Node, CliEnd(m)
      PROVE  state'[n] = "error" /\ task'[n] # "running"
  BY <1>1, <1>6 DEF CliEnd, ExitOk, ExitFail, Raise, Listening, WithState
<1>7. ASSUME NEW m \in Node,
             CancelNode(m) \/ ClearBranchBegin(m) \/ RemoveBranch(m) \/ RemoveTree
             \/ CancelTree \/ UNCHANGED vars
      PROVE  state'[n] = "error" /\ task'[n] # "running"
  BY <1>1, <1>7 DEF CancelNode, ClearBranchBegin, RemoveBranch, RemoveTree, CancelTree,
                    CancelAllNodes, vars
<1>8. QED
  BY <1>2, <1>3, <1>4, <1>5, <1>6, <1>7 DEF Next, Step, TaskStep, ClearBranchEnd

\* A node that was cancelled or failed before its first step is never processed.
THEOREM NoLateStart == Spec => ErrorNeverStarts
<1>1. TypeOK /\ [Next]_vars => TypeOK'
  BY TypingStep DEF Next
<1>2. TypeOK /\ [Next]_vars =>
        [\A n \in Node : (state[n] = "error" /\ task[n] \in {"none", "scheduled"})
                           => state'[n] = "error" /\ task'[n] # "running"]_vars
  BY ErrorNeverStartsStep
<1>3. QED
  BY TypingInit, <1>1, <1>2, PTL DEF Spec, ErrorNeverStarts

-----------------------------------------------------------------------------
(* What holds while no reply comes between a /stop and the end of the task it
   stopped.                                                                 *)

(* /stop finds the task it has to cancel through currentNode and currentTask:
   what it stopped stays stopped because they name the task that listens to a
   CLI.                                                                     *)
PatientInv ==
    /\ SingleRunner
    /\ \A n \in Node : task[n] \in {"scheduled", "running"} /\ ~cancelReq[n]
                         => currentNode = n /\ currentTask = n
    /\ CancelledStaysCancelled
    /\ \A n \in cancelled : ~Listening(n)

LEMMA PatientInit == Init => PatientInv
BY RootIsNode DEF Init, PatientInv, SingleRunner, LiveTasks, Live,
                  CancelledStaysCancelled, Listening

\* A step in the life of the task of n, which creates no task.
LEMMA OwnStep ==
    ASSUME TypeOK, PatientInv, NEW n \in Node, task[n] \in Live,
           NEW t \in TaskStates, task' = [task EXCEPT ![n] = t],
           t \in {"scheduled", "running"} => t = "running" /\ task[n] = "scheduled"
                                             /\ ~cancelReq[n] /\ n \notin cancelled,
           \A m \in Node : m # n => cancelReq'[m] = cancelReq[m],
           UNCHANGED <<currentNode, currentTask, cancelled>>,
           \A m \in cancelled : state'[m] = "error"
    PROVE  PatientInv'
<1>1. \A m \in Node : task'[m] = IF m = n THEN t ELSE task[m]
  BY DEF TypeOK
<1>2. cancelled \subseteq Node
  BY DEF TypeOK
<1>3. \A m \in Node : m \in LiveTasks => m = n
  BY DEF PatientInv, SingleRunner, LiveTasks
<1>4. \A m \in LiveTasks' : m = n
  BY <1>1, <1>3 DEF LiveTasks
<1>5. QED
  BY <1>1, <1>2, <1>4
     DEF PatientInv, SingleRunner, CancelledStaysCancelled, Listening, LiveTasks, Live

\* The end of a task, which may create the next one.
LEMMA EndStep ==
    ASSUME TypeOK, PatientInv, NEW n \in Node, task[n] \in Live,
           ProcessNext([task EXCEPT ![n] = "done"]),
           UNCHANGED <<state, cancelled>>
    PROVE  PatientInv'
<1>1. \A m \in Node :
        \/ m # n /\ task'[m] = task[m]
        \/ m = n /\ task'[m] = "done"
        \/ /\ queue # <<>> /\ m = Head(queue)
           /\ task'[m] = "scheduled" /\ currentTask' = m /\ currentNode' = m
  BY ProcessNextTasks
<1>2. cancelled \subseteq Node
  BY DEF TypeOK
<1>3. \A m \in Node : task[m] \in Live => m = n
  BY DEF PatientInv, SingleRunner, LiveTasks
<1>4. \A m \in Node : task'[m] \in Live =>
        /\ m = Head(queue) /\ task'[m] = "scheduled"
        /\ currentTask' = m /\ currentNode' = m
  BY <1>1, <1>3 DEF Live
<1>5. QED
  BY <1>2, <1>4
     DEF PatientInv, SingleRunner, CancelledStaysCancelled, Listening, LiveTasks, Live

\* A command that cancels the nodes of S, the current task too if it is theirs.
LEMMA CancelStep ==
    ASSUME TypeOK, PatientInv, NEW S, S \subseteq Node,
           UNCHANGED task,
           \/ UNCHANGED <<currentNode, currentTask>> /\ UNCHANGED cancelReq
              /\ currentNode \notin S
           \/ UNCHANGED <<currentNode, currentTask>> /\ CancelCurrentTask
           \/ UNCHANGED currentTask /\ CancelCurrentTask /\ currentNode' = NoNode,
           cancelled' = cancelled \union S,
           \A m \in cancelled' : state'[m] = "error"
    PROVE  PatientInv'
<1>1. cancelled \subseteq Node /\ currentTask \in Node /\ cancelReq \in [Node -> BOOLEAN]
  BY DEF TypeOK
<1>2. SingleRunner'
  BY DEF PatientInv, SingleRunner, LiveTasks
<1>3. \A m \in Node : cancelReq[m] => cancelReq'[m]
  BY <1>1 DEF CancelCurrentTask
<1>4. CASE CancelCurrentTask
  <2>1. \A m \in Node : task[m] \in {"scheduled", "running"} => cancelReq'[m]
    BY <1>1, <1>3, <1>4 DEF PatientInv, CancelCurrentTask, Live
  <2>2. QED
    BY <1>1, <1>2, <2>1 DEF PatientInv, CancelledStaysCancelled, Listening
<1>5. CASE /\ UNCHANGED <<currentNode, currentTask, cancelReq>>
           /\ currentNode \notin S
  BY <1>1, <1>2, <1>5 DEF PatientInv, CancelledStaysCancelled, Listening
<1>6. QED
  BY <1>4, <1>5

\* A patient reply starts a task only when every task has ended.
LEMMA PatientReplyStep ==
    ASSUME TypeOK, PatientInv, NEW n \in Node, NEW p \in Node, Reply(n, p),
           isProcessing \/ LiveTasks = {}
    PROVE  PatientInv'
<1>1. cancelled \subseteq Node /\ task \in [Node -> TaskStates]
  BY DEF TypeOK
<1>2. n \notin cancelled
  BY DEF Reply, PatientInv, CancelledStaysCancelled, Busy, Enqueue
<1>3. \A m \in cancelled : state'[m] = "error"
  BY <1>2 DEF Reply, PatientInv, CancelledStaysCancelled, TypeOK, Busy, Enqueue
<1>4. UNCHANGED <<cancelReq, cancelled>>
  BY DEF Reply, historyVars, Busy, Enqueue
<1>5. CASE isProcessing
  <2>1. UNCHANGED <<currentNode, currentTask, task>>
    BY <1>5 DEF Reply, Busy, Enqueue
  <2>2. QED
    BY <1>3, <1>4, <2>1
       DEF PatientInv, SingleRunner, CancelledStaysCancelled, Listening, LiveTasks
<1>6. CASE ~isProcessing
  <2>1. currentNode' = n /\ currentTask' = n /\ task' = [task EXCEPT ![n] = "scheduled"]
    BY <1>6 DEF Reply, Busy, Enqueue
  <2>2. \A m \in Node : task[m] \notin Live
    BY <1>6 DEF LiveTasks
  <2>3. \A m \in Node : task'[m] \in Live => m = n /\ task'[m] = "scheduled"
    BY <1>1, <2>1, <2>2
  <2>4. QED
    BY <1>1, <1>3, <1>4, <2>1, <2>3
       DEF PatientInv, SingleRunner, CancelledStaysCancelled, Listening, LiveTasks, Live
<1>7. QED
  BY <1>5, <1>6

LEMMA CancelAllNodesPatient ==
    ASSUME TypeOK, PatientInv, CancelAllNodes
    PROVE  PatientInv'
<1> DEFINE active == {n \in nodes : state[n] \in Active}
<1>1. active \subseteq Node /\ cancelled \subseteq Node
  BY DEF TypeOK
<1>2. /\ CancelCurrentTask /\ currentNode' = NoNode /\ UNCHANGED <<task, currentTask>>
      /\ cancelled' = cancelled \union active
      /\ state' = WithErrors(active \union (nodes \intersect Queued))
  BY DEF CancelAllNodes, DrainQueue
<1>3. \A m \in cancelled' : state'[m] = "error"
  BY <1>1, <1>2 DEF WithErrors, PatientInv, CancelledStaysCancelled
<1>4. QED
  BY <1>1, <1>2, <1>3, CancelStep

LEMMA PatientStep ==
    ASSUME TypeOK, PatientInv, NEW started \in BOOLEAN, NEW tidy \in BOOLEAN,
           [Step(TRUE, started, tidy)]_vars
    PROVE  PatientInv'
<1> USE DEF treeVars, procVars, taskVars, historyVars
<1>1. /\ cancelled \subseteq Node
      /\ \A S : \A m \in cancelled : WithErrors(S)[m] = "error"
      /\ \A n \in Node : \A m \in cancelled : WithFailure(n)[m] = "error"
      /\ \A n \in Node : \A m \in cancelled : WithState(n, "error")[m] = "error"
      /\ \A n \in Node, s \in States : \A m \in cancelled \ {n} : WithState(n, s)[m] = "error"
      /\ \A m \in cancelled : state[m] = "error"
  BY DEF PatientInv, CancelledStaysCancelled, WithErrors, WithFailure, WithState, TypeOK
<1>2. ASSUME NEW n \in Node, NEW p \in Node, Reply(n, p), isProcessing \/ LiveTasks = {}
      PROVE  PatientInv'
  BY <1>2, PatientReplyStep
<1>3. ASSUME NEW n \in Node, Start(n)
      PROVE  PatientInv'
  <2>1. n \notin cancelled
    BY <1>1, <1>3 DEF Start, InError
  <2>2. \A m \in cancelled : state'[m] = "error"
    BY <1>1, <1>3, <2>1 DEF Start, States
  <2>3. QED
    BY <1>3, <2>1, <2>2, OwnStep DEF Start, Live, TaskStates
<1>4. ASSUME NEW n \in Node, Skip(n)
      PROVE  PatientInv'
  BY <1>4, EndStep DEF Skip, Live
<1>5. ASSUME NEW n \in Node, DieUnstarted(n)
      PROVE  PatientInv'
  <2>1. \A m \in Node : m # n => cancelReq'[m] = cancelReq[m]
    BY <1>5 DEF DieUnstarted, TypeOK
  <2>2. QED
    BY <1>1, <1>5, <2>1, OwnStep DEF DieUnstarted, Live, TaskStates
<1>6. ASSUME NEW n \in Node, SessionInfo(n) \/ ErrorEvent(n)
      PROVE  PatientInv'
  <2>1. n \notin cancelled
    BY <1>6 DEF SessionInfo, ErrorEvent, PatientInv
  <2>2. \A m \in cancelled : state'[m] = "error"
    BY <1>1, <1>6, <2>1 DEF SessionInfo, ErrorEvent, States
  <2>3. UNCHANGED <<task, cancelReq, currentNode, currentTask, cancelled>>
    BY <1>6 DEF SessionInfo, ErrorEvent
  <2>4. QED
    BY <2>2, <2>3
       DEF PatientInv, SingleRunner, CancelledStaysCancelled, Listening, LiveTasks
<1>7. ASSUME NEW n \in Node, ExitOk(n)
      PROVE  PatientInv'
  <2>1. n \notin cancelled
    BY <1>7 DEF ExitOk, PatientInv
  <2>2. \A m \in cancelled : state'[m] = "error"
    BY <1>1, <1>7, <2>1 DEF ExitOk, States
  <2>3. QED
    BY <1>7, <2>2, OwnStep DEF ExitOk, Listening, Live, TaskStates
<1>8. ASSUME NEW n \in Node, ExitFail(n)
      PROVE  PatientInv'
  <2>1. n \notin cancelled
    BY <1>8 DEF ExitFail, PatientInv
  <2>2. WithFailure(n) \in [Node -> States]
    BY WithFailureType
  <2>3. \A m \in cancelled : state'[m] = "error"
    BY <1>1, <1>8, <2>1, <2>2 DEF ExitFail
  <2>4. QED
    BY <1>8, <2>3, OwnStep DEF ExitFail, Listening, Live, TaskStates
<1>9. ASSUME NEW n \in Node, Raise(n)
      PROVE  PatientInv'
  <2>1. \A m \in cancelled : state'[m] = "error"
    BY <1>1, <1>9 DEF Raise
  <2>2. QED
    BY <1>9, <2>1, OwnStep DEF Raise, Listening, Live, TaskStates
<1>10. ASSUME NEW n \in Node, DeliverCancel(n)
       PROVE  PatientInv'
  <2>1. \A m \in Node : m # n => cancelReq'[m] = cancelReq[m]
    BY <1>10 DEF DeliverCancel, TypeOK
  <2>2. QED
    BY <1>1, <1>10, <2>1, OwnStep DEF DeliverCancel, Live, TaskStates
<1>11. ASSUME NEW n \in Node, CancelDone(n)
       PROVE  PatientInv'
  <2>1. \A m \in Node : m # n => cancelReq'[m] = cancelReq[m]
    BY <1>11 DEF CancelDone, TypeOK
  <2>2. QED
    BY <1>1, <1>11, <2>1, OwnStep DEF CancelDone, Live, TaskStates
<1>12. ASSUME NEW n \in Node, Release(n)
       PROVE  PatientInv'
  BY <1>12, EndStep DEF Release, Live
<1>13. ASSUME NEW n \in Node, CancelNode(n)
       PROVE  PatientInv'
  <2>1. \A m \in cancelled' : state'[m] = "error"
    BY <1>1, <1>13 DEF CancelNode, WithErrors
  <2>2. QED
    BY <1>13, <2>1, CancelStep DEF CancelNode
<1>14. ASSUME CancelTree
       PROVE  PatientInv'
  BY <1>14, CancelAllNodesPatient DEF CancelTree
<1>15. ASSUME NEW n \in Node, ClearBranchBegin(n)
       PROVE  PatientInv'
  <2> DEFINE active == {m \in Descendants(n) : state[m] \in Active}
  <2>1. active \subseteq Node
    BY DEF Descendants, Below, TypeOK
  <2>2. /\ UNCHANGED <<task, currentNode, currentTask>>
        /\ IF currentNode \in active THEN CancelCurrentTask ELSE UNCHANGED cancelReq
        /\ cancelled' = cancelled \union active
        /\ state' = WithErrors(active)
    BY <1>15 DEF ClearBranchBegin
  <2>3. \A m \in cancelled' : state'[m] = "error"
    BY <1>1, <2>1, <2>2 DEF WithErrors
  <2>4. QED
    BY <2>1, <2>2, <2>3, CancelStep
<1>16. ASSUME NEW n \in Node, RemoveBranch(n)
       PROVE  PatientInv'
  BY <1>16 DEF RemoveBranch, PatientInv, SingleRunner, CancelledStaysCancelled,
               Listening, LiveTasks
<1>17. ASSUME RemoveTree
       PROVE  PatientInv'
  <2>1. CASE known
    BY <1>17, <2>1, CancelAllNodesPatient DEF RemoveTree
  <2>2. CASE ~known
    BY <1>17, <2>2 DEF RemoveTree, PatientInv, SingleRunner, CancelledStaysCancelled,
                       Listening, LiveTasks
  <2>3. QED
    BY <2>1, <2>2
<1>18. CASE UNCHANGED vars
  BY <1>18 DEF vars, PatientInv, SingleRunner, CancelledStaysCancelled, Listening, LiveTasks
<1>19. QED
  BY <1>2, <1>3, <1>4, <1>5, <1>6, <1>7, <1>8, <1>9, <1>10, <1>11, <1>12, <1>13,
     <1>14, <1>15, <1>16, <1>17, <1>18
     DEF Step, TaskStep, CliEvent, CliEnd, ClearBranchEnd

\* The tasks of a conversation do not overlap.
THEOREM OneTask == PatientSpec => []SingleRunner
<1>1. Init => TypeOK /\ PatientInv
  BY TypingInit, PatientInit
<1>2. TypeOK /\ PatientInv /\ [PatientNext]_vars => (TypeOK /\ PatientInv)'
  BY TypingStep, PatientStep DEF PatientNext
<1>3. PatientInv => SingleRunner
  BY DEF PatientInv
<1>4. QED
  BY <1>1, <1>2, <1>3, PTL DEF PatientSpec

\* What the user stopped stays stopped.
THEOREM StopIsFinal == PatientSpec => []CancelledStaysCancelled
<1>1. Init => TypeOK /\ PatientInv
  BY TypingInit, PatientInit
<1>2. TypeOK /\ PatientInv /\ [PatientNext]_vars => (TypeOK /\ PatientInv)'
  BY TypingStep, PatientStep DEF PatientNext
<1>3. PatientInv => CancelledStaysCancelled
  BY DEF PatientInv
<1>4. QED
  BY <1>1, <1>2, <1>3, PTL DEF PatientSpec

-----------------------------------------------------------------------------
(* Parents and children. *)

(* A reply is sent after the message it answers, so it is queued behind it:
   the order of the queue then gives ParentBeforeChild.                     *)
FamilyInv ==
    /\ \A n \in Node : state[n] = "absent" => \A m \in Node : parent[m] # n
    /\ \A n \in Node : parent[n] # n
    /\ \A i, j \in DOMAIN queue : parent[queue[j]] = queue[i] => i < j
    /\ \A n \in LiveTasks : \A i \in DOMAIN queue : queue[i] # parent[n]

LEMMA FamilyInit == Init => FamilyInv
BY NoNodeIsNoNode DEF Init, FamilyInv

\* A step that leaves the queue alone and creates no task.
LEMMA FamilyQuiet ==
    ASSUME FamilyInv, UNCHANGED <<queue, parent>>, LiveTasks' \subseteq LiveTasks,
           \A m \in Node : state'[m] = "absent" => state[m] = "absent"
    PROVE  FamilyInv'
BY DEF FamilyInv

\* A step that removes nodes from the queue and creates no task.
LEMMA FamilyRemoval ==
    ASSUME TypeOK, FamilyInv, NEW S, RemoveFromQueue(S), UNCHANGED <<parent, task>>,
           \A m \in Node : state'[m] = "absent" => state[m] = "absent"
    PROVE  FamilyInv'
<1>1. PICK f \in [DOMAIN queue' -> DOMAIN queue] :
             /\ \A i \in DOMAIN queue' : queue'[i] = queue[f[i]] /\ queue'[i] \notin S
             /\ \A i, j \in DOMAIN queue' : i < j => f[i] < f[j]
  BY KeptOrder
<1>2. queue' \in Seq(Node) /\ queue \in Seq(Node)
  BY RemoveFromQueueType DEF TypeOK
<1>3. ASSUME NEW i \in DOMAIN queue', NEW j \in DOMAIN queue', parent[queue'[j]] = queue'[i]
      PROVE  i < j
  <2>1. f[i] < f[j]
    BY <1>1, <1>3 DEF FamilyInv
  <2>2. i \in Int /\ j \in Int /\ f[i] \in Int /\ f[j] \in Int
    BY <1>2, LenProperties
  <2>3. i = j \/ j < i => ~(f[i] < f[j])
    BY <1>1, <2>2
  <2>4. QED
    BY <2>1, <2>2, <2>3
<1>4. \A n \in LiveTasks' : \A i \in DOMAIN queue' : queue'[i] # parent'[n]
  BY <1>1 DEF FamilyInv, LiveTasks
<1>5. QED
  BY <1>3, <1>4 DEF FamilyInv

\* The end of a task: the parent of the next node is not behind it.
LEMMA FamilyNext ==
    ASSUME TypeOK, FamilyInv, NEW n \in Node, task[n] \in Live,
           ProcessNext([task EXCEPT ![n] = "done"]),
           UNCHANGED <<parent, state>>
    PROVE  FamilyInv'
<1>1. \A m \in LiveTasks' : \/ m \in LiveTasks
                            \/ queue # <<>> /\ m = Head(queue)
  BY ProcessNextTasks DEF LiveTasks, Live
<1>2. CASE queue = <<>>
  <2>1. queue' = queue
    BY <1>2 DEF ProcessNext, Dequeue
  <2>2. QED
    BY <1>1, <1>2, <2>1 DEF FamilyInv
<1>3. CASE queue # <<>>
  <2>1. /\ queue' = Tail(queue) /\ queue \in Seq(Node)
    BY <1>3 DEF ProcessNext, TypeOK, Dequeue
  <2>2. /\ \A i \in DOMAIN queue' : /\ i \in Nat \ {0}
                                    /\ i + 1 \in DOMAIN queue
                                    /\ queue'[i] = queue[i + 1]
        /\ Head(queue) = queue[1] /\ 1 \in DOMAIN queue
    BY <1>3, <2>1, HeadTailProperties, LenProperties
  <2>3. \A i, j \in DOMAIN queue' : parent[queue'[j]] = queue'[i] => i < j
    BY <2>2 DEF FamilyInv
  <2>4. \A i \in DOMAIN queue' : queue'[i] # parent[Head(queue)]
    BY <2>2 DEF FamilyInv
  <2>5. \A m \in LiveTasks' : \A i \in DOMAIN queue' : queue'[i] # parent[m]
    BY <1>1, <2>2, <2>4 DEF FamilyInv
  <2>6. QED
    BY <2>3, <2>5 DEF FamilyInv
<1>4. QED
  BY <1>2, <1>3

\* A reply is queued behind its parent, or starts with nobody waiting.
LEMMA FamilyReply ==
    ASSUME TypeOK, QueueInv, FamilyInv, NEW n \in Node, NEW p \in Node, Reply(n, p)
    PROVE  FamilyInv'
<1>1. /\ state[n] = "absent" /\ p \in nodes /\ n \notin nodes
      /\ \A i \in DOMAIN queue : queue[i] # n
      /\ \A m \in Node : parent[m] # n
  BY DEF Reply, QueueInv, FamilyInv, Busy, Enqueue
<1>2. \A m \in Node : parent'[m] = IF m = n THEN p ELSE parent[m]
  BY DEF Reply, TypeOK, Busy, Enqueue
<1>3. \A m \in Node : state'[m] = "absent" => state[m] = "absent" /\ m # n
  BY DEF Reply, TypeOK, Busy, Enqueue
<1>4. \A m \in Node : state'[m] = "absent" => \A k \in Node : parent'[k] # m
  BY <1>1, <1>2, <1>3 DEF FamilyInv, QueueInv
<1>5. \A m \in Node : parent'[m] # m
  BY <1>1, <1>2 DEF FamilyInv
<1>6. \A i \in DOMAIN queue : queue[i] \in Node /\ i \in Nat
  BY ElementOfSeq, LenProperties DEF TypeOK
<1>7. CASE isProcessing
  <2>1. queue' = Append(queue, n) /\ UNCHANGED task
    BY <1>7 DEF Reply, Busy, Enqueue
  <2>2. /\ DOMAIN queue' = DOMAIN queue \union {Len(queue) + 1}
        /\ \A i \in DOMAIN queue : queue'[i] = queue[i] /\ i < Len(queue) + 1
        /\ queue'[Len(queue) + 1] = n
    BY <2>1, AppendProperties, LenProperties DEF TypeOK
  <2>3. ASSUME NEW i \in DOMAIN queue', NEW j \in DOMAIN queue', parent'[queue'[j]] = queue'[i]
        PROVE  i < j
    <3>1. CASE i \in DOMAIN queue /\ j \in DOMAIN queue
      BY <1>1, <1>2, <1>6, <2>2, <2>3, <3>1 DEF FamilyInv
    <3>2. CASE i \in DOMAIN queue /\ j = Len(queue) + 1
      BY <2>2, <3>2
    <3>3. CASE i = Len(queue) + 1
      <4>1. queue'[j] \in Node /\ queue'[i] = n
        BY <1>6, <2>2, <3>3
      <4>2. QED
        BY <1>1, <1>2, <2>3, <4>1
    <3>4. QED
      BY <2>2, <3>1, <3>2, <3>3
  <2>4. \A m \in LiveTasks' : \A i \in DOMAIN queue' : queue'[i] # parent'[m]
    <3>1. \A m \in LiveTasks' : m \in LiveTasks /\ m # n
      BY <1>1, <2>1 DEF LiveTasks, Live, QueueInv
    <3>2. QED
      BY <1>1, <1>2, <2>2, <3>1 DEF FamilyInv, LiveTasks
  <2>5. QED
    BY <1>4, <1>5, <2>3, <2>4 DEF FamilyInv
<1>8. CASE ~isProcessing
  <2>1. queue' = <<>>
    BY <1>8 DEF Reply, QueueInv, QueueGuarded, Busy, Enqueue
  <2>2. QED
    BY <1>4, <1>5, <2>1 DEF FamilyInv
<1>9. QED
  BY <1>7, <1>8

LEMMA FamilyStep ==
    ASSUME TypeOK, QueueInv, FamilyInv,
           NEW patient \in BOOLEAN, NEW started \in BOOLEAN, NEW tidy \in BOOLEAN,
           [Step(patient, started, tidy)]_vars
    PROVE  FamilyInv'
<1> USE DEF treeVars, procVars, taskVars, historyVars
<1> DEFINE Stay == \A m \in Node : state'[m] = "absent" => state[m] = "absent"
           NoNew == LiveTasks' \subseteq LiveTasks
<1>1. \A n \in Node : task[n] \in Live => state[n] # "absent"
  BY DEF QueueInv, Live
<1>2. ASSUME NEW n \in Node, NEW p \in Node, Reply(n, p)
      PROVE  FamilyInv'
  BY <1>2, FamilyReply
<1>3. ASSUME NEW n \in Node,
             Start(n) \/ DieUnstarted(n) \/ DeliverCancel(n) \/ CancelDone(n)
      PROVE  FamilyInv'
  <2>1. Stay
    BY <1>3, StatesStay DEF Start, DieUnstarted, DeliverCancel, CancelDone, States
  <2>2. NoNew
    BY <1>3 DEF Start, DieUnstarted, DeliverCancel, CancelDone, LiveTasks, Live, TypeOK
  <2>3. QED
    BY <1>3, <2>1, <2>2, FamilyQuiet DEF Start, DieUnstarted, DeliverCancel, CancelDone
<1>4. ASSUME NEW n \in Node, Skip(n) \/ Release(n)
      PROVE  FamilyInv'
  BY <1>4, FamilyNext DEF Skip, Release, Live
<1>5. ASSUME NEW n \in Node, SessionInfo(n) \/ ErrorEvent(n)
      PROVE  FamilyInv'
  <2>1. Stay
    BY <1>5, StatesStay DEF SessionInfo, ErrorEvent, States
  <2>2. NoNew
    BY <1>5 DEF SessionInfo, ErrorEvent, LiveTasks
  <2>3. QED
    BY <1>5, <2>1, <2>2, FamilyQuiet DEF SessionInfo, ErrorEvent
<1>6. ASSUME NEW n \in Node, ExitOk(n) \/ ExitFail(n) \/ Raise(n)
      PROVE  FamilyInv'
  <2>1. WithFailure(n) \in [Node -> States]
    BY WithFailureType
  <2>2. Stay
    BY <1>6, <2>1, StatesStay DEF ExitOk, ExitFail, Raise, States
  <2>3. NoNew
    BY <1>6 DEF ExitOk, ExitFail, Raise, Listening, LiveTasks, Live, TypeOK
  <2>4. QED
    BY <1>6, <2>2, <2>3, FamilyQuiet DEF ExitOk, ExitFail, Raise
<1>7. ASSUME NEW n \in Node, CancelNode(n)
      PROVE  FamilyInv'
  <2>1. Stay
    BY <1>7, StatesStay DEF CancelNode
  <2>2. QED
    BY <1>7, <2>1, FamilyRemoval DEF CancelNode
<1>8. ASSUME NEW n \in Node, ClearBranchBegin(n)
      PROVE  FamilyInv'
  <2> DEFINE active == {m \in Descendants(n) : state[m] \in Active}
  <2>1. Stay
    BY <1>8, StatesStay DEF ClearBranchBegin
  <2>2. RemoveFromQueue(active \ {currentNode}) /\ UNCHANGED <<parent, task>>
    BY <1>8 DEF ClearBranchBegin
  <2>3. QED
    BY <2>1, <2>2, FamilyRemoval
<1>9. ASSUME CancelAllNodes, UNCHANGED parent
      PROVE  FamilyInv'
  <2>1. Stay
    BY <1>9, StatesStay DEF CancelAllNodes
  <2>2. NoNew /\ queue' = <<>>
    BY <1>9 DEF CancelAllNodes, LiveTasks, DrainQueue
  <2>3. QED
    BY <1>9, <2>1, <2>2 DEF FamilyInv
<1>10. ASSUME UNCHANGED <<queue, parent, task, state>>
       PROVE  FamilyInv'
  <2>1. NoNew
    BY <1>10 DEF LiveTasks
  <2>2. QED
    BY <1>10, <2>1, FamilyQuiet
<1>11. ASSUME NEW n \in Node, RemoveBranch(n)
       PROVE  FamilyInv'
  BY <1>10, <1>11 DEF RemoveBranch
<1>12. ASSUME RemoveTree \/ CancelTree \/ UNCHANGED vars
       PROVE  FamilyInv'
  BY <1>9, <1>10, <1>12 DEF RemoveTree, CancelTree, vars
<1>13. QED
  BY <1>2, <1>3, <1>4, <1>5, <1>6, <1>7, <1>8, <1>11, <1>12
     DEF Step, TaskStep, CliEvent, CliEnd, ClearBranchEnd

\* A message is processed after the one it answers.
THEOREM ParentFirst == PatientSpec => []ParentBeforeChild
<1> DEFINE Inv == TypeOK /\ QueueInv /\ PatientInv /\ FamilyInv
<1>1. Init => Inv
  BY TypingInit, QueueInit, PatientInit, FamilyInit
<1>2. Inv /\ [PatientNext]_vars => Inv'
  BY TypingStep, QueueStep, PatientStep, FamilyStep DEF PatientNext
<1>3. Inv => ParentBeforeChild
  <2>1. SUFFICES ASSUME Inv, NEW n \in LiveTasks
                 PROVE  parent[n] \notin LiveTasks /\ parent[n] \notin Queued
    BY DEF ParentBeforeChild
  <2>2. parent[n] \notin LiveTasks
    BY <2>1 DEF PatientInv, SingleRunner, FamilyInv, LiveTasks
  <2>3. parent[n] \notin Queued
    BY <2>1 DEF FamilyInv, Queued, Range
  <2>4. QED
    BY <2>2, <2>3
<1>4. QED
  BY <1>1, <1>2, <1>3, PTL DEF PatientSpec

-----------------------------------------------------------------------------
(* What holds for users who are patient, started and tidy. *)

(* BusyHasTask is not inductive: the task that a busy tree relies on must not
   die before its first step, which is what becomes of one cancelled there, and
   the next node of the queue must get a task when it ends, which it does when
   it is still in the tree.                                                 *)
CarefulInv ==
    /\ BusyHasTask
    /\ \A i \in DOMAIN queue : queue[i] \in nodes
    /\ \A n \in Node : cancelReq[n] => /\ task[n] \in Live
                                       /\ task[n] = "scheduled" => ~isProcessing

LEMMA CarefulInit == Init => CarefulInv
BY RootIsNode DEF Init, CarefulInv, BusyHasTask, LiveTasks, Live

\* A step in the life of the task of n that does not end it.
LEMMA CarefulOwn ==
    ASSUME TypeOK, CarefulInv, NEW n \in Node, NEW t \in Live \ {"scheduled"},
           task' = [task EXCEPT ![n] = t], UNCHANGED <<nodes, queue, isProcessing>>,
           \A m \in Node : cancelReq'[m] => cancelReq[m]
    PROVE  CarefulInv'
<1>1. \A m \in Node : task'[m] = IF m = n THEN t ELSE task[m]
  BY DEF TypeOK
<1>2. LiveTasks \subseteq LiveTasks'
  BY <1>1 DEF LiveTasks
<1>3. QED
  BY <1>1, <1>2 DEF CarefulInv, BusyHasTask

\* The end of the one task there is.
LEMMA CarefulEnd ==
    ASSUME TypeOK, QueueInv, PatientInv, CarefulInv, NEW n \in Node, task[n] \in Live,
           ProcessNext([task EXCEPT ![n] = "done"]), UNCHANGED nodes,
           \A m \in Node : m # n => cancelReq'[m] = cancelReq[m], ~cancelReq'[n]
    PROVE  CarefulInv'
<1>1. \A m \in Node : m # n => task[m] \notin Live
  BY DEF PatientInv, SingleRunner, LiveTasks
<1>2. \A m \in Node : ~cancelReq'[m]
  BY <1>1 DEF CarefulInv
<1>3. CASE queue = <<>>
  BY <1>2, <1>3 DEF ProcessNext, CarefulInv, BusyHasTask
<1>4. CASE queue # <<>>
  <2>1. queue \in Seq(Node) /\ task \in [Node -> TaskStates]
    BY DEF TypeOK
  <2>2. /\ queue' = Tail(queue)
        /\ Head(queue) = queue[1] /\ 1 \in DOMAIN queue /\ Head(queue) \in Node
        /\ \A i \in DOMAIN queue' : i + 1 \in DOMAIN queue /\ queue'[i] = queue[i + 1]
    BY <1>4, <2>1, HeadTailProperties, LenProperties DEF ProcessNext, Dequeue
  <2>3. Head(queue) \in nodes
    BY <2>2 DEF CarefulInv
  <2>4. task'[Head(queue)] = "scheduled"
    BY <1>4, <2>1, <2>2, <2>3 DEF ProcessNext
  <2>5. BusyHasTask'
    BY <2>2, <2>4 DEF BusyHasTask, LiveTasks, Live
  <2>6. \A i \in DOMAIN queue' : queue'[i] \in nodes'
    BY <2>2 DEF CarefulInv
  <2>7. QED
    BY <1>2, <2>5, <2>6 DEF CarefulInv
<1>5. QED
  BY <1>3, <1>4

\* A patient reply waits behind a live task, or gets a task with no cancellation pending.
LEMMA CarefulReply ==
    ASSUME TypeOK, QueueInv, CarefulInv, NEW n \in Node, NEW p \in Node, Reply(n, p),
           isProcessing \/ LiveTasks = {}
    PROVE  CarefulInv'
<1>1. nodes' = nodes \union {n} /\ UNCHANGED cancelReq /\ task \in [Node -> TaskStates]
  BY DEF Reply, TypeOK
<1>2. CASE isProcessing
  <2>1. queue' = Append(queue, n) /\ UNCHANGED <<isProcessing, task>>
    BY <1>2 DEF Reply, Busy, Enqueue
  <2>2. \A i \in DOMAIN queue' : queue'[i] \in nodes'
    BY <1>1, <2>1, AppendProperties, LenProperties DEF TypeOK, CarefulInv
  <2>3. QED
    BY <1>1, <2>1, <2>2 DEF CarefulInv, BusyHasTask, LiveTasks
<1>3. CASE ~isProcessing
  <2>1. isProcessing' /\ task' = [task EXCEPT ![n] = "scheduled"] /\ queue' = queue
    BY <1>3 DEF Reply, Busy
  <2>2. \A m \in Node : ~cancelReq'[m]
    BY <1>1, <1>3 DEF CarefulInv, LiveTasks
  <2>3. n \in LiveTasks'
    BY <1>1, <2>1 DEF LiveTasks, Live
  <2>4. QED
    BY <1>1, <2>1, <2>2, <2>3 DEF CarefulInv, BusyHasTask
<1>4. QED
  BY <1>2, <1>3

\* A command that cancels, with S taken out of the queue, no task being at its start.
LEMMA CarefulCancel ==
    ASSUME TypeOK, CarefulInv, NEW S, RemoveFromQueue(S),
           UNCHANGED <<nodes, isProcessing, task>>, task[currentTask] # "scheduled",
           CancelCurrentTask \/ UNCHANGED cancelReq
    PROVE  CarefulInv'
<1>1. \A i \in DOMAIN queue' : queue'[i] \in nodes'
  BY KeptOrder DEF CarefulInv
<1>2. \A m \in Node : cancelReq'[m] => cancelReq[m] \/ (m = currentTask /\ task[m] \in Live)
  BY DEF CancelCurrentTask, TypeOK
<1>3. QED
  BY <1>1, <1>2 DEF CarefulInv, BusyHasTask, LiveTasks

LEMMA CarefulCancelAll ==
    ASSUME TypeOK, CarefulInv, CancelAllNodes, UNCHANGED nodes
    PROVE  CarefulInv'
<1>1. queue' = <<>> /\ isProcessing' = FALSE /\ UNCHANGED task /\ CancelCurrentTask
  BY DEF CancelAllNodes, DrainQueue
<1>2. \A m \in Node : cancelReq'[m] => cancelReq[m] \/ task[m] \in Live
  BY <1>1 DEF CancelCurrentTask, TypeOK
<1>3. QED
  BY <1>1, <1>2 DEF CarefulInv, BusyHasTask

LEMMA CarefulStep ==
    ASSUME TypeOK, QueueInv, PatientInv, CarefulInv, [CarefulNext]_vars
    PROVE  CarefulInv'
<1> USE DEF treeVars, procVars, taskVars, historyVars
<1>1. task \in [Node -> TaskStates] /\ cancelReq \in [Node -> BOOLEAN]
  BY DEF TypeOK
<1>2. ASSUME NEW n \in Node, NEW p \in Node, Reply(n, p), isProcessing \/ LiveTasks = {}
      PROVE  CarefulInv'
  BY <1>2, CarefulReply
<1>3. ASSUME NEW n \in Node, Start(n)
      PROVE  CarefulInv'
  BY <1>3, CarefulOwn DEF Start, Live
<1>4. ASSUME NEW n \in Node, Skip(n) \/ Release(n)
      PROVE  CarefulInv'
  <2>1. \A m \in Node : m # n => cancelReq'[m] = cancelReq[m]
    BY <1>1, <1>4 DEF Skip, Release
  <2>2. ~cancelReq'[n] /\ task[n] \in Live
    BY <1>1, <1>4 DEF Skip, Release, Live
  <2>3. QED
    BY <1>4, <2>1, <2>2, CarefulEnd DEF Skip, Release
<1>5. ASSUME NEW n \in Node, DieUnstarted(n)
      PROVE  CarefulInv'
  <2>1. ~isProcessing /\ UNCHANGED <<nodes, queue, isProcessing>>
    BY <1>5 DEF DieUnstarted, CarefulInv
  <2>2. \A m \in Node : cancelReq'[m] => m # n /\ cancelReq[m] /\ task'[m] = task[m]
    BY <1>1, <1>5 DEF DieUnstarted
  <2>3. QED
    BY <2>1, <2>2 DEF CarefulInv, BusyHasTask
<1>6. ASSUME NEW n \in Node, SessionInfo(n) \/ ErrorEvent(n)
      PROVE  CarefulInv'
  BY <1>6 DEF SessionInfo, ErrorEvent, CarefulInv, BusyHasTask, LiveTasks
<1>7. ASSUME NEW n \in Node, CliEnd(n)
      PROVE  CarefulInv'
  BY <1>7, CarefulOwn DEF CliEnd, ExitOk, ExitFail, Raise, Live
<1>8. ASSUME NEW n \in Node, DeliverCancel(n)
      PROVE  CarefulInv'
  <2>1. \A m \in Node : cancelReq'[m] => cancelReq[m]
    BY <1>1, <1>8 DEF DeliverCancel
  <2>2. QED
    BY <1>8, <2>1, CarefulOwn DEF DeliverCancel, Live
<1>9. ASSUME NEW n \in Node, CancelDone(n)
      PROVE  CarefulInv'
  <2>1. \A m \in Node : cancelReq'[m] => cancelReq[m]
    BY <1>1, <1>9 DEF CancelDone
  <2>2. QED
    BY <1>9, <2>1, CarefulOwn DEF CancelDone, Live
<1>10. ASSUME NEW n \in Node, CancelNode(n) \/ ClearBranchBegin(n), task[currentTask] # "scheduled"
       PROVE  CarefulInv'
  <2>1. PICK S : RemoveFromQueue(S)
    BY <1>10 DEF CancelNode, ClearBranchBegin
  <2>2. QED
    BY <1>10, <2>1, CarefulCancel DEF CancelNode, ClearBranchBegin
<1>11. ASSUME NEW n \in Node, RemoveBranch(n), Descendants(n) \intersect Queued = {}
       PROVE  CarefulInv'
  <2>1. \A i \in DOMAIN queue : queue[i] \in nodes'
    BY <1>11 DEF RemoveBranch, CarefulInv, Queued, Range
  <2>2. QED
    BY <1>11, <2>1 DEF RemoveBranch, CarefulInv, BusyHasTask, LiveTasks
<1>12. CASE CancelTree \/ RemoveTree \/ UNCHANGED vars
  <2>1. CASE CancelAllNodes /\ UNCHANGED nodes
    BY <2>1, CarefulCancelAll
  <2>2. CASE UNCHANGED <<nodes, queue, isProcessing, task, cancelReq>>
    BY <2>2 DEF CarefulInv, BusyHasTask, LiveTasks
  <2>3. QED
    BY <1>12, <2>1, <2>2 DEF CancelTree, RemoveTree, vars
<1>13. QED
  BY <1>2, <1>3, <1>4, <1>5, <1>6, <1>7, <1>8, <1>9, <1>10, <1>11, <1>12
     DEF CarefulNext, Step, TaskStep, CliEvent, ClearBranchEnd, RemoveBranch

(* A busy tree has a task that will take the next message, when no message is
   stopped before its task's first step, or cleared while it is queued.     *)
THEOREM NoBusyTreeIsDead == CarefulSpec => []BusyHasTask
<1> DEFINE Inv == TypeOK /\ QueueInv /\ PatientInv /\ CarefulInv
<1>1. Init => Inv
  BY TypingInit, QueueInit, PatientInit, CarefulInit
<1>2. Inv /\ [CarefulNext]_vars => Inv'
  BY TypingStep, QueueStep, PatientStep, CarefulStep DEF CarefulNext
<1>3. Inv => BusyHasTask
  BY DEF CarefulInv
<1>4. QED
  BY <1>1, <1>2, <1>3, PTL DEF CarefulSpec

-----------------------------------------------------------------------------
(* For patient users a conversation implements FifoServer. *)

ServerInv == TypeOK /\ QueueInv /\ PatientInv

\* At most one message is served, and it is not waiting.
LEMMA OneServed ==
    ASSUME ServerInv
    PROVE  /\ \A n \in Served : Serving = n /\ n # NoNode /\ Served = {n}
           /\ Served = {} => Serving = NoNode
           /\ Served \subseteq Arrived \ WaitingNodes /\ WaitingNodes \subseteq Arrived
           /\ WaitingNodes \subseteq Node
           /\ \A n \in Node : task[n] \in Live => Served \subseteq {n} /\ n \in Arrived
<1>1. \A m, n \in Served : m = n
  BY DEF ServerInv, PatientInv, SingleRunner, Served
<1>2. Served # {} => Serving \in Served
  BY DEF Serving
<1>3. Served \subseteq Node /\ NoNode \notin Served
  BY NoNodeIsNoNode DEF Served, LiveTasks
<1>4. WaitingNodes \subseteq Node
  BY ElementOfSeq, LenProperties DEF WaitingNodes, Queued, Range, ServerInv, TypeOK
<1>5. \A n \in WaitingNodes : task[n] = "none" /\ state[n] # "absent"
  BY <1>4 DEF WaitingNodes, Queued, Range, ServerInv, QueueInv, NoRequeue
<1>6. \A n \in Node : task[n] \in Live => n \in Arrived
  BY DEF ServerInv, QueueInv, Live, Arrived
<1>7. \A n \in Node : task[n] \in Live => Served \subseteq {n}
  BY DEF ServerInv, PatientInv, SingleRunner, Served, LiveTasks
<1>8. Served \subseteq Arrived \ WaitingNodes /\ WaitingNodes \subseteq Arrived
  BY <1>3, <1>4, <1>5, <1>6 DEF Served, LiveTasks, Live, Arrived
<1>9. QED
  BY <1>1, <1>2, <1>3, <1>4, <1>6, <1>7, <1>8 DEF Serving

\* What stays in the queue after remove_if_present stays in its order.
LEMMA KeptAhead ==
    ASSUME TypeOK, NEW S, RemoveFromQueue(S)
    PROVE  /\ Queued' = Queued \ S
           /\ \A m, n \in Queued \ S : Ahead(m, n)' <=> Ahead(m, n)
<1> DEFINE stay == {i \in DOMAIN queue : queue[i] \notin S}
<1>1. PICK f \in Kept(queue, S) : queue' = [i \in DOMAIN f |-> queue[f[i]]]
  BY DEF RemoveFromQueue
<1>2. /\ f \in [1 .. Cardinality(stay) -> stay] /\ Range(f) = stay
      /\ \A i, j \in DOMAIN f : i < j => f[i] < f[j]
  BY <1>1 DEF Kept
<1>3. /\ DOMAIN queue' = DOMAIN f
      /\ \A i \in DOMAIN f : queue'[i] = queue[f[i]] /\ f[i] \in stay
      /\ \A k \in stay : \E i \in DOMAIN f : f[i] = k
  BY <1>1, <1>2 DEF Range
<1>4. DOMAIN queue \subseteq Int /\ DOMAIN queue' \subseteq Int
  BY RemoveFromQueueType, LenProperties DEF TypeOK
<1>5. Queued' = Queued \ S
  BY <1>3 DEF Queued, Range
<1>6. ASSUME NEW m \in Queued \ S, NEW n \in Queued \ S, Ahead(m, n)'
      PROVE  Ahead(m, n)
  BY <1>2, <1>3, <1>6 DEF Ahead
<1>7. ASSUME NEW m \in Queued \ S, NEW n \in Queued \ S, Ahead(m, n)
      PROVE  Ahead(m, n)'
  <2>1. PICK i, j \in DOMAIN queue : i < j /\ queue[i] = m /\ queue[j] = n
    BY <1>7 DEF Ahead
  <2>2. PICK a, b \in DOMAIN f : f[a] = i /\ f[b] = j
    BY <1>3, <2>1
  <2>3. a < b
    BY <1>2, <1>3, <1>4, <2>1, <2>2
  <2>4. QED
    BY <1>3, <2>1, <2>2, <2>3 DEF Ahead
<1>8. QED
  BY <1>5, <1>6, <1>7

(* A step after which those of S wait no more, the others wait in their order,
   and the message being served is served or nobody is.                     *)
LEMMA DropStep ==
    ASSUME ServerInv, ServerInv', NEW S \in SUBSET Node,
           WaitingNodes' = WaitingNodes \ S,
           \A m, n \in WaitingNodes \ S : Ahead(m, n)' <=> Ahead(m, n),
           Arrived' = Arrived, Served' \in {Served, {}}
    PROVE  Fifo!Next
<1>1. Waiting' = [n \in WaitingNodes' |-> {m \in WaitingNodes' : Ahead(m, n)'}]
  BY DEF Waiting
<1>2. /\ DOMAIN Waiting = WaitingNodes
      /\ \A n \in WaitingNodes : Waiting[n] = {m \in WaitingNodes : Ahead(m, n)}
  BY DEF Waiting
<1>3. \A n \in WaitingNodes \ S : {m \in WaitingNodes' : Ahead(m, n)'} = Waiting[n] \ S
  BY <1>2
<1>4. Waiting' = Fifo!Without(S)
  BY <1>1, <1>2, <1>3 DEF Fifo!Without
<1>5. Gone' = Arrived \ ((WaitingNodes \ S) \union Served')
  BY DEF Gone
<1>6. Served \subseteq Arrived \ WaitingNodes /\ WaitingNodes \subseteq Arrived
  BY OneServed
<1>7. CASE Served' = Served
  <2>1. Serving' = Serving
    BY <1>7 DEF Serving
  <2>2. Gone' = Gone \union (S \intersect DOMAIN Waiting)
    BY <1>2, <1>5, <1>6, <1>7 DEF Gone
  <2>3. QED
    BY <1>4, <2>1, <2>2 DEF Fifo!Next, Fifo!Drop
<1>8. CASE Served' = {}
  <2>1. Serving' = NoNode
    BY <1>8 DEF Serving
  <2>2. {Serving} \ {NoNode} = Served
    BY OneServed
  <2>3. Gone' = Gone \union (S \intersect DOMAIN Waiting) \union Served
    BY <1>2, <1>5, <1>6, <1>8 DEF Gone
  <2>4. QED
    BY <1>4, <2>1, <2>2, <2>3 DEF Fifo!Next, Fifo!Drop, Fifo!Leave
<1>9. QED
  BY <1>7, <1>8

\* The updates of a node's state, as the server sees them.
LEMMA UpdatesSeen ==
    ASSUME TypeOK
    PROVE  /\ \A S \in SUBSET Node, m \in Node :
                WithErrors(S)[m] = IF m \in S THEN "error" ELSE state[m]
           /\ \A n \in Node : \E S \in SUBSET nodes :
                WithFailure(n) = WithErrors(S) /\ \A m \in S : m = n \/ state[m] = "pending"
           /\ \A n, m \in Node, s \in States :
                WithState(n, s)[m] = IF m = n /\ n \in nodes THEN s ELSE state[m]
<1>1. \A S \in SUBSET Node, m \in Node : WithErrors(S)[m] = IF m \in S THEN "error" ELSE state[m]
  BY DEF WithErrors
<1>2. ASSUME NEW n \in Node
      PROVE  \E S \in SUBSET nodes :
               WithFailure(n) = WithErrors(S) /\ \A m \in S : m = n \/ state[m] = "pending"
  <2>1. CASE known /\ n \in nodes
    <3>1. PendingChildren(n) \subseteq {c \in nodes : state[c] = "pending"}
      BY DEF PendingChildren, Below
    <3>2. WithFailure(n) = WithErrors({n} \union PendingChildren(n))
      BY <2>1 DEF WithFailure
    <3> QED
      BY <2>1, <3>1, <3>2
  <2>2. CASE ~(known /\ n \in nodes)
    <3>1. WithFailure(n) = WithErrors({})
      BY <2>2 DEF WithFailure, WithErrors, TypeOK
    <3> QED
      BY <3>1
  <2> QED
    BY <2>1, <2>2
<1>3. \A n, m \in Node, s \in States :
        WithState(n, s)[m] = IF m = n /\ n \in nodes THEN s ELSE state[m]
  BY DEF WithState, TypeOK
<1> QED
  BY <1>1, <1>2, <1>3

\* A step that leaves the queue alone and puts the nodes of S in ERROR.
LEMMA ErrorsSeen ==
    ASSUME ServerInv, ServerInv', NEW S \in SUBSET Node, UNCHANGED queue,
           \A m \in Queued : state'[m] = "error" <=> m \in S \/ state[m] = "error",
           \A m \in Node : state'[m] = "absent" <=> state[m] = "absent",
           Served' \in {Served, {}}
    PROVE  Fifo!Next
<1>1. WaitingNodes' = WaitingNodes \ S
  BY DEF WaitingNodes, Queued
<1>2. \A m, n \in WaitingNodes \ S : Ahead(m, n)' <=> Ahead(m, n)
  BY DEF Ahead
<1>3. Arrived' = Arrived
  BY DEF Arrived
<1> QED
  BY <1>1, <1>2, <1>3, DropStep

\* A step of the one task there is, which leaves the queue alone.
LEMMA OwnSeen ==
    ASSUME ServerInv, ServerInv', NEW n \in Node, task[n] \in Live, UNCHANGED queue,
           \A m \in Node : m # n => task'[m] = task[m],
           \E S \in SUBSET Node : \A m \in Node : m # n =>
             (state'[m] = IF m \in S /\ state[m] # "absent" THEN "error" ELSE state[m]),
           state'[n] # "absent",
           \/ n \in Served /\ n \in Served'
           \/ n \notin Served'
    PROVE  Fifo!Next
<1>1. PICK S \in SUBSET Node : \A m \in Node : m # n =>
             (state'[m] = IF m \in S /\ state[m] # "absent" THEN "error" ELSE state[m])
  OBVIOUS
<1>2. Served \subseteq {n} /\ state[n] # "absent"
  BY OneServed DEF Arrived
<1>3. \A m \in Node : m # n => task[m] \notin Live
  BY DEF ServerInv, PatientInv, SingleRunner, LiveTasks
<1>4. Served' \subseteq {n}
  BY <1>3 DEF Served, LiveTasks
<1>5. Served' \in {Served, {}}
  BY <1>2, <1>4
<1>6. \A m \in Queued : m \in Node /\ m # n /\ state[m] # "absent"
  BY ElementOfSeq, LenProperties DEF Queued, Range, ServerInv, TypeOK, QueueInv, NoRequeue, Live
<1>7. \A m \in Queued : state'[m] = "error" <=> m \in S \/ state[m] = "error"
  BY <1>1, <1>6
<1>8. \A m \in Node : state'[m] = "absent" <=> state[m] = "absent"
  BY <1>1, <1>2
<1> QED
  BY <1>5, <1>7, <1>8, ErrorsSeen

\* A command that puts the nodes of S in ERROR and takes those of T out of the queue.
LEMMA CommandSeen ==
    ASSUME ServerInv, ServerInv', NEW S \in SUBSET Node, NEW T \in SUBSET Node,
           state' = WithErrors(S), UNCHANGED task, \A m \in S : state[m] # "absent",
           Queued' = Queued \ T, \A m, n \in Queued \ T : Ahead(m, n)' <=> Ahead(m, n)
    PROVE  Fifo!Next
<1> DEFINE D == S \union T
<1>1. \A m \in Node : state'[m] = IF m \in S THEN "error" ELSE state[m]
  BY UpdatesSeen DEF ServerInv
<1>2. Queued \subseteq Node
  BY ElementOfSeq, LenProperties DEF Queued, Range, ServerInv, TypeOK
<1>3. WaitingNodes' = WaitingNodes \ D
  BY <1>1, <1>2 DEF WaitingNodes
<1>4. \A m, n \in WaitingNodes \ D : Ahead(m, n)' <=> Ahead(m, n)
  BY DEF WaitingNodes
<1>5. Arrived' = Arrived
  BY <1>1 DEF Arrived
<1>6. Served' \subseteq Served
  BY <1>1 DEF Served, LiveTasks
<1>7. \A n \in Served : Served = {n}
  BY OneServed
<1>8. Served' \in {Served, {}}
  BY <1>6, <1>7
<1> QED
  BY <1>3, <1>4, <1>5, <1>8, DropStep

\* The end of the one task there is: the head of the queue is served, skipped or lost.
LEMMA NextSeen ==
    ASSUME ServerInv, ServerInv', NEW n \in Node, task[n] \in Live,
           ProcessNext([task EXCEPT ![n] = "done"]), UNCHANGED state
    PROVE  Fifo!Next
<1>1. /\ queue \in Seq(Node) /\ task \in [Node -> TaskStates]
      /\ \A m \in Node : m # n => task[m] \notin Live
      /\ \A i \in DOMAIN queue : queue[i] \in Node /\ queue[i] # n
      /\ \A i, j \in DOMAIN queue : queue[i] = queue[j] => i = j
      /\ DOMAIN queue \subseteq Nat \ {0}
  BY ElementOfSeq, LenProperties
     DEF ServerInv, TypeOK, PatientInv, SingleRunner, LiveTasks, QueueInv, NoRequeue, Live
<1>2. Arrived' = Arrived
  BY DEF Arrived
<1>3. CASE queue = <<>>
  <2>1. task' = [task EXCEPT ![n] = "done"] /\ UNCHANGED queue
    BY <1>3 DEF ProcessNext
  <2>2. Served' = {}
    BY <1>1, <2>1 DEF Served, LiveTasks, Live
  <2>3. WaitingNodes' = WaitingNodes \ {} /\ \A m, k \in WaitingNodes : Ahead(m, k)' <=> Ahead(m, k)
    BY <2>1 DEF WaitingNodes, Queued, Ahead
  <2> QED
    BY <1>2, <2>2, <2>3, DropStep
<1>4. CASE queue # <<>>
  <2> DEFINE h == Head(queue)
  <2>1. /\ queue' = Tail(queue)
        /\ task' = IF h \in nodes THEN [[task EXCEPT ![n] = "done"] EXCEPT ![h] = "scheduled"]
                                  ELSE [task EXCEPT ![n] = "done"]
    BY <1>4 DEF ProcessNext, Dequeue
  <2>2. /\ h = queue[1] /\ 1 \in DOMAIN queue /\ h \in Node /\ h # n
        /\ \A i \in DOMAIN queue' : /\ i \in Nat \ {0} /\ i + 1 \in DOMAIN queue
                                  /\ queue'[i] = queue[i + 1]
        /\ \A i \in DOMAIN queue : i # 1 => i - 1 \in DOMAIN queue' /\ (i - 1) + 1 = i
    BY <1>1, <1>4, <2>1, HeadTailProperties, LenProperties
  <2> HIDE DEF h
  <2>3. Queued' = Queued \ {h}
    <3>1. \A i \in DOMAIN queue' : i + 1 # 1
      BY <2>2
    <3>2. \A i \in DOMAIN queue' : queue'[i] # h
      BY <1>1, <2>2, <3>1
    <3>3. \A i \in DOMAIN queue : queue[i] = h \/ queue'[i - 1] = queue[i]
      BY <2>2
    <3> QED
      BY <2>2, <3>2, <3>3 DEF Queued, Range
  <2>4. ASSUME NEW m \in Queued \ {h}, NEW k \in Queued \ {h}
        PROVE  Ahead(m, k)' <=> Ahead(m, k)
    <3>1. ASSUME Ahead(m, k)' PROVE Ahead(m, k)
      <4>1. PICK i, j \in DOMAIN queue' : i < j /\ queue'[i] = m /\ queue'[j] = k
        BY <3>1 DEF Ahead
      <4>2. i + 1 < j + 1
        BY <2>2, <4>1
      <4> QED
        BY <2>2, <4>1, <4>2 DEF Ahead
    <3>2. ASSUME Ahead(m, k) PROVE Ahead(m, k)'
      <4>1. PICK i, j \in DOMAIN queue : i < j /\ queue[i] = m /\ queue[j] = k
        BY <3>2 DEF Ahead
      <4>2. i # 1 /\ j # 1 /\ i - 1 < j - 1
        BY <1>1, <2>2, <4>1
      <4>3. queue'[i - 1] = m /\ queue'[j - 1] = k /\ i - 1 \in DOMAIN queue' /\ j - 1 \in DOMAIN queue'
        BY <2>2, <4>1, <4>2
      <4> QED
        BY <4>2, <4>3 DEF Ahead
    <3> QED
      BY <3>1, <3>2
  <2>5. WaitingNodes' = WaitingNodes \ {h} /\ h \in Queued
    BY <2>2, <2>3 DEF WaitingNodes, Queued, Range
  <2>6. Served' \subseteq {h}
    BY <1>1, <2>1, <2>2 DEF Served, LiveTasks, Live
  <2>7. CASE Served' = {}
    <3>1. \A m, k \in WaitingNodes \ {h} : Ahead(m, k)' <=> Ahead(m, k)
      BY <2>4 DEF WaitingNodes
    <3>2. {h} \in SUBSET Node /\ Served' \in {Served, {}}
      BY <2>2, <2>7
    <3> QED
      BY <1>2, <2>5, <3>1, <3>2, DropStep
  <2>8. CASE h \in Served'
    <3>1. /\ task'[h] \in Live /\ (task'[h] # "scheduled" \/ state[h] # "error")
          /\ task[h] \notin Live
      BY <1>1, <2>2, <2>8 DEF Served, LiveTasks
    <3>2. task'[h] = "scheduled" /\ h \in WaitingNodes
      BY <1>1, <2>1, <2>2, <2>5, <3>1 DEF WaitingNodes
    <3>3. \A m \in WaitingNodes : ~Ahead(m, h)
      BY <1>1, <2>2 DEF Ahead
    <3>4. Waiting[h] = {} /\ h \in DOMAIN Waiting
      BY <3>2, <3>3 DEF Waiting
    <3>5. Serving' = h
      BY <2>6, <2>8 DEF Serving
    <3>6. Waiting' = Fifo!Without({h})
      <4>1. Waiting' = [k \in WaitingNodes' |-> {m \in WaitingNodes' : Ahead(m, k)'}]
        BY DEF Waiting
      <4>2. /\ DOMAIN Waiting = WaitingNodes
            /\ \A k \in WaitingNodes : Waiting[k] = {m \in WaitingNodes : Ahead(m, k)}
        BY DEF Waiting
      <4>3. WaitingNodes \subseteq Queued
        BY DEF WaitingNodes
      <4>4. \A k \in WaitingNodes \ {h} : {m \in WaitingNodes' : Ahead(m, k)'} = Waiting[k] \ {h}
        BY <2>4, <2>5, <4>2, <4>3
      <4> QED
        BY <2>5, <4>1, <4>2, <4>4 DEF Fifo!Without
    <3>7. Served' = {h}
      BY <2>6, <2>8
    <3>8. Gone' = Gone \union {} \union ({Serving} \ {NoNode})
      <4>1. {Serving} \ {NoNode} = Served
        BY OneServed
      <4>2. Served \subseteq Arrived \ WaitingNodes /\ WaitingNodes \subseteq Arrived
        BY OneServed
      <4>3. Gone' = Arrived \ ((WaitingNodes \ {h}) \union {h})
        BY <1>2, <2>5, <3>7 DEF Gone
      <4> QED
        BY <3>2, <4>1, <4>2, <4>3 DEF Gone
    <3> QED
      BY <2>2, <3>4, <3>5, <3>6, <3>8 DEF Fifo!Next, Fifo!ServeNext, Fifo!Leave
  <2> QED
    BY <2>6, <2>7, <2>8
<1> QED
  BY <1>3, <1>4

\* A patient reply joins the line, or is served when there is none.
LEMMA ReplySeen ==
    ASSUME ServerInv, ServerInv', NEW n \in Node, NEW p \in Node, Reply(n, p),
           isProcessing \/ LiveTasks = {}
    PROVE  Fifo!Next
<1>1. /\ state[n] = "absent" /\ task[n] = "none" /\ queue \in Seq(Node)
      /\ \A m \in Node : state'[m] = IF m = n THEN "pending" ELSE state[m]
      /\ n \notin Queued
  BY DEF Reply, ServerInv, QueueInv, TypeOK, Queued, Range, Busy, Enqueue
<1>2. Arrived' = Arrived \union {n} /\ n \notin Arrived
  BY <1>1 DEF Arrived
<1>3. Queued \subseteq Node
  BY <1>1, ElementOfSeq, LenProperties DEF Queued, Range
<1>4. Fifo!Fresh(n)
  <2>1. n \notin Gone /\ n \notin DOMAIN Waiting
    BY <1>1, <1>2 DEF Gone, Waiting, WaitingNodes
  <2>2. n # Serving
    BY <1>2, OneServed, NoNodeIsNoNode
  <2> QED
    BY <2>1, <2>2 DEF Fifo!Fresh
<1>5. CASE isProcessing
  <2>1. queue' = Append(queue, n) /\ UNCHANGED task
    BY <1>5 DEF Reply, Busy, Enqueue
  <2>2. /\ DOMAIN queue' = DOMAIN queue \union {Len(queue) + 1}
        /\ \A i \in DOMAIN queue : queue'[i] = queue[i] /\ i \in Nat /\ i < Len(queue) + 1
        /\ queue'[Len(queue) + 1] = n /\ Len(queue) \in Nat
    BY <1>1, <2>1, AppendProperties, LenProperties
  <2>3. Queued' = Queued \union {n}
    BY <2>2 DEF Queued, Range
  <2>4. WaitingNodes' = WaitingNodes \union {n} /\ n \notin WaitingNodes /\ WaitingNodes \subseteq Queued
    BY <1>1, <1>3, <2>3 DEF WaitingNodes
  <2>5. \A m \in Queued : Ahead(m, n)' /\ ~Ahead(n, m)'
    <3>1. ASSUME NEW m \in Queued PROVE Ahead(m, n)'
      <4>1. PICK i \in DOMAIN queue : queue[i] = m
        BY DEF Queued, Range
      <4> QED
        BY <2>2, <4>1 DEF Ahead
    <3>2. ASSUME NEW m \in Queued, Ahead(n, m)' PROVE FALSE
      <4>1. PICK i, j \in DOMAIN queue' : i < j /\ queue'[i] = n /\ queue'[j] = m
        BY <3>2 DEF Ahead
      <4>2. i = Len(queue) + 1
        BY <1>1, <2>2, <4>1 DEF Queued, Range
      <4> QED
        BY <1>1, <2>2, <4>1, <4>2
    <3> QED
      BY <3>1, <3>2
  <2>6. ASSUME NEW m \in Queued, NEW k \in Queued
        PROVE  Ahead(m, k)' <=> Ahead(m, k)
    <3>1. Ahead(m, k) => Ahead(m, k)'
      BY <2>2 DEF Ahead
    <3>2. Ahead(m, k)' => Ahead(m, k)
      BY <1>1, <2>2 DEF Ahead
    <3> QED
      BY <3>1, <3>2
  <2>7. ~Ahead(n, n)'
    <3>1. ASSUME NEW i \in DOMAIN queue', queue'[i] = n PROVE i = Len(queue) + 1
      BY <1>1, <2>2, <3>1 DEF Queued, Range
    <3> QED
      BY <2>2, <3>1 DEF Ahead
  <2>8. /\ DOMAIN Waiting = WaitingNodes
        /\ \A k \in WaitingNodes : Waiting[k] = {m \in WaitingNodes : Ahead(m, k)}
    BY DEF Waiting
  <2>9. Waiting' = [k \in WaitingNodes' |-> {m \in WaitingNodes' : Ahead(m, k)'}]
    BY DEF Waiting
  <2>10. {m \in WaitingNodes' : Ahead(m, n)'} = WaitingNodes
    BY <2>4, <2>5, <2>7
  <2>11. \A k \in WaitingNodes : {m \in WaitingNodes' : Ahead(m, k)'} = Waiting[k]
    BY <2>4, <2>5, <2>6, <2>8
  <2>12. Waiting' = [k \in DOMAIN Waiting \union {n} |-> IF k = n THEN DOMAIN Waiting ELSE Waiting[k]]
    BY <2>4, <2>8, <2>9, <2>10, <2>11
  <2>13. Served' = Served
    BY <1>1, <2>1 DEF Served, LiveTasks, Live
  <2>14. Serving' = Serving /\ Gone' = Gone
    BY <1>2, <2>4, <2>13 DEF Serving, Gone
  <2> QED
    BY <1>4, <2>12, <2>14 DEF Fifo!Next, Fifo!Submit
<1>6. CASE ~isProcessing
  <2>1. queue = <<>> /\ UNCHANGED queue /\ task' = [task EXCEPT ![n] = "scheduled"] /\ LiveTasks = {}
    BY <1>6 DEF Reply, Busy, ServerInv, QueueInv, QueueGuarded
  <2>2. WaitingNodes = {} /\ WaitingNodes' = {}
    BY <2>1 DEF WaitingNodes, Queued, Range
  <2>3. Served = {} /\ Served' = {n}
    BY <1>1, <2>1 DEF Served, LiveTasks, Live, ServerInv, TypeOK
  <2>4. Serving = NoNode /\ Serving' = n
    BY <2>3 DEF Serving
  <2>5. Waiting' = Waiting /\ DOMAIN Waiting = {}
    BY <2>2 DEF Waiting
  <2>6. Gone' = Gone
    BY <1>2, <2>2, <2>3 DEF Gone
  <2> QED
    BY <1>4, <2>4, <2>5, <2>6 DEF Fifo!Next, Fifo!Serve
<1> QED
  BY <1>5, <1>6

LEMMA ServerInit == Init => Fifo!Init
<1> SUFFICES ASSUME Init PROVE Fifo!Init
  OBVIOUS
<1>1. Served = {Root} /\ WaitingNodes = {} /\ Arrived = {Root}
  BY RootIsNode DEF Init, Served, LiveTasks, Live, WaitingNodes, Queued, Range, Arrived
<1>2. Serving = Root
  BY <1>1 DEF Serving
<1>3. Gone = {}
  BY <1>1 DEF Gone
<1>4. Waiting = [n \in {} |-> {}]
  BY <1>1 DEF Waiting
<1> QED
  BY <1>2, <1>3, <1>4, RootIsNode DEF Fifo!Init

LEMMA ServerStep ==
    ASSUME ServerInv, ServerInv', PatientNext
    PROVE  Fifo!Next
<1> USE DEF treeVars, procVars, taskVars, historyVars
<1>1. /\ task \in [Node -> TaskStates] /\ state \in [Node -> States] /\ nodes \subseteq Node
      /\ \A n \in Node : task[n] \in Live => state[n] # "absent"
      /\ \A n \in nodes : state[n] # "absent"
  BY DEF ServerInv, TypeOK, QueueInv, Live
<1>2. /\ \A n, m \in Node, s \in States :
           WithState(n, s)[m] = IF m = n /\ n \in nodes THEN s ELSE state[m]
      /\ \A n \in Node : WithFailure(n) \in [Node -> States]
      /\ \A n \in Node : \E S \in SUBSET Node : \A m \in Node :
           WithFailure(n)[m] = IF m \in S /\ state[m] # "absent" THEN "error" ELSE state[m]
  <2>1. TypeOK
    BY DEF ServerInv
  <2>2. ASSUME NEW n \in Node
        PROVE  \E S \in SUBSET Node : \A m \in Node :
                 WithFailure(n)[m] = IF m \in S /\ state[m] # "absent" THEN "error" ELSE state[m]
    <3>1. PICK S \in SUBSET nodes : WithFailure(n) = WithErrors(S)
      BY <2>1, UpdatesSeen
    <3>2. \A m \in Node : WithErrors(S)[m] = IF m \in S THEN "error" ELSE state[m]
      BY <1>1, <2>1, UpdatesSeen
    <3>3. S \in SUBSET Node /\ \A m \in S : state[m] # "absent"
      BY <1>1
    <3> QED
      BY <3>1, <3>2, <3>3
  <2> QED
    BY <2>1, <2>2, UpdatesSeen, WithFailureType
<1>3. ASSUME NEW n \in Node, NEW p \in Node, Reply(n, p), isProcessing \/ LiveTasks = {}
      PROVE  Fifo!Next
  BY <1>3, ReplySeen
<1>4. ASSUME NEW n \in Node, Skip(n) \/ Release(n)
      PROVE  Fifo!Next
  BY <1>4, NextSeen DEF Skip, Release, Live
\* The other steps of a task: what the server sees of them is in OwnSeen.
<1> DEFINE Others(n) == \E S \in SUBSET Node : \A m \in Node : m # n =>
             (state'[m] = IF m \in S /\ state[m] # "absent" THEN "error" ELSE state[m])
           Unmoved(n) == UNCHANGED queue /\ \A m \in Node : m # n => task'[m] = task[m]
<1>5. ASSUME NEW n \in Node, \A m \in Node : m # n => state'[m] = state[m]
      PROVE  Others(n)
  <2> WITNESS {} \in SUBSET Node
  <2> QED
    BY <1>5
<1>6. ASSUME NEW n \in Node, Start(n)
      PROVE  Fifo!Next
  <2>1. Unmoved(n) /\ \A m \in Node : m # n => state'[m] = state[m]
    BY <1>1, <1>2, <1>6 DEF Start, States
  <2>2. task[n] \in Live /\ n \in Served /\ n \in Served' /\ state'[n] # "absent"
    BY <1>1, <1>2, <1>6 DEF Start, InError, Served, LiveTasks, Live, States
  <2> QED
    BY <1>5, <2>1, <2>2, OwnSeen
<1>7. ASSUME NEW n \in Node, DieUnstarted(n)
      PROVE  Fifo!Next
  <2>1. Unmoved(n) /\ \A m \in Node : m # n => state'[m] = state[m]
    BY <1>1, <1>7 DEF DieUnstarted
  <2>2. task[n] \in Live /\ n \notin Served' /\ state'[n] # "absent"
    BY <1>1, <1>7 DEF DieUnstarted, Served, LiveTasks, Live
  <2> QED
    BY <1>5, <2>1, <2>2, OwnSeen
<1>8. ASSUME NEW n \in Node, SessionInfo(n) \/ ExitOk(n) \/ DeliverCancel(n) \/ CancelDone(n)
      PROVE  Fifo!Next
  <2>1. Unmoved(n) /\ \A m \in Node : m # n => state'[m] = state[m]
    BY <1>1, <1>2, <1>8 DEF SessionInfo, ExitOk, DeliverCancel, CancelDone, States
  <2>2. task[n] \in Live /\ n \in Served /\ n \in Served'
    BY <1>1, <1>8 DEF SessionInfo, ExitOk, DeliverCancel, CancelDone, Listening, Served, LiveTasks, Live
  <2>3. state'[n] # "absent"
    BY <1>1, <1>2, <1>8, <2>2 DEF SessionInfo, ExitOk, DeliverCancel, CancelDone, States
  <2> QED
    BY <1>5, <2>1, <2>2, <2>3, OwnSeen
<1>9. ASSUME NEW n \in Node, ErrorEvent(n) \/ ExitFail(n) \/ Raise(n)
      PROVE  Fifo!Next
  <2>1. task[n] \in Live /\ n \in Served /\ n \in Served' /\ Unmoved(n)
    BY <1>1, <1>9 DEF ErrorEvent, ExitFail, Raise, Listening, Served, LiveTasks, Live
  <2>2. /\ \A m \in Node : m # n => state'[m] = WithFailure(n)[m]
        /\ state'[n] \in {WithFailure(n)[n], "completed"}
    BY <1>2, <1>9 DEF ErrorEvent, ExitFail, Raise
  <2>3. PICK S \in SUBSET Node : \A m \in Node :
           WithFailure(n)[m] = IF m \in S /\ state[m] # "absent" THEN "error" ELSE state[m]
    BY <1>2
  <2>4. Others(n)
    BY <2>2, <2>3
  <2>5. state'[n] # "absent"
    BY <1>1, <2>1, <2>2, <2>3
  <2> QED
    BY <2>1, <2>4, <2>5, OwnSeen
<1>10. ASSUME NEW n \in Node, CancelNode(n)
       PROVE  Fifo!Next
  <2>1. TypeOK /\ RemoveFromQueue({n}) /\ state' = WithErrors({n}) /\ UNCHANGED task
        /\ state[n] # "absent"
    BY <1>10 DEF CancelNode, Active, ServerInv
  <2>2. Queued' = Queued \ {n} /\ \A m, k \in Queued \ {n} : Ahead(m, k)' <=> Ahead(m, k)
    BY <2>1, KeptAhead
  <2> QED
    BY <2>1, <2>2, CommandSeen
<1>11. ASSUME NEW n \in Node, ClearBranchBegin(n)
       PROVE  Fifo!Next
  <2> DEFINE active == {m \in Descendants(n) : state[m] \in Active}
             T == active \ {currentNode}
  <2>1. TypeOK /\ RemoveFromQueue(T) /\ state' = WithErrors(active) /\ UNCHANGED task
    BY <1>11 DEF ClearBranchBegin, ServerInv
  <2>2. active \in SUBSET Node /\ T \in SUBSET Node /\ \A m \in active : state[m] # "absent"
    BY <1>1 DEF Descendants, Below, Active
  <2> HIDE DEF active
  <2>3. Queued' = Queued \ T /\ \A m, k \in Queued \ T : Ahead(m, k)' <=> Ahead(m, k)
    BY <2>1, KeptAhead
  <2> QED
    BY <2>1, <2>2, <2>3, CommandSeen
<1>12. ASSUME CancelAllNodes
       PROVE  Fifo!Next
  <2> DEFINE S == {n \in nodes : state[n] \in Active} \union (nodes \intersect Queued)
  <2>1. queue' = <<>> /\ state' = WithErrors(S) /\ UNCHANGED task
    BY <1>12 DEF CancelAllNodes, DrainQueue
  <2>2. S \in SUBSET Node /\ \A m \in S : state[m] # "absent"
    BY <1>1
  <2> HIDE DEF S
  <2>3. Queued' = Queued \ Node
    BY <2>1, ElementOfSeq, LenProperties DEF Queued, Range, ServerInv, TypeOK
  <2>4. Queued \ Node = {}
    BY ElementOfSeq, LenProperties DEF Queued, Range, ServerInv, TypeOK
  <2> QED
    BY <2>1, <2>2, <2>3, <2>4, CommandSeen
<1>13. ASSUME UNCHANGED <<queue, state, task>>
       PROVE  Fifo!Next
  <2>1. /\ WaitingNodes' = WaitingNodes \ {}
        /\ \A m, n \in WaitingNodes \ {} : Ahead(m, n)' <=> Ahead(m, n)
    BY <1>13 DEF WaitingNodes, Queued, Ahead
  <2>2. Arrived' = Arrived /\ Served' \in {Served, {}} /\ {} \in SUBSET Node
    BY <1>13 DEF Arrived, Served, LiveTasks
  <2> QED
    BY <2>1, <2>2, DropStep
<1>14. ASSUME NEW n \in Node, RemoveBranch(n)
       PROVE  Fifo!Next
  BY <1>13, <1>14 DEF RemoveBranch
<1>15. ASSUME RemoveTree \/ CancelTree
       PROVE  Fifo!Next
  BY <1>12, <1>13, <1>15 DEF RemoveTree, CancelTree
<1> QED
  BY <1>3, <1>4, <1>6, <1>7, <1>8, <1>9, <1>10, <1>11, <1>14, <1>15
     DEF PatientNext, Step, TaskStep, CliEvent, CliEnd, ClearBranchEnd

(* Messages are served one at a time, in the order in which they were sent, each
   at most once: for patient users a conversation implements FifoServer.    *)
THEOREM ServedInOrder == PatientSpec => FifoSafe
<1>1. Init => ServerInv
  BY TypingInit, QueueInit, PatientInit DEF ServerInv
<1>2. ServerInv /\ [PatientNext]_vars => ServerInv'
  BY TypingStep, QueueStep, PatientStep DEF PatientNext, ServerInv
<1>3. ServerInv /\ ServerInv' /\ [PatientNext]_vars => [Fifo!Next]_Fifo!vars
  <2>1. UNCHANGED vars => UNCHANGED Fifo!vars
    BY DEF vars, procVars, taskVars, Fifo!vars, Waiting, WaitingNodes, Queued, Ahead, Serving,
           Served, LiveTasks, Gone, Arrived
  <2> QED
    BY <2>1, ServerStep
<1>4. QED
  BY <1>1, <1>2, <1>3, ServerInit, PTL DEF PatientSpec, FifoSafe, Fifo!SafeSpec
=============================================================================
