--------------------------- MODULE MessageHandler ---------------------------
(* The conversations of a chat: ClaudeMessageHandler, the /stop and /clear
   commands, the repository of message trees and the store that keeps them for
   the next start (messaging/handler.py, commands.py, trees/, session.py,
   postgres_session.py, and the start in api/app.py).

   TreeQueue models one tree in detail.  Here there are several, and what is
   looked at is the code around them: a message is looked up before its status
   message is sent and added after it; /stop and /clear wait for the CLI and for
   the platform in the middle; a task saves its tree when it hears from the CLI,
   whatever has become of the tree.  Each action is the code between two points
   where it really waits.  discord.py handles messages concurrently; Telegram's
   updates come one after the other, which is a special case.

   Message ids are those of one chat.  A node is named by its message, its
   status message by Status(m), a tree by the message that opened it.  The
   parent's children and queue order are kept as in the code; texts are not. *)
EXTENDS Integers, Sequences, SequencesExt, FiniteSets

CONSTANTS Message,      \* the user's messages that are not commands
          Voice,        \* those that are voice notes
          None,         \* Python's None
          Backend,      \* "file" (SessionStore) or "postgres" (PostgresSessionStore)
          MaxInputs     \* how many messages, commands and restarts there are

ASSUME BackendIsKnown == Backend \in {"file", "postgres"}
ASSUME VoiceNotesAreMessages == Voice \subseteq Message /\ None \notin Message

VARIABLES
    up,         \* the platform is started
    pc,         \* how far the handling of each message is
    target,     \* the message it answers, then the parent node that was found
    pending,    \* _pending_voice: voice notes that may still be cancelled
    trees,      \* TreeRepository._trees: the roots of the trees it knows
    where,      \* TreeRepository._node_to_tree
    home,       \* the tree each node was added to
    parent,     \* MessageNode.parent_id
    inTree,     \* the nodes that are in the _nodes of their tree
    state,      \* MessageNode.state, "absent" when there is no node
    told,       \* the CLI has told the node's session id
    proc,       \* of each tree: _queue, _is_processing, _current_node_id, _current_task
    task,       \* where each node's task is
    cancelReq,  \* its cancel() was called, CancelledError not thrown yet
    sees,       \* the tree that _process_node_impl found is not None
    store,      \* the session store in memory: trees, and node_to_tree
    disk,       \* what SessionStore has written to its file
    command,    \* the /stop or /clear in progress
    interruptions, \* how many commands and restarts there were
    cleared,    \* history: the messages a /clear has removed
    overtaken,  \* history: those of messages handled during a /clear of everything
    escaped,    \* history: tasks that ran on, not cancelled, when their tree was dropped
    finished,   \* history: the nodes that were COMPLETED when the file was written
    lost,       \* history: messages the store had and the file not when the process ended
    revived     \* history: cleared messages that the file still had when it ended

handlingVars   == <<pc, target, pending>>
repositoryVars == <<trees, where, home, parent, inTree>>
taskVars       == <<told, task, cancelReq, sees>>
historyVars    == <<cleared, overtaken, escaped>>
fileVars       == <<disk, finished, lost, revived>>
countVars      == <<up, interruptions>>
vars == <<handlingVars, repositoryVars, state, proc, taskVars, store, command,
          historyVars, countVars, fileVars>>

-----------------------------------------------------------------------------
(* Trees. *)

Status(m) == <<"status", m>>
Ids       == Message \union {Status(m) : m \in Message}

\* The chat gives each message an id of its own.
ASSUME StatusIsNoMessage == \A m \in Message : Status(m) \notin Message

Active    == {"pending", "in_progress"}
States    == Active \union {"absent", "completed", "error"}
Live      == {"scheduled", "running", "cancelling", "cleanup"}

Idle == [queue |-> <<>>, busy |-> FALSE, current |-> None, last |-> None]

Nodes(r) == {m \in inTree : home[m] = r}

\* get_tree_for_node and resolve_parent_node_id.
TreeFor(id) == IF where[id] \in trees THEN where[id] ELSE None
Resolve(id) ==
    LET own == {m \in inTree : home[m] = TreeFor(id) /\ id \in {m, Status(m)}}
    IN  IF TreeFor(id) = None \/ own = {} THEN None ELSE CHOOSE m \in own : TRUE

\* A node and those above it; get_descendants; get_pending_children.
Line[m \in Message] == {m} \union (IF parent[m] = None THEN {} ELSE Line[parent[m]])
Descendants(n) == {m \in Nodes(home[n]) : n \in Line[m]}
PendingChildren(n) ==
    {m \in Descendants(n) \ {n} :
        \A k \in {m} \union (Line[m] \ Line[n]) : state[k] = "pending"}

Errors(S) == [m \in Message |-> IF m \in S THEN "error" ELSE state[m]]

\* update_state, from a task that has a tree: a node that left it is not changed.
Updated(n, s) == IF sees[n] /\ n \in inTree THEN [state EXCEPT ![n] = s] ELSE state

(* _SnapshotQueue.remove_if_present, for each member of S: what remains of the
   queue of the tree r, in its order.  Kept(q, S) holds one function, the
   increasing enumeration of the positions that stay.                       *)
Kept(q, S) ==
    LET stay == {i \in DOMAIN q : q[i] \notin S}
    IN  {f \in [1 .. Cardinality(stay) -> stay] :
           Range(f) = stay /\ \A i, j \in DOMAIN f : i < j => f[i] < f[j]}
RemoveFromQueue(r, S) ==
    \E f \in Kept(proc[r].queue, S) :
        proc' = [proc EXCEPT ![r].queue = [i \in DOMAIN f |-> @[f[i]]]]

-----------------------------------------------------------------------------
(* The store. *)

NoTree    == [m \in Message |-> "absent"]
EmptyStore == [trees |-> [r \in Message |-> NoTree], where |-> [id \in Ids |-> None]]
HasTree(s, r) == s.trees[r] # NoTree

\* MessageTree.to_dict, with the states st and the nodes ns.
ToDict(r, st, ns) == [m \in Message |-> IF m \in ns /\ home[m] = r THEN st[m] ELSE "absent"]

(* save_tree.  PostgresSessionStore deletes the tree's mappings first, also those
   of the status messages, and inserts those of the nodes.                  *)
Save(s, r, dict) ==
    [trees |-> [s.trees EXCEPT ![r] = dict],
     where |-> [id \in Ids |->
        IF id \in {m \in Message : dict[m] # "absent"} THEN r
        ELSE IF Backend = "postgres" /\ s.where[id] = r THEN None
        ELSE s.where[id]]]
\* One after the other: a node is in one tree only.
SaveAll(s, R, st, ns) ==
    [trees |-> [r \in Message |-> IF r \in R THEN ToDict(r, st, ns) ELSE s.trees[r]],
     where |-> [id \in Ids |->
        IF id \in {m \in ns : home[m] \in R /\ st[m] # "absent"} THEN home[id]
        ELSE IF Backend = "postgres" /\ s.where[id] \in R THEN None
        ELSE s.where[id]]]

(* register_node.  fcc_session_node_map.root_id references fcc_session_trees:
   without the tree PostgreSQL refuses the row.                             *)
Refuses(s, r) == Backend = "postgres" /\ ~HasTree(s, r)
RegisterNode(s, m, r) == [s EXCEPT !.where = [@ EXCEPT ![m] = r]]
RegisterBoth(s, m, r) ==
    [s EXCEPT !.where = [@ EXCEPT ![m] = r, ![Status(m)] = r]]

\* remove_node_mappings and remove_tree; PostgreSQL's foreign key cascades.
RemoveMappings(s, S) ==
    [s EXCEPT !.where = [id \in Ids |-> IF id \in S THEN None ELSE @[id]]]
KeptTree(s, r) == s
RemoveTree(s, r) ==
    [trees |-> [s.trees EXCEPT ![r] = NoTree],
     where |-> [id \in Ids |->
        IF id \in {m \in Message : s.trees[r][m] # "absent"}
           \/ (Backend = "postgres" /\ s.where[id] = r)
        THEN None ELSE s.where[id]]]

(* clear_all.  PostgreSQL does not truncate a table that another one references:
   the mappings are gone, then the statement for the trees raises.          *)
ClearAll(s) ==
    IF Backend = "file" THEN EmptyStore ELSE [s EXCEPT !.where = EmptyStore.where]

-----------------------------------------------------------------------------
Init ==
    /\ up = TRUE
    /\ pc = [m \in Message |-> "none"]
    /\ target = [m \in Message |-> None]
    /\ pending = {}
    /\ trees = {} /\ where = [id \in Ids |-> None]
    /\ home = [m \in Message |-> None]
    /\ parent = [m \in Message |-> None]
    /\ inTree = {}
    /\ state = [m \in Message |-> "absent"]
    /\ told = [m \in Message |-> FALSE]
    /\ proc = [m \in Message |-> Idle]
    /\ task = [m \in Message |-> "none"]
    /\ cancelReq = [m \in Message |-> FALSE]
    /\ sees = [m \in Message |-> FALSE]
    /\ store = EmptyStore
    /\ command = [kind |-> "none"]
    /\ interruptions = 0
    /\ cleared = {} /\ overtaken = {} /\ escaped = {}
    /\ disk = EmptyStore /\ finished = {} /\ lost = {} /\ revived = {}

-----------------------------------------------------------------------------
(* The handling of a message. *)

\* What the user can reply to: the messages that came, and their status messages.
Answerable == LET came == {m \in Message : pc[m] # "none"}
              IN  came \union {Status(m) : m \in came}

\* A voice note counts twice: it comes, and its transcription does.
Inputs == Cardinality({m \in Message : pc[m] # "none"})
          + Cardinality({m \in Voice : pc[m] # "none"}) + interruptions
MoreInputs == Inputs < MaxInputs

\* A text of an allowed chat and user; a voice note.
TextMessage(m)  == m \notin Voice /\ MoreInputs
VoiceMessage(m) == m \in Voice /\ Inputs + 1 < MaxInputs

Handling(m, from, to) ==
    /\ up
    /\ pc[m] = from
    /\ pc' = [pc EXCEPT ![m] = to]

KeepsTrees == UNCHANGED <<repositoryVars, state, proc, taskVars, store, command,
                          historyVars, countVars, fileVars>>

(* _handle_message_impl up to the status message: the parent is looked up, by
   the id of a message or of a status message.                              *)
Receive(m) ==
    /\ TextMessage(m)
    /\ Handling(m, "none", "sending")
    /\ \/ UNCHANGED target
       \/ \E id \in Answerable : target' = [target EXCEPT ![m] = Resolve(id)]
    /\ UNCHANGED pending
    /\ KeepsTrees

\* _register_pending_voice; the note that a reply to id cancels.
RegisterPending(m) == pending \union {m}
PendingNote(id)    == {m \in pending : id \in {m, Status(m)}}

\* A voice note, once its status message is sent.
ReceiveVoice(m) ==
    /\ VoiceMessage(m)
    /\ Handling(m, "none", "transcribing")
    /\ pending' = RegisterPending(m)
    /\ \/ UNCHANGED target
       \/ \E id \in Answerable : target' = [target EXCEPT ![m] = id]
    /\ KeepsTrees

\* The text is there, and the note was not cancelled: it is a message like others.
StillPending(m) == m \in pending
Transcribed(m) ==
    /\ StillPending(m)
    /\ Handling(m, "transcribing", "sending")
    /\ pending' = pending \ {m}
    /\ target' = [target EXCEPT ![m] = IF @ = None THEN None ELSE Resolve(@)]
    /\ KeepsTrees

\* It was cancelled; or it could not be transcribed, and stays in _pending_voice.
NotTranscribed(m) ==
    /\ Handling(m, "transcribing", "dropped")
    /\ target' = [target EXCEPT ![m] = None]
    /\ UNCHANGED pending
    /\ KeepsTrees

\* The status message cannot be sent or edited.
SendFails(m) ==
    /\ Handling(m, "sending", "dropped")
    /\ target' = [target EXCEPT ![m] = None]
    /\ UNCHANGED pending
    /\ KeepsTrees

\* create_tree or add_to_tree, and register_node of the status message.
AddNode(m, r, p) ==
    /\ trees' = trees \union {r}
    /\ where' = [where EXCEPT ![m] = r, ![Status(m)] = r]
    /\ home' = [home EXCEPT ![m] = r]
    /\ parent' = [parent EXCEPT ![m] = p]
    /\ inTree' = inTree \union {m}
    /\ state' = [state EXCEPT ![m] = "pending"]

Saves(m, r) ==
    store' = Save(RegisterBoth(store, m, r), r,
                  [ToDict(r, state, inTree) EXCEPT ![m] = "pending"])

\* enqueue_and_start.
Enqueue(m, r) ==
    IF proc[r].busy
    THEN /\ proc' = [proc EXCEPT ![r].queue = Append(@, m)]
         /\ UNCHANGED task
    ELSE /\ proc' = [proc EXCEPT ![r] = [@ EXCEPT !.busy = TRUE, !.current = m, !.last = m]]
         /\ task' = [task EXCEPT ![m] = "scheduled"]

\* The rest of _handle_message_impl for the node m of the tree r, under p.
Accept(m, r, p) ==
    /\ Handling(m, "sending", "done")
    /\ ~Refuses(store, r)
    /\ AddNode(m, r, p)
    /\ Saves(m, r)
    /\ Enqueue(m, r)
    /\ UNCHANGED <<target, pending, told, cancelReq, sees, command, historyVars, countVars,
                   fileVars>>

NewConversation(m) == target[m] = None /\ Accept(m, m, None)

ParentWell(p) == TreeFor(p) # None /\ p \in Nodes(TreeFor(p)) /\ state[p] # "error"
ParentThere(p) == TreeFor(p) # None /\ p \in Nodes(TreeFor(p))
Continue(m) ==
    LET p == target[m]
    IN  p # None /\ ParentThere(p) /\ Accept(m, TreeFor(p), p)

\* add_to_tree raises: the parent has been cleared in the meantime.
ParentGone(m) ==
    /\ target[m] # None /\ ~ParentThere(target[m])
    /\ Handling(m, "sending", "refused")
    /\ UNCHANGED <<target, pending>>
    /\ KeepsTrees

\* session_store.register_node raises: the node is there, and not enqueued.
StoreRefuses(m) ==
    LET p == target[m]
        r == IF p = None THEN m ELSE TreeFor(p)
    IN  /\ p # None => ParentThere(p)
        /\ Refuses(store, r)
        /\ Handling(m, "sending", "refused")
        /\ AddNode(m, r, p)
        /\ UNCHANGED <<target, pending, proc, taskVars, store, command, historyVars, countVars,
                   fileVars>>

-----------------------------------------------------------------------------
(* The task of a node. *)

At(n, t) == up /\ task[n] = t

KeepsChats == UNCHANGED <<handlingVars, repositoryVars, command, historyVars, countVars,
                          fileVars>>

(* The first step of process_node, _process_node_impl's first lines included: a
   task whose tree the handler no longer has runs without one.              *)
Start(n) ==
    /\ At(n, "scheduled") /\ ~cancelReq[n]
    /\ state[n] # "error"
    /\ task' = [task EXCEPT ![n] = "running"]
    /\ sees' = [sees EXCEPT ![n] = TreeFor(n) # None]
    /\ state' = IF TreeFor(n) # None /\ n \in inTree
                THEN [state EXCEPT ![n] = "in_progress"] ELSE state
    /\ UNCHANGED <<told, cancelReq, proc, store>>
    /\ KeepsChats

\* _process_next, the last thing the task n does.
ProcessNext(n) ==
    LET r == home[n]
        p == proc[r]
        next == Head(p.queue)
    IN  IF p.queue = <<>>
        THEN /\ proc' = [proc EXCEPT ![r] = [p EXCEPT !.busy = FALSE, !.current = None]]
             /\ task' = [task EXCEPT ![n] = "done"]
        ELSE LET q == [p EXCEPT !.busy = TRUE, !.current = next, !.queue = Tail(@)]
             IN  IF next \in inTree
                 THEN /\ proc' = [proc EXCEPT ![r] = [q EXCEPT !.last = next]]
                      /\ task' = [task EXCEPT ![n] = "done", ![next] = "scheduled"]
                 ELSE /\ proc' = [proc EXCEPT ![r] = q]
                      /\ task' = [task EXCEPT ![n] = "done"]

\* process_node of a node in ERROR goes on to the next one.
Skip(n) ==
    /\ At(n, "scheduled") /\ ~cancelReq[n]
    /\ state[n] = "error"
    /\ ProcessNext(n)
    /\ UNCHANGED <<state, told, cancelReq, sees, store>>
    /\ KeepsChats

\* Cancelled before its first step: process_node is not entered.
DieUnstarted(n) ==
    /\ At(n, "scheduled") /\ cancelReq[n]
    /\ task' = [task EXCEPT ![n] = "done"]
    /\ cancelReq' = [cancelReq EXCEPT ![n] = FALSE]
    /\ UNCHANGED <<state, proc, told, sees, store>>
    /\ KeepsChats

Hears(n) == At(n, "running") /\ ~cancelReq[n]

\* _handle_session_info_event.
SessionInfo(n) ==
    LET st == Updated(n, "in_progress")
    IN  /\ Hears(n) /\ ~told[n]
        /\ told' = [told EXCEPT ![n] = TRUE]
        /\ state' = st
        /\ store' = IF sees[n] THEN Save(store, home[n], ToDict(home[n], st, inTree)) ELSE store
        /\ UNCHANGED <<task, cancelReq, sees, proc>>
        /\ KeepsChats

\* The session limit is reached: get_or_create_session raises RuntimeError.
SessionLimit(n) ==
    /\ Hears(n) /\ ~told[n]
    /\ task' = [task EXCEPT ![n] = "cleanup"]
    /\ state' = Updated(n, "error")
    /\ UNCHANGED <<told, cancelReq, sees, proc, store>>
    /\ KeepsChats

\* A "complete" event: _process_parsed_event.
NotSaved(n, st) == store
SavedAsDone(n, st) ==
    IF sees[n] /\ told[n] THEN Save(store, home[n], ToDict(home[n], st, inTree)) ELSE store
Complete(n) ==
    LET st == IF told[n] THEN Updated(n, "completed") ELSE state
    IN  /\ Hears(n)
        /\ task' = [task EXCEPT ![n] = "cleanup"]
        /\ state' = st
        /\ store' = SavedAsDone(n, st)
        /\ UNCHANGED <<told, cancelReq, sees, proc>>
        /\ KeepsChats

(* mark_node_error, for an error event or an exception: the handler's tree of
   the node is looked up again.                                             *)
WithFailure(n) ==
    IF ~sees[n] \/ TreeFor(n) = None \/ n \notin inTree THEN state
    ELSE Errors({n} \union PendingChildren(n))

ErrorEvent(n) ==
    /\ Hears(n)
    /\ state' = WithFailure(n)
    /\ \E end \in {"running", "cleanup"} : task' = [task EXCEPT ![n] = end]
    /\ UNCHANGED <<told, cancelReq, sees, proc, store>>
    /\ KeepsChats

\* CancelledError, up to the end of the handler's except.
Cancelled(n) ==
    /\ At(n, "running") /\ cancelReq[n]
    /\ task' = [task EXCEPT ![n] = "cancelling"]
    /\ cancelReq' = [cancelReq EXCEPT ![n] = FALSE]
    /\ UNCHANGED <<state, told, sees, proc, store>>
    /\ KeepsChats
CancelDone(n) ==
    /\ At(n, "cancelling")
    /\ task' = [task EXCEPT ![n] = "cleanup"]
    /\ cancelReq' = [cancelReq EXCEPT ![n] = FALSE]
    /\ state' = Updated(n, "error")
    /\ UNCHANGED <<told, sees, proc, store>>
    /\ KeepsChats

\* The finally of process_node.
Release(n) ==
    /\ At(n, "cleanup")
    /\ ProcessNext(n)
    /\ cancelReq' = [cancelReq EXCEPT ![n] = FALSE]
    /\ UNCHANGED <<state, told, sees, store>>
    /\ KeepsChats

-----------------------------------------------------------------------------
(* /stop and /clear. *)

Command(c) ==
    /\ up
    /\ command.kind = "none"
    /\ MoreInputs
    /\ interruptions' = interruptions + 1
    /\ command' = c
NoCommand == [kind |-> "none"]

LastOf(R) == {proc[r].last : r \in R}
CancelTasks(S) == cancelReq' = [n \in Message |-> cancelReq[n] \/ (n \in S /\ task[n] \in Live)]

(* cancel_tree for the trees R.  Stopped(R) is what it returns: the nodes that
   ran or waited in a queue.                                                *)
Stopped(R) ==
    {n \in inTree : home[n] \in R /\
        \/ n \in Range(proc[home[n]].queue)
        \/ /\ n = proc[home[n]].current
           /\ proc[home[n]].last # None /\ task[proc[home[n]].last] \in Live
           /\ state[n] \in Active}
CancelledState(R) ==
    Errors({n \in inTree : home[n] \in R /\
              (state[n] \in Active \/ n \in Range(proc[home[n]].queue))})
CancelTrees(R) ==
    /\ CancelTasks(LastOf(R))
    /\ state' = CancelledState(R)
    /\ proc' = [r \in Message |-> IF r \in R THEN [Idle EXCEPT !.last = proc[r].last] ELSE proc[r]]

\* update_cancelled_nodes_ui saves the trees of the nodes S that are still known.
SaveTreesOf(S, st) == SaveAll(store, {home[n] : n \in S} \intersect trees, st, inTree)

KeepsRepository == UNCHANGED <<handlingVars, repositoryVars, told, task, sees,
                               historyVars, fileVars, up>>

\* "/stop" on its own, and "/clear" on its own: cancel_all.
StopAll(kind) ==
    /\ Command([kind |-> kind, nodes |-> Stopped(trees), before |-> inTree])
    /\ CancelTrees(trees)
    /\ UNCHANGED store
    /\ KeepsRepository

\* The CLI sessions are stopped: the cancelled nodes' trees are saved.
SessionsStopped ==
    /\ up
    /\ command.kind \in {"stop_all", "clear_all"}
    /\ store' = SaveTreesOf(command.nodes, state)
    /\ command' = IF command.kind = "stop_all" THEN NoCommand
                  ELSE [kind |-> "delete_all", before |-> command.before]
    /\ UNCHANGED <<state, proc, cancelReq, interruptions>>
    /\ KeepsRepository

\* "/stop" in reply to id: stop_task, which is over before the answer is sent.
Stop(id) ==
    LET n == Resolve(id)
        p == proc[home[n]]
    IN  /\ Command(NoCommand)
        /\ n # None
        /\ state[n] \in Active
        /\ CancelTasks(IF p.current = n THEN {p.last} ELSE {})
        /\ RemoveFromQueue(home[n], {n})
        /\ state' = Errors({n})
        /\ store' = SaveTreesOf({n}, Errors({n}))
        /\ KeepsRepository

\* "/clear" in reply to id, up to the deletion of the messages: cancel_branch.
ClearBranch(id) ==
    LET b == Resolve(id)
        p == proc[home[b]]
        active == {n \in Descendants(b) : state[n] \in Active}
    IN  /\ Command([kind |-> "delete_branch", branch |-> b])
        /\ b # None
        /\ CancelTasks(IF p.current \in active THEN {p.last} ELSE {})
        /\ RemoveFromQueue(home[b], active \ {p.current})
        /\ state' = Errors(active)
        /\ store' = SaveTreesOf(active, Errors(active))
        /\ KeepsRepository

\* "/clear" in reply to a message that has no node: a voice note is cancelled.
ClearVoice(id) ==
    /\ Command(NoCommand)
    /\ Resolve(id) = None
    /\ \E m \in PendingNote(id) : /\ pending' = pending \ {m}
                               /\ cleared' = cleared \union {m}
    /\ UNCHANGED <<pc, target, repositoryVars, state, proc, taskVars, store, overtaken,
                   escaped, fileVars, up>>

\* The messages of S are removed, those that had come back too.
Clears(S) == cleared' = cleared \union S /\ revived' = revived \ S

\* What a tree that is dropped leaves behind: tasks that nothing has cancelled.
Escaping(R, req) ==
    {n \in Message : home[n] \in R /\ task[n] = "running" /\ ~req[n]}

\* The messages are deleted: remove_branch of a node that is not the root.
BranchDeleted ==
    LET b == command.branch
        gone == Descendants(b)
    IN  /\ up
        /\ command.kind = "delete_branch"
        /\ TreeFor(b) # None /\ b # TreeFor(b)
        /\ b \in inTree
        /\ inTree' = inTree \ gone
        /\ where' = [id \in Ids |-> IF id \in gone THEN None ELSE where[id]]
        /\ store' = Save(RemoveMappings(store, gone), home[b],
                         ToDict(home[b], state, inTree \ gone))
        /\ Clears(gone)
        /\ command' = NoCommand
        /\ UNCHANGED <<handlingVars, trees, home, parent, state, proc, taskVars,
                       overtaken, escaped, countVars, disk, finished, lost>>

\* The same for the root: cancel_tree and remove_tree.
TreeDeleted ==
    LET r == command.branch
        gone == Nodes(r)
    IN  /\ up
        /\ command.kind = "delete_branch"
        /\ TreeFor(r) = r
        /\ CancelTrees({r})
        /\ trees' = trees \ {r}
        /\ where' = [id \in Ids |-> IF id \in gone THEN None ELSE where[id]]
        /\ store' = RemoveTree(RemoveMappings(store, gone), r)
        /\ Clears(gone)
        /\ escaped' = escaped \union Escaping({r}, cancelReq')
        /\ command' = NoCommand
        /\ UNCHANGED <<handlingVars, home, parent, inTree, told, task, sees, overtaken,
                       countVars, disk, finished, lost>>

(* All messages are deleted: clear_all, which writes the empty file at once, and
   a new TreeQueueManager.                                                  *)
AllDeleted ==
    /\ up
    /\ command.kind = "delete_all"
    /\ store' = ClearAll(store)
    /\ trees' = {} /\ where' = [id \in Ids |-> None]
    /\ disk' = IF Backend = "file" THEN store' ELSE disk
    /\ Clears({m \in inTree : home[m] \in trees})
    /\ overtaken' = overtaken \union {m \in inTree \ command.before : home[m] \in trees}
    /\ escaped' = escaped \union Escaping(trees, cancelReq)
    /\ command' = NoCommand
    /\ UNCHANGED <<handlingVars, home, parent, inTree, state, proc, taskVars, countVars,
                   finished, lost>>

-----------------------------------------------------------------------------
(* The file of SessionStore.  Every change of the store starts a timer of 0.5 s
   again, and the file is written when it fires; flush_pending_save writes it
   when the program is stopped in order.  What two writes at the same time can
   do is in SessionStore.  MoreInputs is a bound of the model: the file is read
   by the next start only.                                                  *)
Saved ==
    /\ up /\ MoreInputs
    /\ Backend = "file"
    /\ disk # store
    /\ disk' = store
    /\ finished' = finished \union
                    {m \in inTree : home[m] \in trees /\ state[m] = "completed"}
    /\ UNCHANGED <<handlingVars, repositoryVars, state, proc, taskVars, store, command,
                   historyVars, countVars, lost, revived>>

(* The process ends, at any moment, and a new one starts with what the file has,
   or the database, where every statement is committed: from_dict and
   cleanup_stale_nodes.  sync_from_tree_data truncates the trees' table, which
   PostgreSQL refuses: then the platform does not start.                    *)
Uncleaned(st) == st
Cleaned(st) == [m \in Message |-> IF st[m] \in Active THEN "error" ELSE st[m]]

\* What the store has: get_all_trees, MessageTree.from_dict, MessageNode.from_dict.
StoredTrees(s) == {r \in Message : HasTree(s, r)}
StoredNodes(s) == {m \in Message : \E r \in StoredTrees(s) : s.trees[r][m] # "absent"}
StoredState(s) ==
    [m \in Message |-> IF m \in StoredNodes(s) THEN s.trees[home[m]][m] ELSE "absent"]

\* sync_from_tree_data of PostgreSQL, up to the statement that raises.
SyncFails(s) == [s EXCEPT !.where = EmptyStore.where]

\* What _load finds.
Durable == IF Backend = "file" THEN disk ELSE store
Has(s, m) == home[m] # None /\ s.trees[home[m]][m] # "absent"

Restart ==
    LET roots == StoredTrees(Durable)
        read  == StoredState(Durable)
        stale == \E m \in Message : read[m] \in Active
        cut   == {m \in Message : pc[m] \in {"sending", "transcribing"}}
    IN  /\ up
        /\ MoreInputs
        /\ interruptions' = interruptions + 1
        /\ up' = ~(stale /\ Backend = "postgres")
        /\ trees' = roots
        /\ where' = IF roots = {} THEN EmptyStore.where ELSE Durable.where
        /\ inTree' = StoredNodes(Durable)
        /\ state' = Cleaned(read)
        /\ store' = IF ~stale THEN Durable
                    ELSE IF Backend = "postgres" THEN SyncFails(Durable)
                    ELSE [Durable EXCEPT !.trees = [r \in Message |->
                            IF r \in roots THEN Cleaned(@[r]) ELSE @[r]]]
        /\ lost' = lost \union {m \in Message : Has(store, m) /\ ~Has(Durable, m)}
        /\ revived' = revived \union {m \in cleared : Has(Durable, m) /\ ~Has(store, m)}
        /\ pc' = [m \in Message |-> IF m \in cut THEN "dropped" ELSE pc[m]]
        /\ target' = [m \in Message |-> IF m \in cut THEN None ELSE target[m]]
        /\ pending' = {}
        /\ proc' = [m \in Message |-> Idle]
        /\ task' = [m \in Message |-> "none"]
        /\ cancelReq' = [m \in Message |-> FALSE]
        /\ sees' = [m \in Message |-> FALSE]
        /\ command' = NoCommand
        /\ UNCHANGED <<home, parent, told, historyVars, disk, finished>>

-----------------------------------------------------------------------------
Handle(m) ==
    \/ Receive(m) \/ ReceiveVoice(m) \/ Transcribed(m) \/ NotTranscribed(m) \/ SendFails(m)
    \/ NewConversation(m) \/ Continue(m) \/ ParentGone(m)

TaskStep(n) ==
    \/ Start(n) \/ Skip(n) \/ DieUnstarted(n) \/ SessionLimit(n) \/ SessionInfo(n)
    \/ Complete(n) \/ ErrorEvent(n) \/ Cancelled(n) \/ CancelDone(n) \/ Release(n)

UserCommand ==
    \/ StopAll("stop_all") \/ StopAll("clear_all") \/ SessionsStopped
    \/ \E id \in Answerable : Stop(id) \/ ClearBranch(id) \/ ClearVoice(id)
    \/ BranchDeleted \/ TreeDeleted \/ AllDeleted

Next == (\E m \in Message : Handle(m) \/ TaskStep(m)) \/ UserCommand \/ Saved \/ Restart
Spec == Init /\ [][Next]_vars

\* With PostgreSQL the store may also refuse a node.
StoredNext == Next \/ \E m \in Message : StoreRefuses(m)
StoredSpec == Init /\ [][StoredNext]_vars

-----------------------------------------------------------------------------
(* Properties. *)

\* Every variable holds values of its type.
TypeOK ==
    /\ up \in BOOLEAN
    /\ pc \in [Message -> {"none", "transcribing", "sending", "done", "refused",
                           "dropped"}]
    /\ target \in [Message -> Ids \union {None}]
    /\ pending \subseteq Voice
    /\ trees \subseteq Message /\ inTree \subseteq Message
    /\ where \in [Ids -> Message \union {None}]
    /\ home \in [Message -> Message \union {None}]
    /\ parent \in [Message -> Message \union {None}]
    /\ state \in [Message -> States]
    /\ proc \in [Message -> [queue : Seq(Message), busy : BOOLEAN,
                            current : Message \union {None}, last : Message \union {None}]]
    /\ task \in [Message -> Live \union {"none", "done"}]
    /\ told \in [Message -> BOOLEAN] /\ cancelReq \in [Message -> BOOLEAN]
    /\ sees \in [Message -> BOOLEAN]
    /\ {store, disk} \subseteq
         [trees : [Message -> [Message -> States]], where : [Ids -> Message \union {None}]]
    /\ command.kind = "delete_branch" => command.branch \in Message
    /\ interruptions \in Nat
    /\ cleared \subseteq Message /\ overtaken \subseteq Message /\ escaped \subseteq Message
    /\ finished \subseteq Message /\ lost \subseteq Message /\ revived \subseteq Message

(* A message whose status message was sent is taken into a conversation, unless
   the one it answers was cleared meanwhile (add_to_tree raises ValueError).  *)
RefusedOnlyWhenGone ==
    \A m \in Message : pc[m] = "refused" => target[m] \in cleared

Ghosts == {home[n] : n \in escaped \union overtaken}

(* A reply to a message or to its status message finds its node, now and, with
   what the store has, after the next start; whatever commands, tasks that wind
   down and restarts there were, as long as the message was not cleared and the
   process did not end before the file was written.                         *)
Restores ==
    \A m \in Message : pc[m] = "done" /\ m \notin cleared \union lost /\ up =>
        \A id \in {m, Status(m)} :
            /\ Resolve(id) = m
            /\ store.where[id] = home[m]
            /\ store.trees[home[m]][m] # "absent"

(* What the user has cleared is in no conversation, and does not come back with
   the next start.  The exceptions are the trees of Ghosts: a message handled
   while everything is cleared, or a task that ran on without being cancelled,
   puts its tree into the store again (save_tree after clear_all); and what the
   file still had when the process ended, until it is cleared again.        *)
ClearedIsGone ==
    \A m \in cleared \ revived :
        home[m] \in Ghosts \/ (Resolve(m) = None /\ \A r \in Message : store.trees[r][m] = "absent")

(* A node that waits or runs for the user has a task or a place in the queue of
   its tree, also after a start (cleanup_stale_nodes).  The exception is a CLI
   that exits without having told a session: its node stays IN_PROGRESS.    *)
ActiveIsServed ==
    \A m \in inTree : home[m] \in trees /\ state[m] \in Active =>
        \/ task[m] \in Live
        \/ m \in Range(proc[home[m]].queue)
        \/ task[m] = "done" /\ ~told[m]

(* A finished answer is not reported as lost by a restart ("Lost during server
   restart"): a node that was COMPLETED when the file was last written is
   COMPLETED whenever it is in a conversation again, at whatever moment
   processes end later (update_state, save_tree and the timer's file).      *)
FinishedIsKept ==
    \A m \in finished : m \in inTree /\ home[m] \in trees => state[m] = "completed"

(* "ensures no more work is running" (commands.py:241): once everything is
   cleared, no task runs that nobody has cancelled.                         *)
NothingRunsOn ==
    \A m \in Message : task[m] = "running" /\ ~cancelReq[m] => home[m] \in trees

(* What is cleared does not come back, without exception. *)
ClearedStaysGone ==
    \A m \in cleared : \A r \in Message : store.trees[r][m] = "absent"

=============================================================================
