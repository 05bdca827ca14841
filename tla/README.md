# A verification development for the Claude messaging proxy

The repository is a Python service with three faces: chat bots (Telegram,
Discord, ESP32, web) that pass a user's message to a Claude Code CLI process and
show its output in the chat; an Anthropic-compatible HTTP proxy that serves such
CLI processes from other model providers; and a small multi-tenant platform
(workspaces, tasks, automations, integrations) on PostgreSQL.

These TLA+ modules model the parts in which the order of steps matters. TLC
checks them on small instances; TLAPS proves the theorems of the `*_proofs`
modules for every value of the constants.

## 1. Inventory

What each part keeps, what it does, with whom it interacts, what is hard about
it, and what makes it correct.

| part | state | operations | interaction | what is hard | what makes it correct |
|---|---|---|---|---|---|
| Message trees (`messaging/trees`) | per tree: nodes, parent, node state, FIFO queue, `_is_processing`, current node and task | `create_tree`, `add_to_tree`, `enqueue`, `process_node`, `_process_next`, `mark_node_error`, `cancel_node`, `cancel_tree`, `cancel_branch`, `remove_branch`, restart clean-up | the handler calls it for each message and is called back for each node; asyncio tasks | cancellation of a task at any of its waits, in any order with the end of the task, new replies and the removal of nodes | one task at a time, FIFO, each message at most once, nobody waits for ever, a stopped message stays stopped |
| Message handler and commands (`messaging/handler.py`, `commands.py`) | the tree queue manager, the session store | incoming message, node processor, CLI event handling, `/stop`, `/clear`, `/stats` | trees, CLI sessions, platform, store | awaits between looking a parent up and adding the reply; commands between the two | a message becomes a node once; the status message it was given is the one updated; nothing survives `/clear` |
| Session stores (`messaging/session.py`, `postgres_session.py`) | trees, node map, message log, dirty flag, timer | `save_tree`, `register_node`, `remove_*`, `record_message_id`, `clear_all`, `flush_pending_save`, load | the handler; a timer thread; a file or a table | snapshots taken under a lock and written outside it | what is on disk after the last write is the last state; a failed write is retried |
| Outgoing messages (`messaging/limiter.py`) | key queue, key map, pause, window, futures | `enqueue`, `fire_and_forget`, worker, `shutdown` | platforms enqueue edits; callers await futures | compaction of edits by key, retries, flood pauses, cancellation | only the latest edit is shown; every caller is answered; never more than N requests in a window |
| Platforms (`messaging/platforms`) | connection, handlers, pending voice messages | start, stop, send, edit, delete, queue_*, voice notes | external chat services, the limiter | voice transcriptions cancelled while they run | a cancelled voice note never becomes a message |
| Transcript, event parser, rendering (`messaging/transcript.py`, `event_parser.py`, `rendering`) | segments, open blocks, subagent stack | `apply`, `render` | the node processor | nested and interleaved blocks, truncation; the task and `/stop` edit the same message | every block closed belongs to what was opened; the text fits its limit; the last edit is the one with the transcript |
| CLI sessions (`cli/manager.py`, `cli/session.py`, `cli/process_registry.py`) | session maps (pending, real, temp/real), processes, pids | `get_or_create_session`, `register_real_session_id`, `remove_session`, `stop_all`, `start_task`, `stop` | the node processor; OS processes | a session renamed while it runs; stop against start | every live process is reachable by `stop_all`; one process per session |
| Provider limiter (`providers/rate_limit.py`) | grants, block time, semaphore | `wait_if_blocked`, `set_blocked`, `concurrency_slot`, `execute_with_retry` | every provider request | block set while others sleep; retries | window bound, every slot given back once, nobody asleep beside a free one, no request during a block |
| Provider streams (`providers/openai_compat.py`, `common/*`) | SSE builder, think parser, heuristic tool parser | OpenAI chunks to Anthropic events | the provider clients, the HTTP routes | tags split between chunks, errors in mid-stream | a well-formed event sequence; no text lost or shown twice |
| Automation (`api/automation/scheduler.py`, `storage/distributed_lock.py`) | bounded queue, in-flight set, workers, database runs | `tick_once`, `enqueue`, `_worker_loop`, `start`, `stop` | a scheduler per server, PostgreSQL advisory locks | ticks and workers of several servers, stop with work pending | a rule runs once per day; never two runs of a rule at once |
| Webhooks, idempotency, conflicts, mappings (`api/v1/routers/webhooks.py`, `integrations/*`) | registry of keys, dead letters, mappings | claim a key, apply, dead-letter, retry | Jira and Google deliveries | duplicated, reordered and failed deliveries | an event is applied once; a failed one can be retried |
| Realtime (`api/v1/realtime.py`, `messaging/platforms/web.py`) | connections per workspace, a queue for each | subscribe, greet, publish, echo, disconnect | websocket clients; the endpoints and the web platform publish | a slow client, one that goes at any moment, events during the greeting | the newest event arrives; who missed nothing knows the state; who goes is forgotten |
| HTTP API (`api/*`) | rate-limit windows, roles, the application's life | routes, middleware, start-up, shutdown | everything above | order of start-up and shutdown, each step of which may fail | one limiter decision per request; everything started is stopped |
| Configuration, schema and row access, scripts, front end | settings, tables | reads and writes | | none that a model checker helps with | |

Hard behaviours of the whole system: everything but the store's timer thread and
the database calls runs on one asyncio loop, so an interleaving can only happen
at an `await` that really waits. `asyncio.Lock` sections of the trees never
wait inside, which is why a section is one action of the models.

## 2. Plan

Order of the work, the most important behaviour first. A module with a theorem
uses no RECURSIVE operator, takes its parameters as CONSTANTS with named
assumptions and has one action for one operation.

1. `TreeQueue`, with the abstract `FifoServer` and the refinement
   `TreeQueueFifo`: done, with its theorems.
2. `SlidingWindow`, the rolling window that the outgoing limiter and the provider
   limiter both contain: done, with its theorems.
3. `MessagingLimiter`: done, with its theorems.
4. `ProviderLimiter`, composed with `SlidingWindow`: done, with the refinement
   and its theorems.
5. `SessionStore`: done, with its theorems.
6. `Automation`: done, with its theorems.
7. `MessageHandler`, several conversations with their commands, the store's
   contents and restarts: done, with its theorems. It takes the tree of `TreeQueue`
   with the details that matter here, and the contents of what `SessionStore` treats
   as a version.
8. `CLISessions`: done, with its theorems.
9. `ProviderStream`, the two parsers and the SSE builder as the streaming loop
   drives them: done for TLC, with a reference parser for the whole text.
10. `Transcript`, from the CLI's events to the message on the screen: done for
    TLC.
11. `Realtime` with the web platform: done, with its theorems.
12. `Lifespan`, the order of start-up and shutdown with steps that fail;
    `Webhooks` with the idempotency registry and the dead letters (section 6 says
    how little the code leaves to decide).

Each component gets one passing run with every behaviour of its model (except
that the runs of `TreeQueue` and `CLISessions` restrict the users); the
conditions of a property are history variables or formulas over the state.

Modules with theorems: one each for `TreeQueue`, `ProviderLimiter` (with
`SlidingWindow`), `MessagingLimiter`, `SessionStore`, `Automation`, `CLISessions`,
`MessageHandler` and `Realtime`. Left to prove are `ProviderStream` and `Transcript`
(section 5 says what stands in the way).

## 3. The modules

### `TreeQueue`, `FifoServer`, `TreeQueueFifo`

One conversation: a tree of messages with its queue (`messaging/trees`), the part
of the message handler that runs in a node's task, and the user's commands.
Nodes are the ids of messages.

| variable | code |
|---|---|
| `nodes`, `parent`, `known` | `MessageTree._nodes`; `MessageNode.parent_id`; whether the repository still has the tree |
| `state`, `session` | `MessageNode.state`; whether the node's CLI has told its session id |
| `queue` | the tree's `_SnapshotQueue` |
| `isProcessing`, `currentNode`, `currentTask` | `_is_processing`, `_current_node_id`, `_current_task` |
| `task`, `cancelReq` | where each node's asyncio task is: not created, created and not stepped, in the handler, winding down, in its `finally`, over; whether `cancel()` was called and not delivered |
| `clearing` | branches whose `/clear` waits for its message deletions |

An action is the code a coroutine runs between two waits. The tree's
`asyncio.Lock` is never held across a wait, so what runs under it is part of one
action. `Start`, `SessionInfo`, `ErrorEvent`, `ExitOk`, `ExitFail`, `Raise`,
`DeliverCancel`, `CancelDone`, `Release` are the life of a task; `Reply`,
`CancelNode`, `CancelTree`, `ClearBranchBegin`/`End`, `RemoveTree` are what users
do. Details that the properties depend on:

- a task cancelled before its first step never runs its body (`DieUnstarted`);
- a task listens to its CLI while it runs and no cancellation is pending;
- `cancel_branch` leaves nodes already in ERROR in the queue, and
  `remove_branch` leaves the queue, the current node and the tasks alone;
- removing the root is `cancel_tree` and forgetting the tree;
- `cancelled` and `failed` are history variables.

`FifoServer` is what the queue promises: customers wait in order of arrival, at
most one is served, each at most once; a waiting customer may leave. Its
`waiting` gives for each customer those in front: who joins has everybody in front,
who is served next has nobody. `TreeQueueFifo` maps a conversation to it. `FifoSafe` and `FifoLive` are the
abstract specification without and with fairness.

### `SlidingWindow`

The loop of `SlidingWindowLimiter.acquire` (`messaging/limiter.py`), which
`_acquire_proactive_slot` (`providers/rate_limit.py`) repeats word for word. `times` is the
deque, `waiting` and `wake` are the sleepers; `grants`, every grant ever given,
is history. One turn of the loop is one action: `Grant` with a slot, `Refuse`
without. Sleepers may wake late and may be cancelled.

### `MessagingLimiter`

The queue of outgoing messages. `queueList` is the deque of keys; `func` and
`futures` together are `_queue_map`; `worker`, `running`, `answering`, `paused`
are the worker task. A call stands for itself, its function and its future. The
window and the clock are abstracted to waits of any length, retries therefore
come back in any order. The calls' tasks first step in the order in which they
were created, and a caller that awaits `enqueue` does not race with a spawned
call of the same key (the handler awaits the first message before it edits it).
`shown` is what the platform shows for a key. A request that raises may have
taken effect.

### `ProviderLimiter`

`GlobalRateLimiter` and the life of a provider request. It EXTENDS
`SlidingWindow`, whose callers are the requests.

| variable | code |
|---|---|
| `stage` | where the request is: in line, blocked, at the window, calling, backing off, streaming, sending its error, abandoned, ended |
| `free`, `line`, `woken` | asyncio's semaphore: `_value`, `_waiters`, and the waiters that were handed a slot and whose tasks have not run |
| `attempt`, `alarm`, `blockedUntil` | the loop of `execute_with_retry`, its sleep, `_blocked_until` |

The semaphore's count is kept apart from what the requests do. A slot that is
given back goes to the first waiter, which may be cancelled before its task runs and
then gives it back again; a waiter whose task runs or is cancelled wakes others as
the count allows (`Leave`). Every way in which a request ends has its own action and gives the slot
back where `concurrency_slot`'s `finally` runs: `End` after the answer
or the error's events, `Cancel` at a wait, `Collected` when the event loop closes a
generator that its client left at a yield (`Abandon`). `CancelQueued` has no slot of its
own to give back. `FailsBy429` is `map_error`, for the last retry and for clients that find the
429 in the answer's status.

### `SessionStore`

Threads of the debounced saves. The store's contents are a version number `mem`;
`disk` is the version in the file, or `Torn` while a write is incomplete. `timer`
is the state of each `threading.Timer` (cancelling one that has fired does
nothing), `writer` the state of each thread's `_write_data`. When two threads
have the file open, the one that closes last leaves its own text or a mixture.

### `Automation`

Servers with a poll loop (`fetched` is the answer of a query that is not used
yet), a bounded queue, the in-flight set and workers; each worker waits for a
thread that runs one database transaction. `Accepted` is what the calls of
`enqueue` in one tick append: the wanted rules in the order of the query, up to the
last free place. `runs` counts the rows of
`automation_runs` by rule and day. The clock counts half days: a rule is due in
the second half of a day. Stopping, crashing and restarting a server, and failed
transactions, are actions; threads outlive a cancelled worker. `raced` and
`dropped` are history variables.

### `MessageHandler`

Several conversations of one chat: `_handle_message_impl`, the life of a node's
task with its saves, `/stop` and `/clear`, voice notes, the repository of trees,
what the store has of them, and a restart.

| variable | code |
|---|---|
| `pc`, `target`, `pending` | how far the handling of a message is, the message it answers and then the parent found, `_pending_voice` |
| `trees`, `where`, `home`, `parent`, `inTree` | `TreeRepository._trees` and `_node_to_tree`, the nodes and edges of each tree |
| `state`, `told`, `proc`, `task`, `cancelReq` | a node, its tree's queue and flags, its task, as in `TreeQueue` |
| `sees` | whether `_process_node_impl` found its tree: it saves only then |
| `store` | trees (a state for each node) and `node_to_tree`, of either backend |
| `disk` | what `SessionStore` has written to its file (`Saved`) |
| `command` | the `/stop` or `/clear` that waits for the CLI or the platform |

An action ends where the code really waits: for the status message, for the
transcription, for the CLI, for `stop_all`, for the deletion of the messages.
The file is written half a second after the last change, and the process may end at any
moment: `Restart` reads the file (`Durable`), or the database, in which each statement
is committed at once, and not the store that was in memory. `Saved` may therefore come at any later time,
once for many changes, or not at all; `/clear` of everything writes at once. `Backend` chooses the store: the file's, or PostgreSQL's, whose foreign key
refuses a node of an unknown tree (`Refuses`), whose `save_tree` takes the
tree's other ids out of the map and whose `sync_from_tree_data` is refused when a
restart has stale nodes. History are `cleared`, `overtaken` and `escaped`, and of the file
`finished` (the nodes that were COMPLETED when it was written), `lost` (messages that the store had and
the file had not when a process ended) and `revived` (cleared ones that the file still had).

Telegram's library hands the bot one update at a time, Discord's starts a task for
each: the model has the concurrent case. One command runs at a time, which is a
bound. Two platforms over one store are not modelled.

### `CLISessions`

The manager's maps and lock, the tasks that use sessions, the processes and the
registry of pids that `kill_all_best_effort` empties at the end. A session, its
temporary id, its real id and its process are named by the task that asked for
it, because the handler never passes an id. `holder` is who holds `_lock` across a wait: a task in
`remove_session`, or `stop_all`. `stage` says where a task is in the handler and in
`start_task`; `generator` tells a generator that was closed from one that was
dropped with its `finally` still to come. A task may be cancelled at any wait, also
in the shield that stops its process. `dropped` names the sessions that
`stop_all` stopped while their process was being spawned: `stop` finds none and
says it has stopped.

### `ProviderStream`

`OpenAICompatibleProvider._stream_response_impl` with `ThinkTagParser`,
`HeuristicToolParser` and `SSEBuilder`. A text is a sequence of symbols that
stand for the pieces of tags; a chunk may end after any symbol, which includes
the inside of a tag. `blocks` is what the client has assembled, with how often a
block was stopped and whether a delta came late. `Whole` is the reference: what a
parser makes of the whole content at once. Tool calls come as deltas with an index and
pieces of name and arguments, or as text. The arguments of `Task` calls are held
back until they are JSON. The stream may end or fail before any chunk.

### `Transcript`

The CLI's events (`calls`, `caller`, `stream`, `said`: what really happens), their
translation by `parse_cli_event` (`inbox`), the transcript with its stack of open
subagents, and what is shown (`status`, `lastStatus`, `message`). The
ids of calls are constants: an id may be left out in the call and given in the result,
be a prefix of another one or contain "task". A text is its length. `Render` computes
the lengths of what it shows as the code does: the end of a text with its ellipsis (`EndOf`), the marker, the
empty line and the status, the oldest segments dropped one by one, and what remains of the
newest one in the room that is left (`Budget`, `CutNewest`). The limits are scaled down with the texts.

Two writers edit the message when a task is stopped: the task, a last time with its
transcript, and the command, with a plain "⏹ Stopped.". `loop` holds the callbacks of the event loop
that are ready, in the order in which asyncio runs them: `throw` is CancelledError
in the task, `stop` the shielded task of `CLISession.stop`, `end` the task's way on, `edit` the
spawned `queue_edit_message`, `final` and `stopped` the two edits on their way into the
limiter's queue. `stop` is the `/stop` that came: of the task or of everything,
and whether it met the task at its output (`reading`) or elsewhere: while it starts the
process, reads its stderr or waits for its exit. `message` is what the chat shows in the end.

### `Realtime`

A workspace's websockets: `workspace_socket` (`endpoint`), its `_sender_loop` and
`_receiver_loop`, the bounded queues; the task endpoints and the web platform that
publish. A version number stands for the contents of a task or a message.
`fired` holds the tasks that `fire_and_forget` created and that have not run. `view` is what a
client shows that applies the events it gets, `missed` the clients of which an event was
dropped. A database call blocks the loop, so that a change and its publication are one step.

## 4. Runs

| run | specification | shows | size |
|---|---|---|---|
| `tree_queue` | `PatientSpec`: no reply between a stop and the end of the stopped task | queue discipline, one task at a time, parents first, a stop is final, refinement of `FifoServer` (safety) | 3 messages |
| `careful_tree_queue` | also without the two ways to block a tree; fairness | a busy tree has a task; refinement with fairness | 3 messages |
| `messaging_limiter` | any platform; fairness | pauses hold; the latest edit of a message that had no retry is shown; every call ends, unless the limiter is shut down | 3 calls, 2 keys, 1 retry |
| `provider_limiter` | any | every slot is given back, once, and nobody sleeps beside a free one; window, idle sleep, back-off | 4 requests, 2 slots, a clock of 4 |
| `session_store` | any; fairness | a change is on disk or a timer will save it, and it is on disk in the end, if no write failed and no two overlapped | 3 changes, 3 timers |
| `automation` | one server; fairness | a due rule is run, and once a day unless a run ends within a poll | 2 rules, 2 workers, queue of 1, 2 days |
| `cli_sessions` | `PatientSpec`: a task is cancelled once, at its work; fairness | a task leaves no session, pid or process behind; no process escapes; a cancelled task's process dies | 2 tasks, 1 `stop_all` |
| `provider_stream` | any | the block protocol; the parser agrees with the reference for every way to cut; calls and arguments arrive once and whole | texts of up to 6 symbols, 10 longer answers, every cut and every end |
| `message_handler` | file store, any order | no message is refused without cause; replies find their node, also after a restart; the cleared is gone; an active node is served; an answer that the file had survives | 4 messages, one of them a voice note, 4 inputs: messages (a voice note is two), commands and restarts |
| `transcript` | one Task of an agent at a time | the transcript is what was said and done; it fits, with its newest end and no more cut off than needed; the message shows it in the end, also after a `/stop` | 2 subagents, 1 tool, 2 texts, 2 block indices; a `/stop` after at most one text |
| `realtime` | fairness | bounded queues; a client that missed nothing knows the tasks; the newest event arrives; who goes is forgotten | 1 client, 1 task, 1 message, queue of 2, 3 events |
| `new_conversation_postgres` | `StoredSpec` with PostgreSQL | a violation: the first message of a conversation is refused | 2 messages |

`new_conversation_postgres` is a disagreement between the code and what the
repository says of it: `_handle_message_impl` registers the root's id
(`handler.py:301`) before it saves the tree (`handler.py:305`), and the map's
foreign key refuses an id of an unknown tree (`postgres_session.py:69`), although
the store promises to be exchangeable (`postgres_session.py:3-5`).

Each module also has a type invariant (in the runs of `tree_queue` and `realtime` it bounds
queues), and some have properties that explain how
another one comes about: `NoRequeue` and `StartInOrder` (`TreeQueue`), `NoSpin`
(`SlidingWindow`, in the run of `ProviderLimiter`), `QueueIsMap` and
`WaiterHeld` (`MessagingLimiter`), `ConcurrencyBound` (`ProviderLimiter`, a
consequence of `SlotsReturned`), `DirtyHasTimer` (`SessionStore`),
`InflightIsWork` and `SingleJob` (`Automation`). They hold in the configuration
of their module; TLC checks them when they are named in it.

The conditions of the properties are history variables of the
model (`overlap`, `raced`, `dropped`, `overtaken`, `escaped`, `lost`, `revived`, `missed`) or formulas over its state (`Retried`): the run has
the behaviours that a condition excludes, and the property says nothing of them.
What the code does in those behaviours, and where else it differs from what the
repository says, has a configuration to be run by hand
(`tlc -config <file> <module>`), or a property to be named in the one that
exists; TLC refutes the property:

| configuration | module | property | what TLC finds |
|---|---|---|---|
| `OverlapTreeQueue.cfg` | `MCTreeQueue` | `OneCliAtATime` | `/stop` while a task winds down, a reply, the old task's `finally`, a second reply: two CLIs in one tree |
| `StopTreeQueue.cfg` | `MCTreeQueue` | `BusyHasTask` | a node stopped before its task's first step leaves the tree busy for ever |
| `ClearTreeQueue.cfg` | `MCTreeQueue` | `BusyHasTask` | a `/clear` of a branch with a failed node still queued (`cancel_branch` skips nodes in ERROR, `processor.py:119`) leaves the tree busy with no task |
| `ExitTreeQueue.cfg` | `MCTreeQueue` | `FailedNotCompleted` | a CLI that exits with an error leaves its node COMPLETED (`handler.py:433`) |
| `NoSessionTreeQueue.cfg` | `MCTreeQueue` | `InProgressHasTask` | a CLI that exits without a session id leaves its node IN_PROGRESS |
| `StaleLimiter.cfg` | `MCMessagingLimiter` | `AlwaysLatestShown` | a retried edit replaces a newer one |
| `BlockLimiter.cfg` | `MCProviderLimiter` | `BlockRespected` | a request is sent while a 429's block is set |
| `CooldownLimiter.cfg` | `MCProviderLimiter` | `BlockNotShortened` | `set_blocked` replaces a cool-down by a shorter block (`rate_limit.py:156`) |
| `ClearStore.cfg` | `MCSessionStore` | `ClearPersists` | a timer's older snapshot is written over the one of `/clear` |
| `ExitStore.cfg` | `MCSessionStore` | `SavedAtExit` | a change after the lifespan's flush is lost (`app.py:222`) |
| `StaleAutomation.cfg` | `MCAutomation` | `AlwaysOncePerDay` | a query overlaps the end of a run: the rule runs again |
| `ServersAutomation.cfg` | `MCAutomation` | `AlwaysOncePerDay` | two servers run the same rule one after the other: the lock is taken and the last run not looked at again (`scheduler.py:418`) |
| `DrainAutomation.cfg` | `MCAutomation` | `DrainedAtStop` | `stop` sets `_stopping` first, so that each worker leaves after the run at hand, and throws the rest of the queue away with no run going on (`scheduler.py:103`) |
| `BatchAutomation.cfg` | `MCAutomation` | `RunsDaily` | rules beyond the query's LIMIT never run (`scheduler.py:233`) |
| `TwiceCLISessions.cfg` | `MCCLISessions` | `CancelledDies` | a task cancelled again in the shield that stops its process leaves the process running (`session.py:158-165`) |
| `CLISessions.cfg` | `MCCLISessions` | `EverythingDead` | a process that is being spawned survives `stop_all`, which "kills subprocesses and ensures everything is dead" (`handler.py:705`) |
| `ProviderStream.cfg` | `MCProviderStream` | `NoFragments` | an incomplete control token at the start of the buffer is given out as text (`heuristic_tool_parser.py:54`) |
| `ProviderStream.cfg` | `MCProviderStream` | `TextArrives` | a bullet and the text after it are lost when the stream ends before a tool call or a hundred characters (`heuristic_tool_parser.py:72`) |
| `ProviderStream.cfg` | `MCProviderStream` | `NamesArrive` | a tool whose name comes in pieces is announced with the first one (`sse_builder.py:67`) |
| `ProviderStream.cfg` | `MCProviderStream` | `AlwaysCallsOnce` | two calls written as text that end in one chunk: the second one's parameters go to the first, its tag to the text (`heuristic_tool_parser.py:155`) |
| `ProviderStream.cfg`, `Streams <- Spaced` | `MCProviderStream` | `CallsOnce` | white space between two parameters ends the call (`heuristic_tool_parser.py:131`) |
| `MessageHandler.cfg`, 2 messages, `Voice = {}` | `MCMessageHandler` | `NothingRunsOn` | a message handled while `/clear` deletes runs on, its tree forgotten: "Stop tasks first (ensures no more work is running)" (`commands.py:241`) |
| `MessageHandler.cfg`, 2 messages, `Voice = {}` | `MCMessageHandler` | `ClearedStaysGone` | such a task saves its tree again, and it comes back with the next start |
| `Transcript.cfg`, `Parallel = TRUE` | `MCTranscript` | `Faithful` | Tasks called at once: what one subagent does is shown under another, or as the main agent's (`transcript.py:343`) |
| `Transcript.cfg` | `MCTranscript` | `AlwaysFinalShown` | a `/stop` of everything, or one that meets the task away from its output, leaves the plain "⏹ Stopped." on the screen, without the transcript (`handler.py:752`) |
| `Transcript.cfg` | `MCTranscript` | `FailureShown` | an exit with an error ends as "Complete" (`handler.py:443`) |
| `Realtime.cfg` | `MCRealtime` | `ActiveOnly` | a client that goes while it is greeted stays in the registry: the greeting is outside of the `try` (`realtime.py:133-145`) |
| `Realtime.cfg` | `MCRealtime` | `PostsInStep` | an edit that was fired and not run yet is published after the deletion by `/clear` (`web.py:122-151`) |

**Bounds.** Three messages are the fewest for a task that winds down, one that
runs and one that waits. Three calls on two keys allow an edit in the worker's
hands or in back-off, a newer one queued, and one of another message. Four requests on
two slots have two in line, of which one may be cancelled with a slot in its hands while the
other sleeps; the clock's horizon exceeds a window and a cool-down.
Three changes allow an old writer, a new one and a later change. Two rules on a
queue of one force a drop; two days contain a midnight. Two tasks of
`CLISessions` have one in the lock and one that waits for it, with `stop_all` as a
third party. Six symbols hold two tags with text between them, or a
tag inside of another, cut anywhere; the longer answers mix blocks of all kinds.
Two messages make a conversation with a reply or two conversations, and a third one comes in
between; four inputs are three messages and a command, or two with a command and
a restart, with the file written anywhere between them. A voice note counts twice, because its transcription
is a second thing that comes; a text and a voice note with a command still fit. One text of three
units exceeds neither the tail (`TailMax` 5) nor the room of one message (`Limit` 6); one of two pieces does both, two texts exceed the room together, and what is left for the newest
one after marker and status (3) is more than the least room (`MinBudget` 1) in which it is cut. A `/stop` after one text
(`MaxBeforeStop`) meets every phase of the task. Two subagents can be nested or follow each
other, with a tool in either. A client shares nothing with another one
but the loop over them in `publish_workspace_event`, so that one is enough; three
events overflow a queue of two. `Horizon`, `MaxVersion`, `MaxRuns`, `MaxFaults`,
`MaxStops`, `MaxInputs`, `MaxEvents`, `MaxBeforeStop` and `MaxSays` only bound the runs. The
theorems hold for all sizes.

**Symmetry** is declared for requests, for the CLI's replies and for messages
(voice notes apart), in runs without liveness properties only.

**Deadlock** is not checked where the system may stop: a conversation with no
more messages, a limiter that is shut down, a process that has ended, a stream
that is over, a workspace in which nothing happens any more.

**Fairness.** The event loop steps every runnable task, in particular a task whose
sleep or wait is over. Beyond this the liveness runs assume: every CLI process
ends in `TreeQueue` (the code has no timeout for it); the platform's client answers each request
(its library has timeouts); timer threads get the lock; a transaction commits or
fails; a killed process dies (`CLISessions` does not assume that a process
ends by itself); a websocket that stays is read, a heartbeat is due in the end, and a
sender that looks at its queue again and again finds what is there (strong
fairness: a timeout may come in the same moment, not for ever). No fairness is
assumed of users, of cancellations, of a process's restart, of clients that connect, speak or go,
or of the clock of `Automation`.


## 5. What is proved

All by TLAPS, for every value of the constants that satisfies the named
assumptions. Every inductive invariant was an invariant of a TLC run before it was
proved. Each proof has one lemma or step per action, on lemmas about the
operators of the model.

**`TreeQueue_proofs`.** `Typing`; `QueueDiscipline` (`QueueGuarded`, `NoRequeue`);
`OrderedStart`; `NoLateStart` for every user; `OneTask`, `StopIsFinal`,
`ParentFirst` for patient users. The properties are not inductive: an idle tree
has an empty queue only because a busy one names what it runs, and a node never
returns to the queue only because whatever left it has had a task or has ended.
The inductive invariant joins these facts about the queue, the flags and the
tasks. `OneTask`, `StopIsFinal`
and `ParentFirst` are false for impatient users (`OverlapTreeQueue.cfg` shows
it). `NoRequeue` and `StartInOrder`, an action property, hold in
`TreeQueue.cfg` too; TLC checks them there when they are named.

`NoBusyTreeIsDead` (`BusyHasTask`) is for users who are also started and tidy: `StopTreeQueue.cfg` and
`ClearTreeQueue.cfg` show that it is false for the others. Its invariant
`CarefulInv` says why it holds for these: every queued node is in the tree, so that the end of
a task makes the next one, and a task cancelled before its first step belongs to a
tree that is idle already.

`ServedInOrder` is the refinement `PatientSpec => FifoSafe`. Seen from the
server there are four kinds of steps, each with a lemma: a reply joins the
line or is served (`ReplySeen`), the end of a task serves, skips or loses the head
of the queue (`NextSeen`), a step of a task drops those that fail with it
(`OwnSeen`), a command drops those it cancels (`CommandSeen`). `KeptAhead` says
that removal from the queue keeps the order of the others. All rest on
`SingleRunner`: the mapping chooses the one message that is served.

**`ProviderLimiter_proofs`.** First the window: `WindowTyping`, `AtMostLimit`
(`RateBound`), `NobodySleepsForNothing` (`NoIdleSleep`). The deque forgets grants,
so the invariant says that it is the end of the history `grants`, that the grants
are in order of time, and that every forgotten one is at least a window old.
Then the limiter: `ProviderImplementsWindow`: a step of a request is a
step of a caller of the window or leaves the window alone; hence `ProviderRate`
is `AtMostLimit` again. `ProviderTyping`; `RetriesWait`. Last the semaphore: `EverySlotReturned`
(`SlotsReturned`) and `NobodyWaitsBesideASlot` (`NoIdleSlot`). The invariant `SlotInv` counts what is
free, handed out and held; `LineInv` says that the line has each waiting request once, and that whoever was
handed a slot is still in it. `WakeUpGives` says what waking up does to the count, `LeaveGives` and
`ReleaseGives` what leaving the line and giving back do; `SlotStep` joins them to the changes of the
set of holders (`HoldersStep`). `ProviderConcurrency` is a consequence: as the count is never
negative, no more than `MaxConcurrency` requests are inside.

**`MessagingLimiter_proofs`.** `LimiterTyping`, `PausesHold` (`NoSendInPause`),
`DequeMatchesMap` (`QueueIsMap`), `NoCallerIsLost` (`WaiterHeld`),
`LastUpdateIsShown` (`LatestShown`), `OwnUpdateOrNewer` (`OwnOrNewer`, an action
property). `LatestShown` speaks of the end of a message's updates; what is inductive is
the order on the way (`InOrder`): what a message shows is older than what the worker
holds, that than what is queued, that than the calls whose tasks did not step, and
each function is the newest of those whose callers get its answer. A retry
breaks this order, which is why the property excludes it (`StaleLimiter.cfg`).

**`SessionStore_proofs`.** `StoreTyping`, `DirtyStoreHasTimer` (`DirtyHasTimer`),
`StoreIsSaved` (`SavedWhenQuiet`). Between two rests the newest version is in
the hands of a writer: `CleanIsSaved` says that a store that is not dirty is in the
file or in the snapshot of the one thread that writes; `OneWriter`, that there is
one as long as no writes overlapped.

**`Automation_proofs`.** `AutomationTyping`, `InflightMatchesWork`
(`InflightIsWork`), `OneJobPerRule` (`SingleJob`), for any number of servers and
workers. A cancelled worker leaves a thread behind, so the invariant `Once` counts
threads, not workers. `OnceADay` (`OncePerDay`) has the hypothesis `OneServer`;
`ServersAutomation.cfg` shows that it is false for two. Its invariant adds
`Fresh`: a rule that a query's answer, the queue or a thread will run has no row since
today, one that is running none since the day on which it began, unless a run of
it ended within a poll.

**`CLISessions_proofs`.** `SessionTyping`, `NothingIsLeft` (`NothingLeft`),
`ProcessesAreReachable` (`Reachable`), for patient callers. The properties speak of
the end of a task; the invariant follows the session on its way there: under
which id it is filed (`Filed`), what the task knows of it (`Knows`), that a process that may
run is in the registry (`Registered`) and its session in the map (`Kept`), and
that `stop_all` forgets nothing that it has not stopped (`Visited`). The names of the
lock's other holders are no tasks (`HoldersDiffer`).

**`MessageHandler_proofs`.** `HandlerInvariant`, `HandlerTypes`,
`RepliesAreAccepted` (`RefusedOnlyWhenGone`), `AnswersAreFound` (`Restores`),
`ClearedStaysAway` (`ClearedIsGone`), `NobodyWaitsInVain` (`ActiveIsServed`) and
`FinishedAnswersSurvive` (`FinishedIsKept`), for every set of messages and any number
of commands and restarts, with the store in a file (`FileStore`):
`PostgresMessageHandler.cfg` shows `RefusedOnlyWhenGone` false for PostgreSQL. None of the
properties is inductive, because each relates two places that a step changes at
different times. `HandlerInv` has three parts. `ChatInv` is about memory: the map
of ids names the tree of a node or nothing (`Mapped`), the parent that a message
found is there or was cleared meanwhile (`Answers`), what was accepted is known
until it is cleared (`Remembered`), what was cleared is handled no more
(`Withdrawn`). `StoreInv` says the same of the file: every stored node is in the
tree it was added to (`Filed`), every node not cleared is stored (`Stored`), what was
cleared is not (`Erased`), nor is a tree that was dropped (`Unsaved`). The last two hold
because a task that could save a dropped tree is cancelled or has made the tree one of
`Ghosts`; that is `Orphans` of `TaskInv`, which also says that queued nodes have no
task yet (`Queued`) and that a task of a known node sees its tree (`Working`).
`FileInv` is about the file, from which the next start makes memory and store, however old it is: what it has can be
found in the tree it was added to (`OnDisk`); what a start did not find is nowhere
(`Away`); a COMPLETED node has heard from its CLI and its task is at its end (`Settled`); and one that was COMPLETED
when the file was written is so, or absent, in memory, store and file (`Survives`). It is proved together with `HandlerInv`,
which `Restart` takes up again from the file. For the steps between two starts `FileKept` needs two facts only: a saved tree
has the states of memory (`StoreMoves`), and no step changes a COMPLETED node (`NodesMove`). `WrittenWell` is the lemma behind every save: a step that writes known trees as they are
after it keeps `StoreInv`. `Reloaded` says what a start reads; `KeptQueue`, what
`remove_if_present` leaves of a queue.

**`Realtime_proofs`.** `RealtimeTyping` (`TypeOK`), `ClientsStayInStep`
(`InStep`). A client's picture is behind while events are on their way, so the
invariant `WillKnow` looks at the whole way: the newest version of a task is in the
client's queue or, when the queue tells none, in the sender's hands or, when that tells none
either, on the screen. Ids of tasks and of messages differ (`RowsAreNoPosts`).

Only model-checked:

- all liveness (`FifoLive`, `Answered`, `EventuallySaved`, `RunsDaily`,
  `CancelledDies`, `NewsArrives`, `Leaves`), which is out of the provers' reach;
- `ProviderStream` and `Transcript`: the parsers and the widths are recursive
  functions or folds, and what they compute for every input needs induction over data;
- `MessageHandler` with PostgreSQL, beyond the finding; what is below a node in its tree
  is a recursive function (`Line`), of which the proofs use only that it stays in the tree.

The provers know no powers: that
the back-off is a natural number is an assumption that TLC evaluates.

## 6. What is not modelled, and what is assumed

Not modelled:

- **Webhooks, idempotency, mappings, conflicts.** One `INSERT ... ON CONFLICT`
  decides whether a delivery is new; nothing else is done with it, and a loop of three
  tries and a dead letter surround it. What remains is in the data: the ids of two channels
  may collide, and a key with another content is answered as a duplicate.
- **HTTP rate limiting, roles, request handling.** A counter for each key in one
  synchronous step; the rest answers a request from its contents.
- **Provider clients and request conversion.** Functions of one request; their
  limiter is `ProviderLimiter`.
- **Rendering, configuration, schema, the other endpoints, front end, scripts.**
  Text conversions, reads at the start, one SQL statement per request.

Abstractions and assumptions:

- `TreeQueue`: message ids are distinct. Several trees, saving
  and restarting belong to `MessageHandler`.
- `MessagingLimiter`: an exception raised inside the worker's own error handling
  (a flood error whose `seconds` is a text that is not a number) and the creation of the
  singleton are left out. After `shutdown` nobody is answered; the model keeps it
  so.
- `ProviderLimiter`: the semaphore is that of the Python version the project asks for (3.14). A request that
  is cancelled while the event loop closes its generator is not modelled.
- `SessionStore`: `_load` and the contents are left out; an existing file is not read
  while it is written.
- `Automation`: rules neither change nor are disabled while they are queued, and their weekdays,
  offsets and time of day are one half of each day. Queries succeed or fail; whether the
  PostgreSQL driver accepts a plain `dict` for a JSONB column is left to the
  driver. A row's `created_at` is the time at which its transaction began.
- `MessageHandler`: message ids are those of one chat and distinct; a snapshot of the store falls between two
  actions: the timer's thread may take it between `register_node` and `save_tree`, when the file has a
  mapping to a tree it does not have. Writes that overlap or fail are `SessionStore`'s; the message log, `/stats`, the filter for the bot's
  own messages and failing deletions are left out.
- `CLISessions`: a spawn succeeds or raises; output lines are those with a
  session id and others; the diagnostics of the end of a process are left out.
- `ProviderStream`: a control token's name is one symbol, a function's name and a parameter's
  value too, and the names of a call's parameters differ; the limit of 100 characters after a bullet is `MaxHeld`
  symbols; token counts and error texts are left out.
- `Transcript`: a text is a length, so that its contents are never compared; a tool's input
  does not change what is shown, and markup counts nothing. Edits are taken to reach the screen in the
  order in which they are put into the limiter's queue (`MessagingLimiter` is about that). There is one `/stop` of a
  task; one that comes before the task's first step is in `TreeQueue`. With the real limits the
  marker and the status always fit, so that the branches of `render` for less room are not reached.
- `Realtime`: one workspace of one server. Clients of another server get no
  events, ids that the web platform gives to messages of two clients within a millisecond may be
  equal, and its counter starts again with the process: none of the three is in the model.
- Every model takes the database, asyncio, threading and the chat platforms as
  their documentation describes them and as `src/` uses them; those definitions
  are marked external in `PROJECT.json`.
