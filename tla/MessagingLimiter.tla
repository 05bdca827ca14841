-------------------------- MODULE MessagingLimiter --------------------------
(* The outgoing queue of messaging/limiter.py (MessagingRateLimiter).

   Platforms call enqueue or fire_and_forget with a function that sends, edits
   or deletes a message.  A call whose dedup key is already queued takes the
   place of the queued one, and both callers get the answer (compaction).  One
   worker task runs the functions.  A fire_and_forget call runs in a task of
   its own, which calls enqueue, and calls it again after a transient error.

   The clock and the rolling window (SlidingWindow) are abstracted to waits of
   any length.  An action is the code between two waits of a coroutine.     *)
EXTENDS Integers, Sequences, FiniteSets, Functions

CONSTANTS Call,        \* calls of enqueue and fire_and_forget
          Key,         \* dedup keys
          KeyOf,       \* the key of each call
          NoCall,      \* Python's None
          MaxRetries   \* max_retries of fire_and_forget

ASSUME KeyOfAssumption == KeyOf \in [Call -> Key]
ASSUME NoCallAssumption == NoCall \notin Call
ASSUME RetriesAssumption == MaxRetries \in Nat

VARIABLES
    order,      \* history: the calls, in the order in which they were made
    status,     \* where each call is
    forget,     \* calls of fire_and_forget
    attempt,    \* retries each call has made
    spawned,    \* tasks of fire_and_forget that have not stepped yet, in order
    queueList,  \* _queue_list
    func,       \* _queue_map: the call whose function a queued key will run
    futures,    \* _queue_map: the calls that wait for a queued key
    worker,     \* where the worker task is
    running,    \* the call whose function the worker holds
    answering,  \* the calls whose futures the worker holds
    paused,     \* _paused_until lies in the future
    stopping,   \* _shutdown is set
    shown       \* history: per key, the call whose function took effect last

callVars   == <<order, status, forget, attempt, spawned>>
queueVars  == <<queueList, func, futures>>
workerVars == <<worker, running, answering, paused>>
vars == <<callVars, queueVars, workerVars, stopping, shown>>

-----------------------------------------------------------------------------
(* Values. *)

(* "spawned": its task has not stepped; "waiting": on its future; "backoff":
   before a retry; "abandoned": the caller was cancelled, and its future too. *)
Statuses == {"new", "spawned", "waiting", "backoff", "done", "failed", "abandoned"}
Ended    == {"done", "failed", "abandoned"}

\* "idle": at the condition; "held": waits out a pause; "window": for a slot.
WorkerStates == {"idle", "held", "window", "sending", "stopped"}

Older(c, d) == \E i, j \in DOMAIN order : i < j /\ order[i] = c /\ order[j] = d

Last(c) == \A d \in Range(order) : KeyOf[d] = KeyOf[c] => ~Older(c, d)

Init ==
    /\ order = <<>>
    /\ status = [c \in Call |-> "new"]
    /\ forget = {}
    /\ attempt = [c \in Call |-> 0]
    /\ spawned = <<>>
    /\ queueList = <<>>
    /\ func = [k \in Key |-> NoCall]
    /\ futures = [k \in Key |-> {}]
    /\ worker = "idle"
    /\ running = NoCall
    /\ answering = {}
    /\ paused = FALSE
    /\ stopping = FALSE
    /\ shown = [k \in Key |-> NoCall]

-----------------------------------------------------------------------------
(* The callers. *)

\* A call takes the place of the queued call with its key, and joins its callers.
KeepOld(c) ==
    /\ futures' = [futures EXCEPT ![KeyOf[c]] = @ \union {c}]
    /\ UNCHANGED <<func, queueList>>
DropCallers(c) ==
    /\ func' = [func EXCEPT ![KeyOf[c]] = c]
    /\ futures' = [futures EXCEPT ![KeyOf[c]] = {c}]
    /\ UNCHANGED queueList
Compact(c) ==
    /\ func' = [func EXCEPT ![KeyOf[c]] = c]
    /\ futures' = [futures EXCEPT ![KeyOf[c]] = @ \union {c}]
    /\ UNCHANGED queueList

Enter(c) ==
    /\ func' = [func EXCEPT ![KeyOf[c]] = c]
    /\ futures' = [futures EXCEPT ![KeyOf[c]] = {c}]
    /\ queueList' = Append(queueList, KeyOf[c])

\* _enqueue_internal_multi.
Enqueue(c) == IF func[KeyOf[c]] # NoCall THEN Compact(c) ELSE Enter(c)

Wait(c) == status' = [status EXCEPT ![c] = "waiting"] /\ Enqueue(c)

\* fire_and_forget: the task that will enqueue is created.
FireAndForget(c) ==
    /\ status[c] = "new"
    /\ order' = Append(order, c)
    /\ status' = [status EXCEPT ![c] = "spawned"]
    /\ forget' = forget \union {c}
    /\ spawned' = Append(spawned, c)
    /\ UNCHANGED <<attempt, queueVars, workerVars, stopping, shown>>

\* The event loop runs new tasks in the order of their creation.
FirstStep(c) ==
    /\ spawned # <<>>
    /\ c = Head(spawned)
    /\ spawned' = Tail(spawned)
    /\ Wait(c)
    /\ UNCHANGED <<order, forget, attempt, workerVars, stopping, shown>>

(* enqueue, awaited by its caller.  The handler awaits the answer of sends, of
   deletions and of the first edit of a voice note's status: no task created
   for the same key is about to step.                                       *)
AwaitedCall(c) ==
    /\ status[c] = "new"
    /\ \A d \in Range(spawned) : KeyOf[d] # KeyOf[c]
    /\ order' = Append(order, c)
    /\ Wait(c)
    /\ UNCHANGED <<forget, attempt, spawned, workerVars, stopping, shown>>

\* The awaiting caller is cancelled, and with it the future.
Abandon(c) ==
    /\ status[c] = "waiting"
    /\ c \notin forget
    /\ status' = [status EXCEPT ![c] = "abandoned"]
    /\ UNCHANGED <<order, forget, attempt, spawned, queueVars, workerVars,
                   stopping, shown>>

\* The sleep before a retry is over: the same function is enqueued again.
Retry(c) ==
    /\ status[c] = "backoff"
    /\ Wait(c)
    /\ UNCHANGED <<order, forget, attempt, spawned, workerVars, stopping, shown>>

-----------------------------------------------------------------------------
(* The worker. *)

\* What the worker does next with what it took.
AtOnce == "window"
AfterTake == IF paused THEN "held" ELSE "window"

\* It takes the first key and everything queued for it.
Take ==
    /\ worker = "idle"
    /\ ~stopping
    /\ queueList # <<>>
    /\ LET k == Head(queueList)
       IN  /\ queueList' = Tail(queueList)
           /\ running' = func[k]
           /\ answering' = futures[k]
           /\ func' = [func EXCEPT ![k] = NoCall]
           /\ futures' = [futures EXCEPT ![k] = {}]
    /\ worker' = AfterTake
    /\ UNCHANGED <<callVars, paused, stopping, shown>>

\* The pause ends, and the worker's sleep with it.
PauseOver ==
    /\ paused
    /\ paused' = FALSE
    /\ worker' = IF worker = "held" THEN "window" ELSE worker
    /\ UNCHANGED <<callVars, queueVars, running, answering, stopping, shown>>

\* The rolling window has a slot.
Slot ==
    /\ worker = "window"
    /\ ~stopping
    /\ worker' = "sending"
    /\ UNCHANGED <<callVars, queueVars, running, answering, paused, stopping, shown>>

Show == shown' = [shown EXCEPT ![KeyOf[running]] = running]

\* The worker has answered, and lets go of the batch.
LetGo == worker' = "idle" /\ running' = NoCall /\ answering' = {}

\* The futures that are not done get the result.
Answer(s) ==
    [c \in Call |-> IF c \in answering /\ status[c] = "waiting" THEN s ELSE status[c]]

Sent ==
    /\ worker = "sending"
    /\ ~stopping
    /\ Show
    /\ status' = Answer("done")
    /\ LetGo
    /\ UNCHANGED <<order, forget, attempt, spawned, queueVars, paused, stopping>>

\* fire_and_forget's answer to an exception that says "connect", "timeout", ...
Retries(c) == c \in forget /\ attempt[c] < MaxRetries

(* The function raises; what it asked for may have taken effect even so.
   transient and flood say what the exception's text looks like.            *)
Raises(transient, flood) ==
    /\ worker = "sending"
    /\ ~stopping
    /\ Show \/ UNCHANGED shown
    /\ LET again == {c \in answering : status[c] = "waiting" /\ transient /\ Retries(c)}
       IN  /\ status' = [c \in Call |-> IF c \in again THEN "backoff"
                                        ELSE Answer("failed")[c]]
           /\ attempt' = [c \in Call |-> attempt[c] + (IF c \in again THEN 1 ELSE 0)]
    /\ paused' = (paused \/ flood)
    /\ LetGo
    /\ UNCHANGED <<order, forget, spawned, queueVars, stopping>>

\* shutdown: the event is set and the worker cancelled.
Shutdown ==
    /\ ~stopping
    /\ stopping' = TRUE
    /\ UNCHANGED <<callVars, queueVars, workerVars, shown>>

\* CancelledError reaches the worker, wherever it waits; nobody is answered.
WorkerStops ==
    /\ stopping
    /\ worker # "stopped"
    /\ worker' = "stopped"
    /\ (worker = "sending" /\ Show) \/ UNCHANGED shown
    /\ UNCHANGED <<callVars, queueVars, running, answering, paused, stopping>>

-----------------------------------------------------------------------------
(* Specifications. *)

CallStep(c) == FirstStep(c) \/ Retry(c)
WorkerStep == Take \/ PauseOver \/ Slot \/ WorkerStops

\* The platform's answer: it may fail, and fail in a way that invites a retry.
Platform == Sent \/ \E transient, flood \in BOOLEAN : Raises(transient, flood)

Next ==
    \/ \E c \in Call : FireAndForget(c) \/ AwaitedCall(c) \/ Abandon(c) \/ CallStep(c)
    \/ WorkerStep
    \/ Platform
    \/ Shutdown

Spec == Init /\ [][Next]_vars

(* The event loop runs what can run, waits of bounded length end, and the
   platform answers every request (its client has timeouts).                *)
Fairness ==
    /\ \A c \in Call : WF_vars(CallStep(c))
    /\ WF_vars(Take) /\ WF_vars(PauseOver) /\ WF_vars(Slot)
    /\ WF_vars(Platform) /\ WF_vars(WorkerStops)

LiveSpec == Spec /\ Fairness

-----------------------------------------------------------------------------
(* Properties. *)

\* Every variable holds values of its type.
TypeOK ==
    /\ order \in Seq(Call)
    /\ status \in [Call -> Statuses]
    /\ forget \subseteq Call
    /\ attempt \in [Call -> 0 .. MaxRetries]
    /\ spawned \in Seq(Call)
    /\ queueList \in Seq(Key)
    /\ func \in [Key -> Call \union {NoCall}]
    /\ futures \in [Key -> SUBSET Call]
    /\ worker \in WorkerStates
    /\ running \in Call \union {NoCall}
    /\ answering \subseteq Call
    /\ paused \in BOOLEAN
    /\ stopping \in BOOLEAN
    /\ shown \in [Key -> Call \union {NoCall}]

(* The deque holds each key of the map once, and no other: the worker's
   _queue_map.pop(key) finds what popleft names (_enqueue_internal_multi,
   _worker).                                                                *)
QueueIsMap ==
    /\ \A k \in Key : func[k] # NoCall <=> k \in Range(queueList)
    /\ \A i, j \in DOMAIN queueList : queueList[i] = queueList[j] => i = j

(* Somebody will answer: the future of a waiting caller is in the map under
   the caller's key, or in the worker's hands, and never in both.  Compaction
   and retries lose no caller.                                              *)
WaiterHeld ==
    \A c \in Call : status[c] = "waiting" =>
        /\ c \in answering <=> c \notin futures[KeyOf[c]]
        /\ c \in futures[KeyOf[c]] => KeyOf[c] \in Range(queueList)

\* A call about the message has been, or will be, enqueued again.
Retried(k) == \E d \in Call : KeyOf[d] = k /\ attempt[d] > 0

(* "Ensure only the latest version of a message update is processed" (class
   comment, limiter.py:76): when the last update of a message is done, it is
   the one shown, unless an update of the message was retried.              *)
LatestShown ==
    \A c \in Call : status[c] = "done" /\ Last(c) /\ ~Retried(KeyOf[c])
                      => shown[KeyOf[c]] = c

\* The same, whatever the platform answers.
AlwaysLatestShown ==
    \A c \in Call : status[c] = "done" /\ Last(c) => shown[KeyOf[c]] = c

(* A caller that is told its update is done sees it, or a later update of the
   same message ("Compaction", _enqueue_internal_multi).                    *)
OwnOrNewer ==
    [][\A c \in Call : status[c] = "waiting" /\ status'[c] = "done" /\ ~Retried(KeyOf[c])
         => ~Older(shown'[KeyOf[c]], c)]_vars

\* Nothing is sent while the worker is told to pause (FloodWait, _worker).
NoSendInPause == worker = "sending" => ~paused

(* Every call ends, however often functions fail and keys are compacted, as
   long as the limiter is not shut down.                                    *)
Answered == \A c \in Call : status[c] # "new" ~> status[c] \in Ended \/ stopping
=============================================================================
