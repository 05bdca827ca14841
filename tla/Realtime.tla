------------------------------ MODULE Realtime ------------------------------
(* The realtime channel of a workspace (api/v1/realtime.py), with those who
   publish on it: the task endpoints (api/v1/routers/tasks.py; workspaces and
   automations are alike) and the web platform of the bot
   (messaging/platforms/web.py).

   All of it runs in one event loop.  A change of the database and its publication
   are one step: psycopg blocks the loop and publish_workspace_event never
   suspends.  The loop goes on to others where a websocket is sent to or received
   from, where a queue is empty or full, and while the bot handles a message.

   What a client would show if it applied the events it gets to what was there
   when it connected is view; a version stands for the contents.             *)
EXTENDS Integers, Sequences, SequencesExt, FiniteSets

CONSTANTS Client,    \* websockets; one that reconnects is another one
          Row,       \* the rows of the tasks table
          Post,      \* the numbers of the messages the bot sends
          QueueMax,  \* QUEUE_MAX_SIZE
          MaxEvents, MaxSays  \* how often something is published, a client speaks

ASSUME QueueHolds == QueueMax \in Nat \ {0}
ASSUME PostsAreNumbered == Post \subseteq Nat \ {0}
ASSUME RowsAreNoPosts == Row \cap Post = {}   \* uuids, and ids of the form web-out-1
ASSUME BoundsAreNumbers == MaxEvents \in Nat /\ MaxSays \in Nat

VARIABLES
    subscribers, \* _workspace_connections[workspace_id]
    queue,       \* of each subscriber
    endpoint,    \* workspace_socket of each client
    sender,      \* its _sender_loop, with the message it sends
    receiver,    \* its _receiver_loop
    socket,      \* what has become of the connection
    registered,  \* the web platform's client event handler
    outCounter,  \* _out_counter
    fired,       \* the tasks of fire_and_forget that did not run yet
    things,      \* the version of each row and each message of the bot
    published,   \* the number of events published
    view, last,  \* what each client shows, the last event it got
    missed,      \* the clients for which an event was dropped
    says         \* how often clients spoke

hubVars    == <<subscribers, queue, missed>>
loopVars   == <<endpoint, sender, receiver>>
webVars    == <<registered, outCounter, fired>>
clientVars == <<socket, view, last, says>>
vars == <<hubVars, loopVars, webVars, clientVars, things, published>>

Thing == Row \union Post
Never == -1
Deleted == 0

Event(n, x, v) == [type |-> "event", n |-> n, thing |-> x, version |-> v]
Note(type)     == [type |-> type, n |-> 0]
Idle           == Note("none")

Init ==
    /\ subscribers = {}
    /\ queue = [c \in Client |-> <<>>]
    /\ endpoint = [c \in Client |-> "none"]
    /\ sender = [c \in Client |-> Idle]
    /\ receiver = [c \in Client |-> "none"]
    /\ socket = [c \in Client |-> "none"]
    /\ registered = FALSE
    /\ outCounter = 0
    /\ fired = <<>>
    /\ things = [x \in Thing |-> Never]
    /\ published = 0
    /\ view = [c \in Client |-> [x \in Thing |-> Never]]
    /\ last = [c \in Client |-> 0]
    /\ missed = {}
    /\ says = 0

-----------------------------------------------------------------------------
(* publish_workspace_event: a full queue loses its oldest message. *)

Full(c) == Len(queue[c]) = QueueMax

PutOrDropNewest(c, e) == IF Full(c) THEN queue[c] ELSE Append(queue[c], e)
PutAlways(c, e) == Append(queue[c], e)
PutDroppingOldest(c, e) == Append(IF Full(c) THEN Tail(queue[c]) ELSE queue[c], e)

Publish(x, v) ==
    /\ published < MaxEvents
    /\ published' = published + 1
    /\ queue' = [c \in Client |-> IF c \in subscribers
                                  THEN PutDroppingOldest(c, Event(published', x, v)) ELSE queue[c]]
    /\ missed' = missed \union {c \in subscribers : Full(c) /\ Head(queue[c]).type = "event"}
    /\ UNCHANGED subscribers

-----------------------------------------------------------------------------
(* The endpoints of the tasks: the row is committed, then the event published. *)

Exists(x) == things[x] > Deleted
BecomesAt(x, v) == things' = [things EXCEPT ![x] = v]

CreateTask(t) ==
    /\ things[t] = Never
    /\ BecomesAt(t, 1) /\ Publish(t, 1)
    /\ UNCHANGED <<loopVars, webVars, clientVars>>
UpdateTask(t) ==
    /\ Exists(t)
    /\ BecomesAt(t, things[t] + 1) /\ Publish(t, things[t] + 1)
    /\ UNCHANGED <<loopVars, webVars, clientVars>>
DeleteTask(t) ==
    /\ Exists(t)
    /\ BecomesAt(t, Deleted) /\ Publish(t, Deleted)
    /\ UNCHANGED <<loopVars, webVars, clientVars>>

-----------------------------------------------------------------------------
(* The web platform.  The bot waits for what it sends and, in /clear, deletes;
   an edit is a task of the loop, which runs later.                         *)

StartStop ==
    /\ registered' = ~registered
    /\ UNCHANGED <<hubVars, loopVars, clientVars, things, published, outCounter, fired>>

SendMessage ==
    /\ outCounter + 1 \in Post
    /\ outCounter' = outCounter + 1
    /\ BecomesAt(outCounter', 1) /\ Publish(outCounter', 1)
    /\ UNCHANGED <<loopVars, clientVars, registered, fired>>

EditMessage(p) ==
    /\ Exists(p)
    /\ published + Len(fired) < MaxEvents
    /\ BecomesAt(p, things[p] + 1)
    /\ fired' = Append(fired, [post |-> p, version |-> things[p] + 1])
    /\ UNCHANGED <<hubVars, loopVars, clientVars, registered, outCounter, published>>

RunFired ==
    /\ fired # <<>>
    /\ fired' = Tail(fired)
    /\ Publish(Head(fired).post, Head(fired).version)
    /\ UNCHANGED <<loopVars, clientVars, registered, outCounter, things>>

DeleteMessage(p) ==
    /\ Exists(p)
    /\ BecomesAt(p, Deleted) /\ Publish(p, Deleted)
    /\ UNCHANGED <<loopVars, webVars, clientVars>>

-----------------------------------------------------------------------------
(* workspace_socket, _sender_loop, _receiver_loop. *)

\* accept; the greeting is sent before the loops start.
Connect(c) ==
    /\ socket[c] = "none"
    /\ socket' = [socket EXCEPT ![c] = "open"]
    /\ endpoint' = [endpoint EXCEPT ![c] = "greeting"]
    /\ subscribers' = subscribers \union {c}
    /\ view' = [view EXCEPT ![c] = things]
    /\ last' = [last EXCEPT ![c] = published]
    /\ UNCHANGED <<queue, missed, sender, receiver, webVars, things, published, says>>

Greeted(c) ==
    /\ endpoint[c] = "greeting"
    /\ endpoint' = [endpoint EXCEPT ![c] = "waiting"]
    /\ sender' = [sender EXCEPT ![c] = Note("get")]
    /\ receiver' = [receiver EXCEPT ![c] = "receiving"]
    /\ UNCHANGED <<hubVars, webVars, clientVars, things, published>>

\* The client is gone already: the exception leaves before the try.
GreetingFails(c) ==
    /\ endpoint[c] = "greeting" /\ socket[c] = "gone"
    /\ endpoint' = [endpoint EXCEPT ![c] = "ended"]
    /\ UNCHANGED <<hubVars, sender, receiver, webVars, clientVars, things, published>>

SenderTakes(c) ==
    /\ sender[c].type = "get" /\ queue[c] # <<>>
    /\ sender' = [sender EXCEPT ![c] = Head(queue[c])]
    /\ queue' = [queue EXCEPT ![c] = Tail(@)]
    /\ UNCHANGED <<subscribers, missed, endpoint, receiver, webVars, clientVars, things, published>>

HeartbeatAndLoss(c) ==
    /\ sender[c].type = "get"
    /\ sender' = [sender EXCEPT ![c] = Note("heartbeat")]
    /\ queue' = [queue EXCEPT ![c] = IF @ = <<>> THEN @ ELSE Tail(@)]
    /\ UNCHANGED <<subscribers, missed, endpoint, receiver, webVars, clientVars, things, published>>
\* The timeout, also just before a message is taken: the message stays in the queue.
Heartbeat(c) ==
    /\ sender[c].type = "get"
    /\ sender' = [sender EXCEPT ![c] = Note("heartbeat")]
    /\ UNCHANGED <<hubVars, endpoint, receiver, webVars, clientVars, things, published>>

Sending(c) == sender[c].type \in {"event", "client_event", "heartbeat"}

\* What is sent to a client that has just gone may vanish, or the send raises.
Sent(c) ==
    LET e == sender[c]
        arrives == socket[c] = "open" /\ e.type = "event"
    IN  /\ Sending(c)
        /\ sender' = [sender EXCEPT ![c] = Note("get")]
        /\ view' = IF arrives THEN [view EXCEPT ![c][e.thing] = e.version] ELSE view
        /\ last' = IF arrives THEN [last EXCEPT ![c] = e.n] ELSE last
        /\ UNCHANGED <<hubVars, endpoint, receiver, webVars, socket, says, things, published>>
SendFails(c) ==
    /\ Sending(c) /\ socket[c] = "gone"
    /\ sender' = [sender EXCEPT ![c] = Note("failed")]
    /\ UNCHANGED <<hubVars, endpoint, receiver, webVars, clientVars, things, published>>

\* A text from the client, for the bot or not.
Receive(c) ==
    /\ receiver[c] = "receiving" /\ socket[c] = "open" /\ says < MaxSays
    /\ says' = says + 1
    /\ \E next \in {"handling", "putting"} :
         /\ next = "handling" => registered
         /\ receiver' = [receiver EXCEPT ![c] = next]
    /\ UNCHANGED <<hubVars, endpoint, sender, webVars, socket, view, last, things, published>>

Handled(c) ==
    /\ receiver[c] = "handling"
    /\ receiver' = [receiver EXCEPT ![c] = "putting"]
    /\ UNCHANGED <<hubVars, endpoint, sender, webVars, clientVars, things, published>>

\* The echo waits for room.
Echo(c) ==
    /\ receiver[c] = "putting" /\ ~Full(c)
    /\ queue' = [queue EXCEPT ![c] = Append(@, Note("client_event"))]
    /\ receiver' = [receiver EXCEPT ![c] = "receiving"]
    /\ UNCHANGED <<subscribers, missed, endpoint, sender, webVars, clientVars, things, published>>

ReceiveFails(c) ==
    /\ receiver[c] = "receiving" /\ socket[c] = "gone"
    /\ receiver' = [receiver EXCEPT ![c] = "failed"]
    /\ UNCHANGED <<hubVars, endpoint, sender, webVars, clientVars, things, published>>

\* FIRST_EXCEPTION: the other loop is cancelled.
AnyFailed(c) == sender[c].type = "failed" \/ receiver[c] = "failed"
BothFailed(c) == sender[c].type = "failed" /\ receiver[c] = "failed"
LoopFailed(c) == AnyFailed(c)
Ends(c) ==
    /\ endpoint[c] = "waiting" /\ LoopFailed(c)
    /\ endpoint' = [endpoint EXCEPT ![c] = "ended"]
    /\ sender' = [sender EXCEPT ![c] = Idle]
    /\ receiver' = [receiver EXCEPT ![c] = "none"]
    /\ subscribers' = subscribers \ {c}
    /\ queue' = [queue EXCEPT ![c] = <<>>]
    /\ UNCHANGED <<missed, webVars, clientVars, things, published>>

Disconnect(c) ==
    /\ socket[c] = "open"
    /\ socket' = [socket EXCEPT ![c] = "gone"]
    /\ UNCHANGED <<hubVars, loopVars, webVars, view, last, says, things, published>>

-----------------------------------------------------------------------------
Tasks == \E t \in Row : CreateTask(t) \/ UpdateTask(t) \/ DeleteTask(t)
Web   == StartStop \/ SendMessage \/ RunFired \/ \E p \in Post : EditMessage(p) \/ DeleteMessage(p)
Greeting(c) == Greeted(c) \/ GreetingFails(c)
Sends(c)    == Heartbeat(c) \/ Sent(c) \/ SendFails(c)
Receives(c) == Receive(c) \/ Handled(c) \/ Echo(c) \/ ReceiveFails(c)

Next ==
    \/ Tasks \/ Web
    \/ \E c \in Client :
         \/ Connect(c) \/ Disconnect(c)
         \/ Greeting(c) \/ SenderTakes(c) \/ Sends(c) \/ Receives(c) \/ Ends(c)

(* The loop runs what is ready; a heartbeat is due at last; a client that stays
   reads; the bot's handler returns.  A message that is there is taken at once,
   but for a timeout in the same moment, which does not happen for ever.    *)
Fairness ==
    /\ WF_vars(RunFired)
    /\ \A c \in Client :
         /\ WF_vars(Greeting(c)) /\ WF_vars(Ends(c))
         /\ WF_vars(Sends(c)) /\ SF_vars(SenderTakes(c))
         /\ WF_vars(Handled(c) \/ Echo(c) \/ ReceiveFails(c))

Spec == Init /\ [][Next]_vars /\ Fairness

-----------------------------------------------------------------------------
(* Properties. *)

\* Every variable holds values of its type; no queue is longer than its bound.
TypeOK ==
    /\ subscribers \subseteq Client /\ missed \subseteq Client
    /\ \A c \in Client :
         /\ Len(queue[c]) <= QueueMax
         /\ \A k \in DOMAIN queue[c] : queue[c][k].type \in {"event", "client_event"}
         /\ endpoint[c] \in {"none", "greeting", "waiting", "ended"}
         /\ sender[c].type \in {"none", "get", "event", "client_event", "heartbeat", "failed"}
         /\ receiver[c] \in {"none", "receiving", "handling", "putting", "failed"}
         /\ last[c] \in 0 .. MaxEvents
    /\ things \in [Thing -> Never .. MaxEvents + 1]
    /\ published \in 0 .. MaxEvents /\ says \in 0 .. MaxSays

\* Nothing is on its way to a client that listens and has missed nothing.
UpToDate(c) ==
    /\ endpoint[c] = "waiting" /\ socket[c] = "open" /\ c \notin missed
    /\ queue[c] = <<>> /\ sender[c].type \in {"get", "heartbeat", "client_event"}

(* "Broadcast an event payload to all websocket clients of one workspace"
   (realtime.py:52): a client that applied the events it got knows the tasks as
   they are in the database, whatever happened while it was being greeted.   *)
InStep == \A c \in Client : UpToDate(c) => \A t \in Row : view[c][t] = things[t]

(* The newest event reaches every client that stays, however slow it is and
   whatever was dropped before (realtime.py:65-73).                          *)
NewsArrives ==
    \A c \in Client : \A n \in 1 .. MaxEvents :
        (published = n /\ c \in subscribers /\ socket[c] = "open")
            ~> (last[c] >= n \/ socket[c] = "gone")

(* A client that goes away while its loops run is taken out of the registry, also
   when its receiver waits for room in the queue (realtime.py:145-163).      *)
Leaves ==
    \A c \in Client :
        (endpoint[c] = "waiting" /\ socket[c] = "gone") ~> c \notin subscribers

(* "workspace_id -> active websocket subscribers" (realtime.py:27): who is in the
   registry has an endpoint.                                                 *)
ActiveOnly == \A c \in subscribers : endpoint[c] \in {"greeting", "waiting"}

(* The bot's messages on the client's screen are the ones it sent and did not
   delete (web.py:122-151).                                                  *)
PostsInStep ==
    fired = <<>> => \A c \in Client : UpToDate(c) => \A p \in Post : view[c][p] = things[p]

=============================================================================
