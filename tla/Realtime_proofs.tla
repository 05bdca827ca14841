--------------------------- MODULE Realtime_proofs ---------------------------
(* Proofs about Realtime, for any number of clients, rows and messages, any
   queue bound, and whatever a client misses, says or loses.                *)
EXTENDS Realtime, TLAPS

-----------------------------------------------------------------------------
(* The inductive invariant. *)

EventMessage == [type : {"event"}, n : 1 .. MaxEvents, thing : Thing, version : Int]
Message      == EventMessage \union {Note("client_event")}
SenderState  == Message \union {Note(s) : s \in {"none", "get", "heartbeat", "failed"}}

\* The types TypeOK leaves out.
Types ==
    /\ subscribers \subseteq Client /\ missed \subseteq Client
    /\ queue \in [Client -> Seq(Message)]
    /\ endpoint \in [Client -> {"none", "greeting", "waiting", "ended"}]
    /\ sender \in [Client -> SenderState]
    /\ receiver \in [Client -> {"none", "receiving", "handling", "putting", "failed"}]
    /\ socket \in [Client -> {"none", "open", "gone"}]
    /\ registered \in BOOLEAN
    /\ outCounter \in Nat
    /\ fired \in Seq([post : Post, version : Int])
    /\ things \in [Thing -> Never .. MaxEvents]
    /\ published \in 0 .. MaxEvents
    /\ view \in [Client -> [Thing -> Int]]
    /\ last \in [Client -> 0 .. MaxEvents]
    /\ says \in 0 .. MaxSays

\* Every change is published, or will be by a task that did not run yet.
Counted ==
    /\ \A t \in Row : things[t] <= published
    /\ \A p \in Post : things[p] <= published + Len(fired)

\* The registry, the loops and the socket of a client.
Wired(c) ==
    /\ Len(queue[c]) <= QueueMax
    /\ endpoint[c] = "none" => c \notin subscribers /\ queue[c] = <<>>
    /\ socket[c] = "none" => endpoint[c] = "none"
    /\ endpoint[c] \in {"greeting", "waiting"} => c \in subscribers
    /\ endpoint[c] # "waiting" => sender[c] = Idle /\ receiver[c] = "none"

\* A message tells a version of x; a queue tells none; the newest it tells is v.
Tells(m, x)     == m.type = "event" /\ m.thing = x
Silent(q, x)    == \A k \in 1 .. Len(q) : ~Tells(q[k], x)
Newest(q, x, v) ==
    \A k \in 1 .. Len(q) :
        Tells(q[k], x) /\ (\A j \in k + 1 .. Len(q) : ~Tells(q[j], x)) => q[k].version = v

(* What a client will know of x when it has got what is on its way is the version x
   has: the newest one in the queue, or else in the sender, or else on the screen. *)
WillKnow(c, x) ==
    /\ Newest(queue[c], x, things[x])
    /\ Silent(queue[c], x) =>
         IF Tells(sender[c], x) THEN sender[c].version = things[x] ELSE view[c][x] = things[x]

Listens(c) == endpoint[c] \in {"greeting", "waiting"} /\ socket[c] = "open" /\ c \notin missed
Told(c)    == Listens(c) => \A t \in Row : WillKnow(c, t)

RealtimeInv == Types /\ Counted /\ \A c \in Client : Wired(c) /\ Told(c)

-----------------------------------------------------------------------------
(* Lemmas about queues. *)

\* Append, as the echo and publish_workspace_event put messages.
LEMMA AppendNewest ==
    ASSUME NEW q \in Seq(Message), NEW m \in Message, NEW x, NEW v,
           Tells(m, x) => m.version = v, ~Tells(m, x) => Newest(q, x, v)
    PROVE  /\ Newest(Append(q, m), x, v)
           /\ Silent(Append(q, m), x) <=> Silent(q, x) /\ ~Tells(m, x)
<1> DEFINE r == Append(q, m)
<1>1. /\ Len(r) = Len(q) + 1 /\ r[Len(r)] = m /\ Len(q) \in Nat
      /\ \A k \in 1 .. Len(q) : r[k] = q[k]
  OBVIOUS
<1> HIDE DEF r
<1>2. Silent(r, x) <=> Silent(q, x) /\ ~Tells(m, x)
  <2>1. 1 .. Len(r) = 1 .. Len(q) \union {Len(r)}
    BY <1>1
  <2> QED
    BY <1>1, <2>1 DEF Silent
<1>3. ASSUME NEW k \in 1 .. Len(r), Tells(r[k], x), \A j \in k + 1 .. Len(r) : ~Tells(r[j], x)
      PROVE  r[k].version = v
  <2>1. CASE k = Len(r)
    BY <1>1, <1>3, <2>1
  <2>2. CASE k # Len(r)
    <3>1. k \in 1 .. Len(q) /\ Len(r) \in k + 1 .. Len(r) /\ k + 1 .. Len(q) \subseteq k + 1 .. Len(r)
      BY <1>1, <2>2
    <3>2. ~Tells(m, x) /\ r[k] = q[k]
      BY <1>1, <1>3, <3>1
    <3>3. \A j \in k + 1 .. Len(q) : ~Tells(q[j], x)
      <4> TAKE j \in k + 1 .. Len(q)
      <4>1. r[j] = q[j]
        BY <1>1, <3>1
      <4> QED
        BY <1>3, <3>1, <4>1
    <3> QED
      BY <1>3, <3>1, <3>2, <3>3 DEF Newest
  <2> QED
    BY <2>1, <2>2
<1> QED
  BY <1>2, <1>3 DEF Newest, r

\* Tail, as the sender takes a message and a full queue loses one.
LEMMA TailNewest ==
    ASSUME NEW q \in Seq(Message), q # <<>>, NEW x, NEW v, Newest(q, x, v)
    PROVE  /\ Newest(Tail(q), x, v)
           /\ Silent(Tail(q), x) /\ Tells(Head(q), x) => Head(q).version = v
           /\ Silent(q, x) <=> Silent(Tail(q), x) /\ ~Tells(Head(q), x)
<1> DEFINE r == Tail(q)
<1>1. /\ Len(q) = Len(r) + 1 /\ Len(r) \in Nat /\ Head(q) = q[1]
      /\ \A k \in 1 .. Len(r) : r[k] = q[k + 1]
  OBVIOUS
<1> HIDE DEF r
<1>2. \A k \in 2 .. Len(q) : k - 1 \in 1 .. Len(r) /\ q[k] = r[k - 1]
  <2> TAKE k \in 2 .. Len(q)
  <2>1. k - 1 \in 1 .. Len(r) /\ (k - 1) + 1 = k
    BY <1>1
  <2> QED
    BY <1>1, <2>1
<1>3. Newest(r, x, v)
  <2> SUFFICES ASSUME NEW k \in 1 .. Len(r), Tells(r[k], x),
                      \A j \in k + 1 .. Len(r) : ~Tells(r[j], x)
               PROVE  r[k].version = v
    BY DEF Newest
  <2>1. k + 1 \in 1 .. Len(q) /\ r[k] = q[k + 1]
    BY <1>1
  <2>2. \A j \in (k + 1) + 1 .. Len(q) : ~Tells(q[j], x)
    <3> TAKE j \in (k + 1) + 1 .. Len(q)
    <3>1. j \in 2 .. Len(q) /\ j - 1 \in k + 1 .. Len(r)
      BY <1>1
    <3> QED
      BY <1>2, <3>1
  <2> QED
    BY <2>1, <2>2 DEF Newest
<1>4. ASSUME Silent(r, x), Tells(Head(q), x) PROVE Head(q).version = v
  <2>1. \A j \in 1 + 1 .. Len(q) : ~Tells(q[j], x)
    BY <1>2, <1>4 DEF Silent
  <2> QED
    BY <1>1, <1>4, <2>1 DEF Newest
<1>5. Silent(q, x) <=> Silent(r, x) /\ ~Tells(Head(q), x)
  <2>1. \A k \in 1 .. Len(q) : k = 1 \/ k \in 2 .. Len(q)
    BY <1>1
  <2>2. 1 \in 1 .. Len(q) /\ \A k \in 1 .. Len(r) : k + 1 \in 1 .. Len(q)
    BY <1>1
  <2> QED
    BY <1>1, <1>2, <2>1, <2>2 DEF Silent
<1> QED
  BY <1>3, <1>4, <1>5 DEF r

-----------------------------------------------------------------------------
(* Steps. *)

LEMMA RealtimeInitOK == Init => RealtimeInv
<1> SUFFICES ASSUME Init PROVE RealtimeInv
  OBVIOUS
<1>1. Types
  <2>1. 0 \in 0 .. MaxEvents /\ 0 \in 0 .. MaxSays /\ Never \in Never .. MaxEvents /\ Never \in Int
    BY BoundsAreNumbers DEF Never
  <2>2. Idle \in SenderState
    BY <2>1 DEF SenderState, Idle, Never
  <2>3. /\ queue \in [Client -> Seq(Message)]
        /\ fired \in Seq([post : Post, version : Int])
    BY DEF Init
  <2>4. things \in [Thing -> Never .. MaxEvents] /\ view \in [Client -> [Thing -> Int]]
    BY <2>1 DEF Init
  <2>5. sender \in [Client -> SenderState] /\ last \in [Client -> 0 .. MaxEvents]
    BY <2>1, <2>2 DEF Init
  <2> QED
    BY <2>1, <2>3, <2>4, <2>5 DEF Init, Types
<1>2. Counted
  BY DEF Init, Counted, Never, Thing
<1>3. ASSUME NEW c \in Client PROVE Wired(c) /\ Told(c)
  BY QueueHolds DEF Init, Wired, Told, Listens
<1> QED
  BY <1>1, <1>2, <1>3 DEF RealtimeInv

\* publish_workspace_event, of a change already made or made in the same step.
LEMMA PublishOK ==
    ASSUME RealtimeInv, NEW x \in Thing, NEW v \in Int, Publish(x, v),
           UNCHANGED <<loopVars, clientVars>>,
           x \in Row => things'[x] = v,
           \A t \in Row : t # x => things'[t] = things[t]
    PROVE  /\ subscribers' \subseteq Client /\ missed' \subseteq Client
           /\ queue' \in [Client -> Seq(Message)]
           /\ published' = published + 1 /\ published' \in 1 .. MaxEvents
           /\ \A c \in Client : Wired(c)' /\ Told(c)'
<1> USE DEF RealtimeInv, loopVars, clientVars
<1>1. published' = published + 1 /\ published' \in 1 .. MaxEvents
  BY BoundsAreNumbers DEF Publish, Types
<1> DEFINE e == Event(published', x, v)
<1>2. e \in Message /\ e.type = "event" /\ e.thing = x /\ e.version = v
  BY <1>1 DEF Event, Message, EventMessage
<1>3. /\ subscribers' = subscribers
      /\ missed' = missed \union {c \in subscribers : Full(c) /\ Head(queue[c]).type = "event"}
      /\ queue' = [c \in Client |-> IF c \in subscribers THEN PutDroppingOldest(c, e) ELSE queue[c]]
  BY DEF Publish
<1> HIDE DEF e
<1>4. ASSUME NEW c \in Client
      PROVE  queue'[c] \in Seq(Message) /\ Wired(c)' /\ Told(c)'
  <2>1. queue[c] \in Seq(Message) /\ Len(queue[c]) \in Nat /\ Len(queue[c]) <= QueueMax
    BY DEF Types, Wired
  <2>2. CASE c \notin subscribers
    BY <1>3, <2>1, <2>2 DEF Wired, Told, Listens
  <2>3. CASE c \in subscribers
    <3> DEFINE q == IF Full(c) THEN Tail(queue[c]) ELSE queue[c]
    <3>1. queue'[c] = Append(q, e)
      BY <1>3, <2>3 DEF PutDroppingOldest
    <3>2. Full(c) => queue[c] # <<>> /\ Len(Tail(queue[c])) = Len(queue[c]) - 1
      BY <2>1, QueueHolds DEF Full
    <3>3. q \in Seq(Message) /\ Len(q) + 1 <= QueueMax /\ Len(q) \in Nat
      BY <2>1, <3>2, QueueHolds DEF Full
    <3>4. ASSUME Listens(c)', NEW t \in Row
          PROVE  WillKnow(c, t)'
      <4>1. Listens(c) /\ ~(Full(c) /\ Head(queue[c]).type = "event")
        BY <1>3, <2>3, <3>4 DEF Listens
      <4>2. WillKnow(c, t)
        BY <4>1 DEF Told
      <4>3. /\ Newest(q, t, things[t])
            /\ Silent(q, t) <=> Silent(queue[c], t)
        BY <2>1, <3>2, <4>1, <4>2, TailNewest DEF WillKnow, Tells
      <4>4. Tells(e, t) <=> t = x
        BY <1>2 DEF Tells
      <4>5. t # x => things'[t] = things[t]
        OBVIOUS
      <4>6. t = x => things'[t] = e.version
        BY <1>2
      <4> HIDE DEF q
      <4>7. /\ Newest(Append(q, e), t, things'[t])
            /\ Silent(Append(q, e), t) <=> Silent(q, t) /\ ~Tells(e, t)
        <5>1. ~Tells(e, t) => Newest(q, t, things'[t])
          BY <4>3, <4>4, <4>5
        <5>2. Tells(e, t) => e.version = things'[t]
          BY <4>4, <4>6
        <5> QED
          BY <1>2, <3>3, <5>1, <5>2, AppendNewest
      <4> QED
        BY <3>1, <4>2, <4>3, <4>4, <4>5, <4>7 DEF WillKnow
    <3> HIDE DEF q
    <3>5. queue'[c] \in Seq(Message) /\ Len(queue'[c]) <= QueueMax
      BY <1>2, <3>1, <3>3
    <3>6. Wired(c)'
      BY <1>3, <2>3, <3>5 DEF Wired
    <3> QED
      BY <3>4, <3>5, <3>6 DEF Told
  <2> QED
    BY <2>2, <2>3
<1>5. queue' \in [Client -> Seq(Message)]
  BY <1>3, <1>4
<1> QED
  BY <1>1, <1>3, <1>4, <1>5 DEF Types

\* The endpoints of the tasks.
LEMMA TasksOK ==
    ASSUME RealtimeInv, NEW t \in Row, CreateTask(t) \/ UpdateTask(t) \/ DeleteTask(t)
    PROVE  RealtimeInv'
<1> USE DEF RealtimeInv
<1>1. PICK v \in Int : /\ Publish(t, v) /\ BecomesAt(t, v) /\ v \in 0 .. published + 1
                       /\ UNCHANGED <<loopVars, webVars, clientVars>>
  <2>1. t \in Thing /\ things[t] \in Int /\ published \in Nat /\ things[t] <= published
    BY BoundsAreNumbers DEF Thing, Types, Counted, Never
  <2>2. CASE CreateTask(t)
    BY <2>1, <2>2 DEF CreateTask
  <2>3. CASE UpdateTask(t)
    BY <2>1, <2>3 DEF UpdateTask, Exists, Deleted
  <2>4. CASE DeleteTask(t)
    BY <2>1, <2>4 DEF DeleteTask, Deleted
  <2> QED
    BY <2>2, <2>3, <2>4
<1>2. t \in Thing /\ things' = [things EXCEPT ![t] = v] /\ things \in [Thing -> Never .. MaxEvents]
  BY <1>1 DEF BecomesAt, Thing, Types
<1>3. /\ subscribers' \subseteq Client /\ missed' \subseteq Client
      /\ queue' \in [Client -> Seq(Message)]
      /\ published' = published + 1 /\ published' \in 1 .. MaxEvents
      /\ \A c \in Client : Wired(c)' /\ Told(c)'
  <2>1. \A u \in Row : u # t => things'[u] = things[u]
    BY <1>2 DEF Thing
  <2> QED
    BY <1>1, <1>2, <2>1, PublishOK
<1>4. v \in Never .. MaxEvents
  BY <1>1, <1>3, BoundsAreNumbers DEF Never
<1>5. Types'
  BY <1>1, <1>2, <1>3, <1>4, BoundsAreNumbers DEF Types, loopVars, webVars, clientVars
<1>6. Counted'
  <2>1. published \in Int /\ fired' = fired /\ Len(fired) \in Nat
    BY <1>1, BoundsAreNumbers DEF Types, webVars
  <2>2. \A u \in Thing : things[u] \in Int
    BY DEF Types, Never
  <2> QED
    BY <1>1, <1>2, <1>3, <2>1, <2>2, RowsAreNoPosts DEF Counted, Thing
<1> QED
  BY <1>3, <1>5, <1>6

\* The web platform.
LEMMA WebOK ==
    ASSUME RealtimeInv, Web
    PROVE  RealtimeInv'
<1> USE DEF RealtimeInv
<1>1. CASE StartStop
  BY <1>1 DEF StartStop, hubVars, loopVars, clientVars, Types, Counted, Wired, Told, Listens, WillKnow
<1>2. CASE SendMessage
  <2> DEFINE p == outCounter + 1
  <2>1. /\ p \in Post /\ p \in Nat /\ p \in Thing /\ p \notin Row
        /\ Publish(p, 1) /\ things' = [things EXCEPT ![p] = 1] /\ outCounter' = p
        /\ UNCHANGED <<loopVars, clientVars, registered, fired>>
    BY <1>2, RowsAreNoPosts DEF SendMessage, BecomesAt, Types, Thing
  <2> HIDE DEF p
  <2>2. /\ things \in [Thing -> Never .. MaxEvents]
        /\ \A u \in Thing : u # p => things'[u] = things[u]
    BY <2>1 DEF Types
  <2>3. /\ subscribers' \subseteq Client /\ missed' \subseteq Client
        /\ queue' \in [Client -> Seq(Message)]
        /\ published' = published + 1 /\ published' \in 1 .. MaxEvents
        /\ \A c \in Client : Wired(c)' /\ Told(c)'
    BY <2>1, <2>2, PublishOK DEF Thing
  <2>4. 1 \in Never .. MaxEvents
    BY <2>3, BoundsAreNumbers DEF Never
  <2>5. Types'
    BY <2>1, <2>2, <2>3, <2>4, BoundsAreNumbers DEF Types, loopVars, clientVars
  <2>6. Counted'
    <3>1. published \in Nat /\ fired' = fired /\ Len(fired) \in Nat
      BY <2>1, BoundsAreNumbers DEF Types
    <3>2. \A u \in Thing : things[u] \in Int
      BY DEF Types, Never
    <3> QED
      BY <2>1, <2>2, <2>3, <3>1, <3>2 DEF Counted, Thing
  <2> QED
    BY <2>3, <2>5, <2>6
<1>3. CASE RunFired
  <2> DEFINE p == Head(fired).post
             v == Head(fired).version
  <2>1. /\ fired # <<>> /\ fired' = Tail(fired) /\ Publish(p, v)
        /\ UNCHANGED <<loopVars, clientVars, registered, outCounter, things>>
    BY <1>3 DEF RunFired
  <2>2. Head(fired) \in [post : Post, version : Int] /\ Len(fired') = Len(fired) - 1
        /\ fired' \in Seq([post : Post, version : Int]) /\ Len(fired) \in Nat
    <3> DEFINE R == [post : Post, version : Int]
    <3>1. fired \in Seq(R)
      BY DEF Types
    <3> HIDE DEF R
    <3>2. Head(fired) \in R /\ Len(fired') = Len(fired) - 1 /\ fired' \in Seq(R) /\ Len(fired) \in Nat
      BY <2>1, <3>1
    <3> QED
      BY <3>2 DEF R
  <2>3. p \in Post /\ p \in Thing /\ p \notin Row /\ v \in Int
    BY <2>2, RowsAreNoPosts DEF Thing
  <2> HIDE DEF p, v
  <2>4. /\ subscribers' \subseteq Client /\ missed' \subseteq Client
        /\ queue' \in [Client -> Seq(Message)]
        /\ published' = published + 1 /\ published' \in 1 .. MaxEvents
        /\ \A c \in Client : Wired(c)' /\ Told(c)'
    BY <2>1, <2>3, PublishOK
  <2>5. Types'
    BY <2>1, <2>2, <2>4, BoundsAreNumbers DEF Types, loopVars, clientVars
  <2>6. Counted'
    <3>1. published \in Nat /\ things' = things /\ \A u \in Thing : things[u] \in Int
      BY <2>1, BoundsAreNumbers DEF Types, Never
    <3> QED
      BY <2>2, <2>4, <3>1 DEF Counted, Thing
  <2> QED
    BY <2>4, <2>5, <2>6
<1>4. ASSUME NEW p \in Post, EditMessage(p)
      PROVE  RealtimeInv'
  <2>1. /\ things' = [things EXCEPT ![p] = things[p] + 1]
        /\ fired' = Append(fired, [post |-> p, version |-> things[p] + 1])
        /\ published + Len(fired) < MaxEvents /\ things[p] > 0
        /\ UNCHANGED <<hubVars, loopVars, clientVars, registered, outCounter, published>>
    BY <1>4 DEF EditMessage, Exists, BecomesAt, Deleted
  <2>2. p \in Thing /\ p \notin Row /\ things \in [Thing -> Never .. MaxEvents]
        /\ (\A u \in Thing : things[u] \in Int) /\ Row \subseteq Thing /\ Post \subseteq Thing
    BY RowsAreNoPosts DEF Thing, Types, Never
  <2>3. /\ published \in Nat /\ Len(fired) \in Nat /\ things[p] <= published + Len(fired)
        /\ fired' \in Seq([post : Post, version : Int]) /\ Len(fired') = Len(fired) + 1
    BY <2>1, <2>2, BoundsAreNumbers DEF Types, Counted
  <2>4. things[p] + 1 \in Never .. MaxEvents
    BY <2>1, <2>2, <2>3, BoundsAreNumbers DEF Never
  <2>5. Types'
    BY <2>1, <2>2, <2>3, <2>4 DEF Types, hubVars, loopVars, clientVars
  <2>6. Counted'
    BY <2>1, <2>2, <2>3 DEF Counted
  <2>7. ASSUME NEW c \in Client PROVE Wired(c)' /\ Told(c)'
    <3>1. \A t \in Row : things'[t] = things[t]
      BY <2>1, <2>2
    <3>2. Wired(c)'
      BY <2>1 DEF Wired, hubVars, loopVars, clientVars
    <3> QED
      BY <2>1, <3>1, <3>2 DEF Told, Listens, WillKnow, hubVars, loopVars, clientVars
  <2> QED
    BY <2>5, <2>6, <2>7
<1>5. ASSUME NEW p \in Post, DeleteMessage(p)
      PROVE  RealtimeInv'
  <2>1. /\ things' = [things EXCEPT ![p] = 0] /\ Publish(p, 0)
        /\ UNCHANGED <<loopVars, webVars, clientVars>>
    BY <1>5 DEF DeleteMessage, BecomesAt, Deleted
  <2>2. p \in Thing /\ p \notin Row /\ things \in [Thing -> Never .. MaxEvents]
        /\ (\A u \in Thing : things[u] \in Int) /\ Row \subseteq Thing /\ Post \subseteq Thing
    BY RowsAreNoPosts DEF Thing, Types, Never
  <2>3. \A u \in Thing : u # p => things'[u] = things[u]
    BY <2>1, <2>2
  <2>4. /\ subscribers' \subseteq Client /\ missed' \subseteq Client
        /\ queue' \in [Client -> Seq(Message)]
        /\ published' = published + 1 /\ published' \in 1 .. MaxEvents
        /\ \A c \in Client : Wired(c)' /\ Told(c)'
    BY <2>1, <2>2, <2>3, PublishOK
  <2>5. 0 \in Never .. MaxEvents
    BY BoundsAreNumbers DEF Never
  <2>6. Types'
    BY <2>1, <2>2, <2>4, <2>5, BoundsAreNumbers DEF Types, loopVars, webVars, clientVars
  <2>7. Counted'
    <3>1. published \in Nat /\ fired' = fired /\ Len(fired) \in Nat
      BY <2>1, BoundsAreNumbers DEF Types, webVars
    <3> QED
      BY <2>1, <2>2, <2>3, <2>4, <3>1 DEF Counted
  <2> QED
    BY <2>4, <2>6, <2>7
<1> QED
  BY <1>1, <1>2, <1>3, <1>4, <1>5 DEF Web

\* The socket, the endpoint and the loops of a client.
ClientStep(c) ==
    Connect(c) \/ Disconnect(c) \/ Greeting(c) \/ SenderTakes(c) \/ Sends(c) \/ Receives(c) \/ Ends(c)

LEMMA ClientKeepsRest ==
    ASSUME RealtimeInv, NEW c \in Client, ClientStep(c)
    PROVE  /\ UNCHANGED <<webVars, things, published>> /\ Counted'
           /\ \A d \in Client : d # c => Wired(d)' /\ Told(d)'
<1> USE DEF RealtimeInv, ClientStep, Greeting, Sends, Receives, Connect, Disconnect, Greeted, GreetingFails,
            SenderTakes, Heartbeat, Sent, SendFails, Receive, Handled, Echo, ReceiveFails, Ends,
            hubVars, loopVars, webVars, clientVars
<1>1. UNCHANGED <<webVars, things, published>>
  OBVIOUS
<1>2. Counted'
  BY <1>1 DEF Counted
<1>3. ASSUME NEW d \in Client, d # c
      PROVE  Wired(d)' /\ Told(d)'
  <2>1. /\ queue'[d] = queue[d] /\ endpoint'[d] = endpoint[d] /\ sender'[d] = sender[d]
        /\ receiver'[d] = receiver[d] /\ socket'[d] = socket[d] /\ view'[d] = view[d]
        /\ d \in subscribers' <=> d \in subscribers
        /\ missed' = missed
    BY <1>3 DEF Types
  <2> QED
    BY <1>1, <2>1 DEF Wired, Told, Listens, WillKnow
<1> QED
  BY <1>1, <1>2, <1>3

LEMMA ClientOK ==
    ASSUME RealtimeInv, NEW c \in Client, ClientStep(c)
    PROVE  RealtimeInv'
<1> USE DEF RealtimeInv
<1>1. /\ UNCHANGED <<webVars, things, published>> /\ Counted'
      /\ \A d \in Client : d # c => Wired(d)' /\ Told(d)'
  BY ClientKeepsRest
<1>2. SUFFICES Types' /\ Wired(c)' /\ Told(c)'
  BY <1>1
<1>3. /\ queue[c] \in Seq(Message) /\ Len(queue[c]) \in Nat /\ Len(queue[c]) <= QueueMax
      /\ sender[c] \in SenderState /\ endpoint[c] \in {"none", "greeting", "waiting", "ended"}
      /\ socket[c] \in {"none", "open", "gone"}
  BY DEF Types, Wired
<1>4. Idle \in SenderState /\ \A s \in {"get", "heartbeat", "failed"} : Note(s) \in SenderState
  BY DEF SenderState, Idle
<1>5. /\ Note("client_event") \in Message
      /\ \A x : \A s \in {"none", "get", "heartbeat", "failed", "client_event"} : ~Tells(Note(s), x)
  BY DEF Message, Note, Tells
<1>6. CASE Connect(c)
  <2>1. Types'
    BY <1>1, <1>6, BoundsAreNumbers DEF Connect, Types, webVars, Never
  <2>2. Wired(c)'
    BY <1>3, <1>6 DEF Connect, Types, Wired
  <2>3. ASSUME NEW t \in Row PROVE WillKnow(c, t)'
    <3>1. queue'[c] = <<>> /\ sender'[c] = Idle /\ view'[c] = things /\ things' = things
      BY <1>1, <1>6 DEF Connect, Types, Wired
    <3> QED
      BY <1>5, <3>1 DEF WillKnow, Newest, Silent, Idle
  <2> QED
    BY <2>1, <2>2, <2>3 DEF Told
<1>7. CASE Disconnect(c)
  <2>1. Types'
    BY <1>1, <1>7 DEF Disconnect, Types, webVars, hubVars, loopVars
  <2>2. socket'[c] = "gone"
    BY <1>7 DEF Disconnect, Types
  <2> QED
    BY <1>7, <2>1, <2>2 DEF Disconnect, Wired, Told, Listens, hubVars, loopVars
<1>8. CASE Greeting(c)
  <2>1. Types'
    <3>1. UNCHANGED <<hubVars, webVars, clientVars, things, published>>
      BY <1>8 DEF Greeting, Greeted, GreetingFails
    <3>2. /\ \/ endpoint' = [endpoint EXCEPT ![c] = "waiting"]
             \/ endpoint' = [endpoint EXCEPT ![c] = "ended"]
          /\ sender' = [sender EXCEPT ![c] = Note("get")] \/ sender' = sender
          /\ receiver' = [receiver EXCEPT ![c] = "receiving"] \/ receiver' = receiver
      BY <1>8 DEF Greeting, Greeted, GreetingFails
    <3>3. endpoint' \in [Client -> {"none", "greeting", "waiting", "ended"}]
      BY <3>2 DEF Types
    <3>4. sender' \in [Client -> SenderState]
      BY <1>4, <3>2 DEF Types
    <3>5. receiver' \in [Client -> {"none", "receiving", "handling", "putting", "failed"}]
      BY <3>2 DEF Types
    <3> QED
      BY <3>1, <3>3, <3>4, <3>5 DEF Types, hubVars, webVars, clientVars
  <2>2. Wired(c)'
    BY <1>3, <1>8 DEF Greeting, Greeted, GreetingFails, Types, Wired, hubVars, clientVars
  <2>3. CASE Greeted(c)
    <3>1. sender[c] = Idle /\ sender'[c] = Note("get") /\ UNCHANGED <<hubVars, clientVars, things>>
      BY <1>3, <2>3 DEF Greeted, Types, Wired
    <3>2. Listens(c)' => Listens(c)
      BY <2>3, <3>1 DEF Greeted, Listens, hubVars, clientVars
    <3> QED
      BY <1>5, <2>1, <2>2, <3>1, <3>2 DEF Told, WillKnow, Idle, hubVars, clientVars
  <2>4. CASE GreetingFails(c)
    BY <2>1, <2>2, <2>4 DEF GreetingFails, Types, Told, Listens
  <2> QED
    BY <1>8, <2>3, <2>4 DEF Greeting
<1>9. CASE SenderTakes(c)
  <2> DEFINE m == Head(queue[c])
             q == Tail(queue[c])
  <2>1. /\ sender[c].type = "get" /\ queue[c] # <<>>
        /\ sender' = [sender EXCEPT ![c] = m] /\ queue' = [queue EXCEPT ![c] = q]
        /\ UNCHANGED <<subscribers, missed, endpoint, receiver, webVars, clientVars, things, published>>
    BY <1>9 DEF SenderTakes
  <2>2. m \in Message /\ q \in Seq(Message) /\ Len(q) <= QueueMax
    BY <1>3, <2>1, QueueHolds
  <2>3. \A t, v : Newest(queue[c], t, v) =>
            /\ Newest(q, t, v)
            /\ Silent(q, t) /\ Tells(m, t) => m.version = v
            /\ Silent(queue[c], t) <=> Silent(q, t) /\ ~Tells(m, t)
    BY <1>3, <2>1, TailNewest
  <2> HIDE DEF m, q
  <2>4. Types'
    BY <2>1, <2>2 DEF Types, SenderState, webVars, clientVars
  <2>5. queue'[c] = q /\ sender'[c] = m
    BY <2>1 DEF Types
  <2>6. endpoint[c] = "waiting"
    BY <1>3, <2>1 DEF Wired, Idle, Note
  <2>7. Wired(c)'
    BY <2>1, <2>2, <2>5, <2>6 DEF Wired, clientVars
  <2>8. Told(c)'
    BY <2>1, <2>3, <2>5 DEF Told, Listens, WillKnow, Tells, clientVars
  <2> QED
    BY <2>4, <2>7, <2>8
<1>10. CASE Heartbeat(c) \/ SendFails(c)
  <2>1. PICK s \in {"heartbeat", "failed"} :
            /\ sender' = [sender EXCEPT ![c] = Note(s)]
            /\ s = "failed" => socket[c] = "gone"
            /\ s = "heartbeat" => sender[c].type = "get"
    BY <1>10 DEF Heartbeat, SendFails
  <2>2. /\ UNCHANGED <<hubVars, endpoint, receiver, webVars, clientVars, things, published>>
        /\ Sending(c) \/ sender[c].type = "get"
    BY <1>10 DEF Heartbeat, SendFails
  <2>3. Types'
    BY <1>4, <2>1, <2>2 DEF Types, hubVars, webVars, clientVars
  <2>4. sender'[c] = Note(s) /\ endpoint[c] = "waiting"
    BY <1>3, <2>1, <2>2 DEF Types, Wired, Idle, Note, Sending
  <2>5. Wired(c)'
    BY <2>2, <2>4 DEF Wired, hubVars, clientVars
  <2>6. Told(c)'
    BY <1>5, <2>1, <2>2, <2>4 DEF Told, Listens, WillKnow, Tells, hubVars, clientVars
  <2> QED
    BY <2>3, <2>5, <2>6
<1>11. CASE Sent(c)
  <2> DEFINE e == sender[c]
             arrives == socket[c] = "open" /\ e.type = "event"
  <2>1. /\ Sending(c) /\ sender' = [sender EXCEPT ![c] = Note("get")]
        /\ view' = IF arrives THEN [view EXCEPT ![c][e.thing] = e.version] ELSE view
        /\ last' = IF arrives THEN [last EXCEPT ![c] = e.n] ELSE last
        /\ UNCHANGED <<hubVars, endpoint, receiver, webVars, socket, says, things, published>>
    BY <1>11 DEF Sent
  <2>2. arrives => e \in EventMessage
    BY <1>3 DEF SenderState, Message, Note
  <2>3. view' \in [Client -> [Thing -> Int]] /\ last' \in [Client -> 0 .. MaxEvents]
    BY <2>1, <2>2 DEF Types, EventMessage
  <2>4. Types'
    BY <1>4, <2>1, <2>3 DEF Types, hubVars, webVars
  <2>5. sender'[c] = Note("get") /\ endpoint[c] = "waiting"
    BY <1>3, <2>1 DEF Types, Wired, Idle, Note, Sending
  <2>6. Wired(c)'
    BY <2>1, <2>5 DEF Wired, hubVars
  <2>7. ASSUME NEW t \in Row, Listens(c), WillKnow(c, t) PROVE WillKnow(c, t)'
    <3>1. view'[c][t] = IF Tells(e, t) THEN e.version ELSE view[c][t]
      BY <2>1, <2>2, <2>7 DEF Types, EventMessage, Tells, Listens, Thing
    <3> QED
      BY <1>5, <2>1, <2>5, <2>7, <3>1 DEF WillKnow, hubVars
  <2> QED
    BY <2>1, <2>4, <2>6, <2>7 DEF Told, Listens, hubVars
<1>12. CASE Receives(c) /\ ~Echo(c)
  <2>1. UNCHANGED <<hubVars, endpoint, sender, webVars, socket, view, last, things, published>>
    BY <1>12 DEF Receives, Receive, Handled, ReceiveFails, clientVars
  <2>2. Types'
    <3>1. \/ receiver' = [receiver EXCEPT ![c] = "handling"]
          \/ receiver' = [receiver EXCEPT ![c] = "putting"]
          \/ receiver' = [receiver EXCEPT ![c] = "failed"]
      BY <1>12 DEF Receives, Receive, Handled, ReceiveFails
    <3>2. says' \in 0 .. MaxSays
      BY <1>12, BoundsAreNumbers DEF Receives, Receive, Handled, ReceiveFails, clientVars, Types
    <3> QED
      BY <2>1, <3>1, <3>2 DEF Types, hubVars, webVars
  <2>3. endpoint[c] = "waiting"
    BY <1>3, <1>12 DEF Receives, Receive, Handled, ReceiveFails, Wired
  <2> QED
    BY <2>1, <2>2, <2>3 DEF Wired, Told, Listens, WillKnow, hubVars
<1>13. CASE Echo(c)
  <2> DEFINE m == Note("client_event")
             q == Append(queue[c], m)
  <2>1. /\ receiver[c] = "putting" /\ ~Full(c) /\ queue' = [queue EXCEPT ![c] = q]
        /\ receiver' = [receiver EXCEPT ![c] = "receiving"]
        /\ UNCHANGED <<subscribers, missed, endpoint, sender, webVars, clientVars, things, published>>
    BY <1>13 DEF Echo
  <2>2. q \in Seq(Message) /\ Len(q) <= QueueMax
    BY <1>3, <1>5, <2>1, QueueHolds DEF Full
  <2>3. \A t, v : Newest(queue[c], t, v) => Newest(q, t, v) /\ (Silent(q, t) <=> Silent(queue[c], t))
    BY <1>3, <1>5, AppendNewest
  <2> HIDE DEF q
  <2>4. Types'
    BY <2>1, <2>2 DEF Types, webVars, clientVars
  <2>5. queue'[c] = q /\ endpoint[c] = "waiting"
    BY <1>3, <2>1 DEF Types, Wired
  <2>6. Wired(c)'
    BY <2>1, <2>2, <2>5 DEF Wired, clientVars
  <2>7. Told(c)'
    BY <2>1, <2>3, <2>5 DEF Told, Listens, WillKnow, clientVars
  <2> QED
    BY <2>4, <2>6, <2>7
<1>14. CASE Ends(c)
  <2>1. Types'
    BY <1>1, <1>4, <1>14 DEF Ends, Types, webVars, clientVars
  <2> QED
    BY <1>3, <1>14, <2>1, QueueHolds DEF Ends, Types, Wired, Told, Listens, clientVars
<1> QED
  BY <1>6, <1>7, <1>8, <1>9, <1>10, <1>11, <1>12, <1>13, <1>14 DEF ClientStep, Sends

LEMMA RealtimeInductive == RealtimeInv /\ [Next]_vars => RealtimeInv'
<1> SUFFICES ASSUME RealtimeInv, [Next]_vars PROVE RealtimeInv'
  OBVIOUS
<1>1. CASE UNCHANGED vars
  BY <1>1 DEF vars, hubVars, loopVars, webVars, clientVars, RealtimeInv, Types, Counted, Wired, Told,
              Listens, WillKnow
<1>2. CASE Next
  BY <1>2, TasksOK, WebOK, ClientOK DEF Next, Tasks, ClientStep
<1> QED
  BY <1>1, <1>2

-----------------------------------------------------------------------------
(* Theorems. *)

(* The variables keep their types, and no queue grows past QUEUE_MAX_SIZE
   (publish_workspace_event, _receiver_loop).                               *)
THEOREM RealtimeTyping == Spec => []TypeOK
<1>1. RealtimeInv => TypeOK
  <2> SUFFICES ASSUME RealtimeInv PROVE TypeOK
    OBVIOUS
  <2>1. things \in [Thing -> Never .. MaxEvents + 1]
    BY BoundsAreNumbers DEF RealtimeInv, Types, Never
  <2>2. ASSUME NEW c \in Client
        PROVE  /\ Len(queue[c]) <= QueueMax
               /\ \A k \in DOMAIN queue[c] : queue[c][k].type \in {"event", "client_event"}
               /\ sender[c].type \in {"none", "get", "event", "client_event", "heartbeat", "failed"}
    <3>1. queue[c] \in Seq(Message) /\ sender[c] \in SenderState /\ Len(queue[c]) <= QueueMax
      BY DEF RealtimeInv, Types, Wired
    <3>2. \A m \in Message : m.type \in {"event", "client_event"}
      BY DEF Message, EventMessage, Note
    <3>3. \A k \in DOMAIN queue[c] : queue[c][k] \in Message
      BY <3>1
    <3> QED
      BY <3>1, <3>2, <3>3 DEF SenderState, Note
  <2> QED
    BY <2>1, <2>2 DEF RealtimeInv, Types, TypeOK
<1> QED
  BY <1>1, RealtimeInitOK, RealtimeInductive, PTL DEF Spec

(* A client that listens, missed nothing and has nothing on its way knows the
   tasks as they are in the database (publish_workspace_event, _sender_loop). *)
THEOREM ClientsStayInStep == Spec => []InStep
<1>1. RealtimeInv => InStep
  <2> SUFFICES ASSUME RealtimeInv, NEW c \in Client, UpToDate(c), NEW t \in Row
               PROVE  view[c][t] = things[t]
    BY DEF InStep
  <2>1. WillKnow(c, t)
    BY DEF RealtimeInv, Told, Listens, UpToDate
  <2> QED
    BY <2>1 DEF WillKnow, Silent, Tells, UpToDate
<1> QED
  BY <1>1, RealtimeInitOK, RealtimeInductive, PTL DEF Spec

=============================================================================
