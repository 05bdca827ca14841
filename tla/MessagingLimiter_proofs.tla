----------------------- MODULE MessagingLimiter_proofs -----------------------
(* Proofs about MessagingLimiter, for any calls, keys and number of retries. *)
EXTENDS MessagingLimiter, TLAPS

-----------------------------------------------------------------------------
(* The inductive invariant. *)

\* Older, in any history.
Before(o, a, b) == \E i, j \in DOMAIN o : i < j /\ o[i] = a /\ o[j] = b

\* The history of calls, and the tasks that did not step, in the order of their creation.
Ordered ==
    /\ \A i, j \in DOMAIN order : order[i] = order[j] => i = j
    /\ \A c \in Call : status[c] = "new" <=> c \notin Range(order)
    /\ \A i \in DOMAIN spawned : status[spawned[i]] = "spawned"
    /\ \A i, j \in DOMAIN spawned : i < j => Before(order, spawned[i], spawned[j])

\* The worker.
Holds ==
    /\ worker = "idle" => running = NoCall /\ answering = {}
    /\ worker \in {"held", "window", "sending"} => running # NoCall
    /\ worker \in {"window", "sending"} => ~paused

\* Where a call may be.
Placed(c) ==
    /\ status[c] \in {"new", "spawned", "backoff"} =>
         c \notin answering /\ \A k \in Key : c \notin futures[k]
    /\ status[c] = "new" => c # running /\ \A k \in Key : c # func[k] /\ c # shown[k]
    /\ status[c] = "backoff" => attempt[c] > 0
    /\ status[c] = "waiting" => (c \in answering <=> c \notin futures[KeyOf[c]])
    /\ \A k \in Key : c \in futures[k] \/ c = func[k] \/ c = shown[k] => KeyOf[c] = k
    /\ c \in answering => running \in Call /\ KeyOf[c] = KeyOf[running]

\* Callers wait for a queued key only.
NoStrayFuture == \A k \in Key : futures[k] # {} => func[k] # NoCall

UpTo(o, a, b) == a = b \/ Before(o, a, b)

\* The calls about k whose functions took effect last, or are the worker's.
Started(k) == {c \in Call : c = shown[k] \/ (c = running /\ KeyOf[c] = k)}

(* Unless a call about k is retried, the functions run in the order of the calls:
   what was shown is older than what the worker holds, that than what is queued,
   and that than the tasks that did not step; and each function is the newest of
   those whose callers get its answer.                                      *)
InOrder(k) ==
    ~Retried(k) =>
        /\ \A c \in Call : status[c] = "done" /\ KeyOf[c] = k =>
             shown[k] \in Call /\ UpTo(order, c, shown[k])
        /\ running \in Call /\ KeyOf[running] = k =>
             \A c \in answering \union Started(k) : UpTo(order, c, running)
        /\ func[k] # NoCall => \A c \in futures[k] \union Started(k) : UpTo(order, c, func[k])
        /\ \A i \in DOMAIN spawned : KeyOf[spawned[i]] = k =>
             \A c \in Started(k) \union ({func[k]} \ {NoCall}) : Before(order, c, spawned[i])

LimiterInv ==
    /\ TypeOK /\ QueueIsMap /\ Ordered /\ Holds /\ NoStrayFuture
    /\ \A c \in Call : Placed(c)
    /\ \A k \in Key : InOrder(k)

-----------------------------------------------------------------------------
(* Lemmas about the order of the calls, and about the queue. *)

LEMMA OrderLaws ==
    ASSUME TypeOK, Ordered
    PROVE  /\ \A a, b : Before(order, a, b) => a \in Call /\ b \in Call /\ a # b
           /\ \A a, b, c : Before(order, a, b) /\ Before(order, b, c) => Before(order, a, c)
           /\ \A a, b : Before(order, a, b) => ~Before(order, b, a)
<1>1. order \in Seq(Call) /\ \A i, j \in DOMAIN order : order[i] = order[j] => i = j
  BY DEF TypeOK, Ordered
<1>2. DOMAIN order \subseteq Int
  BY <1>1
<1> QED
  BY <1>1, <1>2 DEF Before

\* The call that is made is the newest.
LEMMA OrderAppend ==
    ASSUME TypeOK, Ordered, NEW c \in Call, status[c] = "new", order' = Append(order, c)
    PROVE  /\ order' \in Seq(Call)
           /\ Range(order)' = Range(order) \union {c}
           /\ \A i, j \in DOMAIN order' : order'[i] = order'[j] => i = j
           /\ \A a, b : Before(order, a, b) => Before(order', a, b)
           /\ \A a \in Range(order) : Before(order', a, c)
<1>1. order \in Seq(Call) /\ Len(order) \in Nat /\ c \notin Range(order)
  BY DEF TypeOK, Ordered
<1>2. /\ order' \in Seq(Call) /\ Len(order') = Len(order) + 1 /\ order'[Len(order) + 1] = c
      /\ \A i \in 1 .. Len(order) : order'[i] = order[i]
      /\ DOMAIN order = 1 .. Len(order) /\ DOMAIN order' = 1 .. Len(order) + 1
  BY <1>1
<1>3. \A i \in DOMAIN order' : i \in DOMAIN order \/ i = Len(order) + 1
  BY <1>1, <1>2
<1>4. DOMAIN order \subseteq DOMAIN order' /\ Len(order) + 1 \in DOMAIN order'
      /\ Len(order) + 1 \notin DOMAIN order /\ \A i \in DOMAIN order : i \in Int /\ i < Len(order) + 1
  BY <1>1, <1>2
<1>5. Range(order)' = Range(order) \union {c}
  BY <1>2, <1>3, <1>4 DEF Range
<1>6. \A i, j \in DOMAIN order' : order'[i] = order'[j] => i = j
  BY <1>1, <1>2, <1>3, <1>4 DEF Range, Ordered
<1>7. \A a, b : Before(order, a, b) => Before(order', a, b)
  BY <1>2, <1>4 DEF Before
<1>8. ASSUME NEW a \in Range(order) PROVE Before(order', a, c)
  BY <1>2, <1>4 DEF Before, Range
<1> QED
  BY <1>2, <1>5, <1>6, <1>7, <1>8

\* _enqueue_internal_multi: the key is queued once, with the function of the new call.
LEMMA EnqueueOK ==
    ASSUME TypeOK, QueueIsMap, NoStrayFuture, NEW c \in Call, Enqueue(c)
    PROVE  /\ func' = [func EXCEPT ![KeyOf[c]] = c]
           /\ futures' = [futures EXCEPT ![KeyOf[c]] = @ \union {c}]
           /\ queueList' \in Seq(Key)
           /\ QueueIsMap' /\ NoStrayFuture'
<1> DEFINE k == KeyOf[c]
<1>1. k \in Key /\ c # NoCall
  BY KeyOfAssumption, NoCallAssumption
<1>2. func \in [Key -> Call \union {NoCall}] /\ futures \in [Key -> SUBSET Call] /\ queueList \in Seq(Key)
  BY DEF TypeOK
<1>3. CASE func[k] # NoCall
  <2>1. /\ func' = [func EXCEPT ![k] = c] /\ futures' = [futures EXCEPT ![k] = @ \union {c}]
        /\ UNCHANGED queueList
    BY <1>3 DEF Enqueue, Compact
  <2>2. QueueIsMap'
    BY <1>1, <1>2, <1>3, <2>1 DEF QueueIsMap
  <2> QED
    BY <1>1, <1>2, <2>1, <2>2 DEF NoStrayFuture
<1>4. CASE func[k] = NoCall
  <2>1. /\ func' = [func EXCEPT ![k] = c] /\ futures' = [futures EXCEPT ![k] = {c}]
        /\ queueList' = Append(queueList, k)
    BY <1>4 DEF Enqueue, Enter
  <2>2. futures[k] = {} /\ k \notin Range(queueList)
    BY <1>1, <1>4 DEF NoStrayFuture, QueueIsMap
  <2>3. /\ Len(queueList) \in Nat /\ DOMAIN queueList = 1 .. Len(queueList)
        /\ queueList' \in Seq(Key) /\ DOMAIN queueList' = 1 .. Len(queueList) + 1
        /\ queueList'[Len(queueList) + 1] = k
        /\ \A i \in 1 .. Len(queueList) : queueList'[i] = queueList[i]
    BY <1>1, <1>2, <2>1
  <2>4. /\ \A i \in DOMAIN queueList' : i \in DOMAIN queueList \/ i = Len(queueList) + 1
        /\ DOMAIN queueList \subseteq DOMAIN queueList' /\ Len(queueList) + 1 \in DOMAIN queueList'
    BY <2>3
  <2>5. Range(queueList)' = Range(queueList) \union {k}
    BY <2>3, <2>4 DEF Range
  <2>6. \A i, j \in DOMAIN queueList' : queueList'[i] = queueList'[j] => i = j
    BY <2>2, <2>3, <2>4 DEF QueueIsMap, Range
  <2>7. QueueIsMap'
    BY <1>1, <1>2, <2>1, <2>5, <2>6 DEF QueueIsMap
  <2> QED
    BY <1>1, <1>2, <2>1, <2>2, <2>3, <2>7 DEF NoStrayFuture
<1> QED
  BY <1>3, <1>4

\* The worker's popleft and pop.
LEMMA TakeKeeps ==
    ASSUME TypeOK, QueueIsMap, NoStrayFuture, queueList # <<>>, NEW k, k = Head(queueList),
           queueList' = Tail(queueList), func' = [func EXCEPT ![k] = NoCall],
           futures' = [futures EXCEPT ![k] = {}]
    PROVE  /\ k \in Key /\ func[k] \in Call
           /\ queueList' \in Seq(Key)
           /\ QueueIsMap' /\ NoStrayFuture'
<1>1. func \in [Key -> Call \union {NoCall}] /\ futures \in [Key -> SUBSET Call] /\ queueList \in Seq(Key)
  BY DEF TypeOK
<1>2. /\ Len(queueList) \in Nat /\ DOMAIN queueList = 1 .. Len(queueList) /\ k = queueList[1]
      /\ queueList' \in Seq(Key) /\ DOMAIN queueList' = 1 .. Len(queueList) - 1
      /\ 1 \in DOMAIN queueList /\ k \in Key
      /\ \A i \in DOMAIN queueList' : queueList'[i] = queueList[i + 1] /\ i + 1 \in DOMAIN queueList
  BY <1>1
<1>3. func[k] \in Call
  BY <1>1, <1>2 DEF QueueIsMap, Range
<1>4. \A i \in DOMAIN queueList : i = 1 \/ (i - 1 \in DOMAIN queueList' /\ (i - 1) + 1 = i)
  BY <1>2
<1>5. \A i \in DOMAIN queueList' : i + 1 # 1 /\ i \in Int
  BY <1>2
<1>6. Range(queueList)' = Range(queueList) \ {k}
  <2>1. \A i \in DOMAIN queueList' : queueList'[i] # k
    BY <1>2, <1>5 DEF QueueIsMap
  <2>2. \A i \in DOMAIN queueList : i = 1 \/ queueList'[i - 1] = queueList[i]
    BY <1>2, <1>4
  <2> QED
    BY <1>2, <1>4, <2>1, <2>2 DEF Range
<1>7. \A i, j \in DOMAIN queueList' : queueList'[i] = queueList'[j] => i = j
  BY <1>2, <1>5 DEF QueueIsMap
<1>8. QueueIsMap'
  BY <1>1, <1>6, <1>7 DEF QueueIsMap
<1> QED
  BY <1>1, <1>2, <1>3, <1>8 DEF NoStrayFuture

-----------------------------------------------------------------------------
(* Steps of the callers. *)

LEMMA LimiterInitOK == Init => LimiterInv
<1> SUFFICES ASSUME Init PROVE LimiterInv
  OBVIOUS
<1>1. DOMAIN order = {} /\ DOMAIN spawned = {} /\ DOMAIN queueList = {} /\ Range(order) = {}
      /\ Range(queueList) = {}
  BY DEF Init, Range
<1>2. TypeOK
  <2>1. order \in Seq(Call) /\ spawned \in Seq(Call) /\ queueList \in Seq(Key)
    BY DEF Init
  <2> QED
    <3>1. 0 \in 0 .. MaxRetries /\ attempt \in [Call -> 0 .. MaxRetries]
      BY RetriesAssumption DEF Init
    <3>2. status \in [Call -> Statuses] /\ worker \in WorkerStates
      BY DEF Init, Statuses, WorkerStates
    <3>3. /\ func \in [Key -> Call \union {NoCall}] /\ shown \in [Key -> Call \union {NoCall}]
          /\ futures \in [Key -> SUBSET Call]
      BY DEF Init
    <3> QED
      BY <2>1, <3>1, <3>2, <3>3 DEF Init, TypeOK
<1>3. QueueIsMap /\ Ordered /\ Holds /\ NoStrayFuture
  BY <1>1 DEF Init, QueueIsMap, Ordered, Holds, NoStrayFuture
<1>4. ASSUME NEW c \in Call PROVE Placed(c)
  BY NoCallAssumption, KeyOfAssumption DEF Init, Placed
<1>5. ASSUME NEW k \in Key PROVE InOrder(k)
  BY <1>1, NoCallAssumption DEF Init, InOrder
<1> QED
  BY <1>2, <1>3, <1>4, <1>5 DEF LimiterInv

(* A call is enqueued: at once, by its task, or again.  Unless it is a retry, it is
   newer than all that the queue and the worker hold of its key, and older than
   the tasks for its key that did not step.                                 *)
LEMMA WaitOK ==
    ASSUME LimiterInv, NEW c \in Call, Wait(c), status[c] \in {"new", "spawned", "backoff"},
           UNCHANGED <<forget, attempt, workerVars, stopping, shown>>,
           order' \in Seq(Call), Range(order)' = Range(order) \union {c},
           \A i, j \in DOMAIN order' : order'[i] = order'[j] => i = j,
           \A a, b : Before(order, a, b) => Before(order', a, b),
           spawned' \in Seq(Call),
           \A i \in DOMAIN spawned' : spawned'[i] # c /\ \E j \in DOMAIN spawned : spawned'[i] = spawned[j],
           \A i, j \in DOMAIN spawned' : i < j => Before(order', spawned'[i], spawned'[j]),
           Retried(KeyOf[c]) \/ \A d \in Started(KeyOf[c]) \union futures[KeyOf[c]] : Before(order', d, c),
           Retried(KeyOf[c]) \/ \A i \in DOMAIN spawned' : KeyOf[spawned'[i]] = KeyOf[c] => Before(order', c, spawned'[i])
    PROVE  LimiterInv'
<1> USE DEF LimiterInv, workerVars
<1> DEFINE k == KeyOf[c]
<1>1. k \in Key /\ c # NoCall
  BY KeyOfAssumption, NoCallAssumption
<1>2. /\ func' = [func EXCEPT ![k] = c] /\ futures' = [futures EXCEPT ![k] = @ \union {c}]
      /\ queueList' \in Seq(Key) /\ QueueIsMap' /\ NoStrayFuture'
  BY EnqueueOK DEF Wait
<1>3. status' = [status EXCEPT ![c] = "waiting"]
  BY DEF Wait
<1>4. /\ \A d \in Call : status'[d] = IF d = c THEN "waiting" ELSE status[d]
      /\ \A l \in Key : func'[l] = IF l = k THEN c ELSE func[l]
      /\ \A l \in Key : futures'[l] = IF l = k THEN futures[l] \union {c} ELSE futures[l]
  BY <1>1, <1>2, <1>3 DEF TypeOK
<1>5. TypeOK'
  BY <1>1, <1>2, <1>3 DEF TypeOK, Statuses
<1>10. \A l \in Key, d \in Call : d \in futures'[l] <=> d \in futures[l] \/ (l = k /\ d = c)
  <2> TAKE l \in Key, d \in Call
  <2>1. CASE l = k
    <3>1. futures'[l] = futures[l] \union {c}
      BY <1>4, <2>1
    <3> QED
      BY <2>1, <3>1
  <2>2. CASE l # k
    <3>1. futures'[l] = futures[l]
      BY <1>4, <2>2
    <3> QED
      BY <2>2, <3>1
  <2> QED
    BY <2>1, <2>2
<1>6. Ordered'
  <2>1. ASSUME NEW i \in DOMAIN spawned' PROVE status'[spawned'[i]] = "spawned"
    <3>1. PICK j \in DOMAIN spawned : spawned'[i] = spawned[j]
      OBVIOUS
    <3>2. spawned[j] # c /\ spawned[j] \in Call
      BY <3>1 DEF TypeOK
    <3> QED
      BY <1>4, <3>1, <3>2 DEF Ordered
  <2>2. \A d \in Call : status'[d] = "new" <=> d \notin Range(order)'
    BY <1>4 DEF Ordered
  <2> QED
    BY <2>1, <2>2 DEF Ordered
<1>7. Holds'
  BY DEF Holds
<1>8. ASSUME NEW d \in Call PROVE Placed(d)'
  <2>1. Placed(d) /\ Placed(c) /\ KeyOf[d] \in Key
    BY KeyOfAssumption
  <2>2. attempt' = attempt /\ answering' = answering /\ running' = running /\ shown' = shown
    OBVIOUS
  <2>3. CASE d = c
    <3>1. /\ status'[d] = "waiting" /\ c \notin answering /\ c \in futures'[k]
          /\ \A l \in Key : c \in futures'[l] \/ c = func'[l] => l = k
      BY <1>1, <1>4, <1>10, <2>1, <2>3 DEF Placed
    <3> QED
      BY <1>1, <2>2, <2>3, <3>1 DEF Placed
  <2>4. CASE d # c
    <3>1. /\ status'[d] = status[d]
          /\ \A l \in Key : d \in futures'[l] <=> d \in futures[l]
          /\ \A l \in Key : d = func'[l] => d = func[l]
      BY <1>4, <1>10, <2>4
    <3> QED
      BY <2>1, <2>2, <3>1 DEF Placed
  <2> QED
    BY <2>3, <2>4
<1>9. ASSUME NEW l \in Key, ~Retried(l)' PROVE InOrder(l)'
  <2>1. InOrder(l) /\ ~Retried(l)
    BY <1>9 DEF Retried
  <2>2. Started(l)' = Started(l)
    BY DEF Started
  <2>4. /\ running' = running /\ shown' = shown /\ answering' = answering
    OBVIOUS
  <2>5. \A a, b : UpTo(order, a, b) => UpTo(order', a, b)
    BY DEF UpTo
  <2>6. \A d \in Call : status'[d] = "done" /\ KeyOf[d] = l => shown'[l] \in Call /\ UpTo(order', d, shown[l])
    BY <1>4, <2>1, <2>4, <2>5 DEF InOrder
  <2>7. running \in Call /\ KeyOf[running] = l =>
          \A d \in answering \union Started(l) : UpTo(order', d, running)
    BY <2>1, <2>5 DEF InOrder
  <2>8. func'[l] # NoCall => \A d \in futures'[l] \union Started(l) : UpTo(order', d, func'[l])
    <3>1. CASE l = k
      <4>1. ~Retried(k)
        BY <2>1, <3>1 DEF Retried
      <4>2. \A d \in Started(k) \union futures[k] : Before(order', d, c)
        BY <4>1
      <4> QED
        <5>1. func'[l] = c /\ futures'[l] = futures[k] \union {c}
          BY <1>4, <3>1
        <5> QED
          BY <3>1, <4>2, <5>1 DEF UpTo
    <3>2. CASE l # k
      BY <1>4, <2>1, <2>5, <3>2 DEF InOrder
    <3> QED
      BY <3>1, <3>2
  <2>9. ASSUME NEW i \in DOMAIN spawned', KeyOf[spawned'[i]] = l,
               NEW d \in Started(l) \union ({func'[l]} \ {NoCall})
        PROVE  Before(order', d, spawned'[i])
    <3>1. PICK j \in DOMAIN spawned : spawned'[i] = spawned[j]
      OBVIOUS
    <3>2. CASE d \in Started(l) \union ({func[l]} \ {NoCall})
      BY <2>1, <2>9, <3>1, <3>2 DEF InOrder
    <3>3. CASE l = k /\ d = c
      <4>1. ~Retried(k)
        BY <2>1, <3>3 DEF Retried
      <4> QED
        BY <2>9, <3>3, <4>1
    <3> QED
      BY <1>4, <2>9, <3>2, <3>3
  <2> QED
    BY <2>2, <2>4, <2>6, <2>7, <2>8, <2>9 DEF InOrder
<1> QED
  BY <1>2, <1>5, <1>6, <1>7, <1>8, <1>9 DEF InOrder

LEMMA CallsOK ==
    ASSUME LimiterInv, NEW c \in Call,
           FireAndForget(c) \/ AwaitedCall(c) \/ Abandon(c) \/ CallStep(c)
    PROVE  LimiterInv'
<1> USE DEF LimiterInv
<1>1. /\ spawned \in Seq(Call) /\ DOMAIN spawned = 1 .. Len(spawned) /\ Len(spawned) \in Nat
      /\ KeyOf[c] \in Key
  BY KeyOfAssumption DEF TypeOK
<1>2. \A l \in Key : \A d \in futures[l] \union Started(l) \union ({func[l]} \ {NoCall}) :
          d \in Call /\ d \in Range(order)
  <2> SUFFICES ASSUME NEW l \in Key, NEW d \in futures[l] \union Started(l) \union ({func[l]} \ {NoCall})
               PROVE  d \in Call /\ status[d] # "new"
    BY DEF Ordered
  <2>1. d \in Call
    BY DEF TypeOK, Started
  <2> QED
    BY <2>1 DEF Placed, Started
<1>3. CASE FireAndForget(c)
  <2>1. /\ status[c] = "new" /\ order' = Append(order, c)
        /\ status' = [status EXCEPT ![c] = "spawned"]
        /\ spawned' = Append(spawned, c)
        /\ UNCHANGED <<attempt, queueVars, workerVars, stopping, shown>>
        /\ forget' = forget \union {c}
    BY <1>3 DEF FireAndForget
  <2>2. /\ order' \in Seq(Call)
        /\ Range(order)' = Range(order) \union {c}
        /\ \A i, j \in DOMAIN order' : order'[i] = order'[j] => i = j
        /\ \A a, b : Before(order, a, b) => Before(order', a, b)
        /\ \A a \in Range(order) : Before(order', a, c)
    BY <2>1, OrderAppend
  <2>3. /\ spawned' \in Seq(Call) /\ DOMAIN spawned' = 1 .. Len(spawned) + 1
        /\ spawned'[Len(spawned) + 1] = c
        /\ \A i \in DOMAIN spawned : spawned'[i] = spawned[i] /\ spawned[i] \in Call
        /\ \A i \in DOMAIN spawned' : i \in DOMAIN spawned \/ i = Len(spawned) + 1
    BY <1>1, <2>1
  <2>4. TypeOK'
    BY <2>1, <2>2, <2>3 DEF TypeOK, Statuses, queueVars, workerVars
  <2>5. \A d \in Call : status'[d] = IF d = c THEN "spawned" ELSE status[d]
    BY <2>1 DEF TypeOK
  <2>6. Ordered'
    <3>1. \A d \in Call : status'[d] = "new" <=> d \notin Range(order)'
      BY <2>1, <2>2, <2>5 DEF Ordered
    <3>2. \A i \in DOMAIN spawned' : status'[spawned'[i]] = "spawned"
      BY <2>3, <2>5 DEF Ordered
    <3>3. ASSUME NEW i \in DOMAIN spawned', NEW j \in DOMAIN spawned', i < j
          PROVE  Before(order', spawned'[i], spawned'[j])
      <4>1. i \in DOMAIN spawned /\ spawned[i] \in Range(order)
        <5>1. i \in DOMAIN spawned
          BY <1>1, <2>3, <3>3
        <5> QED
          BY <2>3, <5>1 DEF Ordered
      <4> QED
        BY <2>2, <2>3, <4>1, <3>3 DEF Ordered
    <3> QED
      BY <2>2, <3>1, <3>2, <3>3 DEF Ordered
  <2>7. QueueIsMap' /\ Holds' /\ NoStrayFuture'
    BY <2>1 DEF QueueIsMap, Holds, NoStrayFuture, queueVars, workerVars
  <2>8. ASSUME NEW d \in Call PROVE Placed(d)'
    BY <2>1, <2>5 DEF Placed, queueVars, workerVars
  <2>9. ASSUME NEW l \in Key, ~Retried(l)' PROVE InOrder(l)'
    <3>1. /\ InOrder(l) /\ ~Retried(l) /\ Started(l)' = Started(l)
          /\ \A a, b : UpTo(order, a, b) => UpTo(order', a, b)
      BY <2>1, <2>2, <2>9 DEF Retried, Started, UpTo, workerVars
    <3>2. /\ running' = running /\ shown' = shown /\ answering' = answering
          /\ func' = func /\ futures' = futures
      BY <2>1 DEF workerVars, queueVars
    <3>3. \A i \in DOMAIN spawned' : KeyOf[spawned'[i]] = l =>
             \A d \in Started(l) \union ({func[l]} \ {NoCall}) : Before(order', d, spawned'[i])
      BY <1>2, <2>2, <2>3, <3>1 DEF InOrder
    <3> QED
      BY <2>5, <3>1, <3>2, <3>3 DEF InOrder
  <2> QED
    BY <2>4, <2>6, <2>7, <2>8, <2>9 DEF InOrder
<1>4. CASE AwaitedCall(c)
  <2>1. /\ status[c] = "new" /\ \A d \in Range(spawned) : KeyOf[d] # KeyOf[c]
        /\ order' = Append(order, c) /\ Wait(c)
        /\ UNCHANGED <<forget, attempt, spawned, workerVars, stopping, shown>>
    BY <1>4 DEF AwaitedCall
  <2>2. /\ order' \in Seq(Call)
        /\ Range(order)' = Range(order) \union {c}
        /\ \A i, j \in DOMAIN order' : order'[i] = order'[j] => i = j
        /\ \A a, b : Before(order, a, b) => Before(order', a, b)
        /\ \A a \in Range(order) : Before(order', a, c)
    BY <2>1, OrderAppend
  <2>3. \A i \in DOMAIN spawned : spawned[i] # c /\ KeyOf[spawned[i]] # KeyOf[c]
    BY <2>1 DEF Ordered, Range
  <2>4. \A i, j \in DOMAIN spawned : i < j => Before(order', spawned[i], spawned[j])
    BY <2>2 DEF Ordered
  <2>5. \A d \in Started(KeyOf[c]) \union futures[KeyOf[c]] : Before(order', d, c)
    BY <1>1, <1>2, <2>2
  <2> QED
    BY <1>1, <2>1, <2>2, <2>3, <2>4, <2>5, WaitOK
<1>5. CASE Abandon(c)
  <2>1. /\ status[c] = "waiting" /\ status' = [status EXCEPT ![c] = "abandoned"]
        /\ UNCHANGED <<order, forget, attempt, spawned, queueVars, workerVars, stopping, shown>>
    BY <1>5 DEF Abandon
  <2>2. \A d \in Call : status'[d] = IF d = c THEN "abandoned" ELSE status[d]
    BY <2>1 DEF TypeOK
  <2>3. order' = order
    BY <2>1
  <2>4. TypeOK'
    BY <2>1 DEF TypeOK, Statuses, queueVars, workerVars
  <2>5. QueueIsMap' /\ Holds' /\ NoStrayFuture'
    BY <2>1 DEF QueueIsMap, Holds, NoStrayFuture, queueVars, workerVars
  <2>6. Ordered'
    BY <1>1, <2>1, <2>2, <2>3 DEF Ordered
  <2>7. ASSUME NEW d \in Call PROVE Placed(d)'
    BY <2>1, <2>2 DEF Placed, queueVars, workerVars
  <2>8. ASSUME NEW l \in Key PROVE InOrder(l)'
    BY <2>1, <2>2, <2>3 DEF InOrder, Retried, Started, UpTo, queueVars, workerVars
  <2> QED
    BY <2>4, <2>5, <2>6, <2>7, <2>8
<1>6. CASE FirstStep(c)
  <2>1. /\ spawned # <<>> /\ c = Head(spawned) /\ spawned' = Tail(spawned) /\ Wait(c)
        /\ UNCHANGED <<order, forget, attempt, workerVars, stopping, shown>>
    BY <1>6 DEF FirstStep
  <2>2. order' = order
    BY <2>1
  <2>3. /\ spawned' \in Seq(Call) /\ DOMAIN spawned' = 1 .. Len(spawned) - 1
        /\ 1 \in DOMAIN spawned /\ c = spawned[1]
        /\ \A i \in DOMAIN spawned' : i \in Int /\ i + 1 \in DOMAIN spawned /\ 1 < i + 1
                                      /\ spawned'[i] = spawned[i + 1]
    BY <1>1, <2>1
  <2>4. status[c] = "spawned" /\ c \in Range(order)
    BY <2>3 DEF Ordered
  <2>5. \A i \in DOMAIN spawned' : Before(order, c, spawned'[i])
    BY <2>3 DEF Ordered
  <2>6. \A i \in DOMAIN spawned' : spawned'[i] # c /\ \E j \in DOMAIN spawned : spawned'[i] = spawned[j]
    BY <2>3, <2>5, OrderLaws
  <2>7. \A i, j \in DOMAIN spawned' : i < j => Before(order, spawned'[i], spawned'[j])
    BY <2>3 DEF Ordered
  <2>8. ASSUME ~Retried(KeyOf[c]), NEW d \in Started(KeyOf[c]) \union futures[KeyOf[c]]
        PROVE  Before(order, d, c)
    <3>1. \A f \in Started(KeyOf[c]) \union ({func[KeyOf[c]]} \ {NoCall}) : Before(order, f, c)
      BY <1>1, <2>3, <2>8 DEF InOrder
    <3>2. CASE d \in futures[KeyOf[c]]
      <4>1. func[KeyOf[c]] # NoCall /\ UpTo(order, d, func[KeyOf[c]])
        BY <1>1, <2>8, <3>2 DEF InOrder, NoStrayFuture
      <4> QED
        BY <3>1, <4>1, OrderLaws DEF UpTo
    <3> QED
      BY <3>1, <3>2
  <2>9. order' \in Seq(Call) /\ \A i, j \in DOMAIN order' : order'[i] = order'[j] => i = j
    BY <2>2 DEF TypeOK, Ordered
  <2> QED
    BY <1>1, <2>1, <2>2, <2>3, <2>4, <2>5, <2>6, <2>7, <2>8, <2>9, WaitOK
<1>7. CASE Retry(c)
  <2>1. /\ status[c] = "backoff" /\ Wait(c)
        /\ UNCHANGED <<order, forget, attempt, spawned, workerVars, stopping, shown>>
    BY <1>7 DEF Retry
  <2>2. order' = order
    BY <2>1
  <2>3. attempt[c] > 0 /\ c \in Range(order)
    BY <2>1 DEF Placed, Ordered
  <2>4. order' \in Seq(Call) /\ \A i, j \in DOMAIN order' : order'[i] = order'[j] => i = j
    BY <2>1 DEF TypeOK, Ordered
  <2>5. \A i \in DOMAIN spawned : spawned[i] # c
    BY <2>1 DEF Ordered
  <2>6. \A i, j \in DOMAIN spawned : i < j => Before(order', spawned[i], spawned[j])
    BY <2>2 DEF Ordered
  <2>7. Retried(KeyOf[c])
    BY <2>3 DEF Retried
  <2>8. \A i \in DOMAIN spawned' : spawned'[i] # c /\ \E j \in DOMAIN spawned : spawned'[i] = spawned[j]
    BY <2>1, <2>5
  <2> QED
    BY <1>1, <2>1, <2>2, <2>3, <2>4, <2>6, <2>7, <2>8, WaitOK
<1> QED
  BY <1>3, <1>4, <1>5, <1>6, <1>7 DEF CallStep

-----------------------------------------------------------------------------
(* Steps of the worker. *)

(* What the worker holds may take effect, and it may let go of it; a call is done
   only if it was the worker's, and its function took effect.               *)
LEMMA EffectKeepsOrder ==
    ASSUME LimiterInv, UNCHANGED <<order, spawned, queueVars>>,
           (running \in Call /\ Show) \/ UNCHANGED shown,
           UNCHANGED <<running, answering>> \/ (running' = NoCall /\ answering' = {}),
           \A c \in Call : status'[c] = "done" => status[c] = "done" \/ (c \in answering /\ Show),
           \A l \in Key : Retried(l) => Retried(l)',
           NEW k \in Key
    PROVE  InOrder(k)'
<1> USE DEF LimiterInv, queueVars
<1>1. SUFFICES ASSUME ~Retried(k), InOrder(k) PROVE InOrder(k)'
  BY DEF InOrder
<1> DEFINE r == running \in Call /\ KeyOf[running] = k
<1>2. (r /\ shown'[k] = running) \/ shown'[k] = shown[k]
  <2>1. shown \in [Key -> Call \union {NoCall}]
    BY DEF TypeOK
  <2> QED
    BY <2>1 DEF Show
<1>3. Started(k)' \subseteq Started(k)
  BY <1>2, NoCallAssumption DEF Started
<1>4. \A a, b, c : UpTo(order, a, b) /\ UpTo(order, b, c) => UpTo(order, a, c)
  BY OrderLaws DEF UpTo
<1>5. ASSUME NEW c \in Call, status'[c] = "done", KeyOf[c] = k
      PROVE  shown'[k] \in Call /\ UpTo(order, c, shown'[k])
  <2>1. CASE status[c] = "done"
    <3>1. shown[k] \in Call /\ UpTo(order, c, shown[k])
      BY <1>1, <1>5, <2>1 DEF InOrder
    <3>2. CASE r /\ shown'[k] = running
      <4>1. UpTo(order, shown[k], running)
        BY <1>1, <3>1, <3>2 DEF InOrder, Started
      <4> QED
        BY <1>4, <3>1, <3>2, <4>1
    <3> QED
      BY <1>2, <3>1, <3>2
  <2>2. CASE c \in answering /\ Show
    <3>1. r
      BY <1>5, <2>2 DEF Placed
    <3>2. shown'[k] = running
      BY <2>2, <3>1 DEF Show, TypeOK
    <3> QED
      BY <1>1, <2>2, <3>1, <3>2 DEF InOrder
  <2> QED
    BY <1>5, <2>1, <2>2
<1>6. running' \in Call /\ KeyOf[running'] = k =>
        \A c \in answering' \union Started(k)' : UpTo(order, c, running')
  BY <1>1, <1>3, NoCallAssumption DEF InOrder
<1> QED
  BY <1>1, <1>3, <1>5, <1>6 DEF InOrder

\* What becomes of a call when the worker's function has returned or raised.
Outcome(c) ==
    \/ status'[c] = status[c] /\ (status[c] = "waiting" => c \notin answering)
    \/ /\ status[c] = "waiting" /\ c \in answering
       /\ \/ status'[c] = "done" /\ Show
          \/ status'[c] = "failed"
          \/ status'[c] = "backoff" /\ attempt'[c] > 0

LEMMA WorkerOK ==
    ASSUME LimiterInv, WorkerStep \/ Platform \/ Shutdown
    PROVE  LimiterInv'
<1> USE DEF LimiterInv
<1>1. /\ worker \in WorkerStates /\ running \in Call \union {NoCall}
      /\ \A c \in Call : status[c] \in Statuses
  BY DEF TypeOK
<1>2. CASE Take
  <2> DEFINE k == Head(queueList)
  <2>1. /\ worker = "idle" /\ queueList # <<>>
        /\ queueList' = Tail(queueList) /\ running' = func[k] /\ answering' = futures[k]
        /\ func' = [func EXCEPT ![k] = NoCall] /\ futures' = [futures EXCEPT ![k] = {}]
        /\ worker' = AfterTake
        /\ UNCHANGED <<callVars, paused, stopping, shown>>
    BY <1>2 DEF Take
  <2>2. k \in Key /\ func[k] \in Call /\ queueList' \in Seq(Key) /\ QueueIsMap' /\ NoStrayFuture'
    BY <2>1, TakeKeeps
  <2> HIDE DEF k
  <2>3. /\ running = NoCall /\ answering = {} /\ func[k] # NoCall /\ KeyOf[func[k]] = k
        /\ \A c \in futures[k] : c \in Call /\ KeyOf[c] = k
    BY <2>1, <2>2, NoCallAssumption DEF Holds, Placed, TypeOK
  <2>4. /\ \A l \in Key : func'[l] = IF l = k THEN NoCall ELSE func[l]
        /\ \A l \in Key : futures'[l] = IF l = k THEN {} ELSE futures[l]
    BY <2>1 DEF TypeOK
  <2>5. TypeOK'
    BY <2>1, <2>2 DEF TypeOK, AfterTake, WorkerStates, callVars
  <2>6. Ordered' /\ Holds'
    BY <2>1, <2>3 DEF Ordered, Holds, AfterTake, callVars
  <2>7. ASSUME NEW c \in Call PROVE Placed(c)'
    <3>1. \A l \in Key : /\ c \in futures'[l] <=> c \in futures[l] /\ l # k
                         /\ c = func'[l] => c = func[l]
      <4> TAKE l \in Key
      <4>1. CASE l = k
        BY <2>4, <4>1, NoCallAssumption
      <4>2. CASE l # k
        BY <2>4, <4>2
      <4> QED
        BY <4>1, <4>2
    <3>2. Placed(c) /\ c \notin answering /\ KeyOf[c] \in Key
      BY <2>3, KeyOfAssumption
    <3>3. status' = status /\ shown' = shown /\ attempt' = attempt
      BY <2>1 DEF callVars
    <3> QED
      BY <2>1, <2>2, <2>3, <3>1, <3>2, <3>3 DEF Placed
  <2>8. ASSUME NEW l \in Key, ~Retried(l) PROVE InOrder(l)'
    <3>1. order' = order /\ spawned' = spawned /\ status' = status /\ shown' = shown
      BY <2>1 DEF callVars
    <3>2. InOrder(l)
      OBVIOUS
    <3>3. Started(l)' \subseteq Started(l) \union {c \in {func[k]} : l = k}
      BY <2>1, <2>3, <3>1 DEF Started
    <3>4. CASE l = k
      <4>1. \A c \in answering' \union Started(l)' : UpTo(order, c, func[k])
        BY <2>1, <2>3, <2>8, <3>2, <3>3, <3>4 DEF InOrder, UpTo
      <4>2. func'[l] = NoCall
        BY <2>4, <3>4
      <4>3. \A i \in DOMAIN spawned : KeyOf[spawned[i]] = l =>
               \A c \in Started(l)' : Before(order, c, spawned[i])
        BY <2>3, <2>8, <3>2, <3>3, <3>4 DEF InOrder
      <4> QED
        BY <2>1, <2>8, <3>1, <3>2, <4>1, <4>2, <4>3 DEF InOrder
    <3>5. CASE l # k
      <4>1. func'[l] = func[l] /\ futures'[l] = futures[l] /\ Started(l)' \subseteq Started(l)
        BY <2>4, <3>3, <3>5
      <4> QED
        BY <2>1, <2>3, <2>8, <3>1, <3>2, <3>5, <4>1 DEF InOrder
    <3> QED
      BY <3>4, <3>5
  <2>9. \A l \in Key : Retried(l)' <=> Retried(l)
    BY <2>1 DEF Retried, callVars
  <2> QED
    BY <2>2, <2>5, <2>6, <2>7, <2>8, <2>9 DEF InOrder
<1>3. ASSUME PauseOver \/ Slot \/ Shutdown PROVE LimiterInv'
  <2>1. UNCHANGED <<callVars, queueVars, running, answering, shown>>
    BY <1>3 DEF PauseOver, Slot, Shutdown, workerVars
  <2>2. TypeOK'
    BY <1>3, <2>1 DEF PauseOver, Slot, Shutdown, workerVars, callVars, queueVars, TypeOK, WorkerStates
  <2>3. Holds'
    BY <1>1, <1>3, <2>1 DEF PauseOver, Slot, Shutdown, workerVars, Holds, WorkerStates
  <2>4. QueueIsMap' /\ NoStrayFuture' /\ Ordered'
    BY <2>1 DEF QueueIsMap, NoStrayFuture, Ordered, callVars, queueVars
  <2>5. (\A c \in Call : Placed(c)') /\ \A k \in Key : InOrder(k)'
    BY <2>1 DEF Placed, InOrder, Retried, Started, callVars, queueVars
  <2> QED
    BY <2>2, <2>3, <2>4, <2>5
<1>4. CASE WorkerStops
  <2>1. /\ worker' = "stopped"
        /\ (worker = "sending" /\ Show) \/ UNCHANGED shown
        /\ UNCHANGED <<callVars, queueVars, running, answering, paused>>
    BY <1>4 DEF WorkerStops
  <2>2. (running \in Call /\ Show) \/ UNCHANGED shown
    BY <1>1, <2>1 DEF Holds
  <2>3. shown' \in [Key -> Call \union {NoCall}]
    BY <2>2 DEF Show, TypeOK
  <2>4. TypeOK'
    BY <2>1, <2>3, <1>4 DEF WorkerStops, TypeOK, WorkerStates, callVars, queueVars
  <2>5. QueueIsMap' /\ NoStrayFuture' /\ Ordered' /\ Holds'
    BY <2>1 DEF QueueIsMap, NoStrayFuture, Ordered, Holds, callVars, queueVars
  <2>6. ASSUME NEW c \in Call PROVE Placed(c)'
    <3>1. /\ Placed(c)
          /\ \A k \in Key : c = shown'[k] => KeyOf[c] = k /\ status[c] # "new"
      BY <2>2 DEF Placed, Show, TypeOK
    <3> QED
      BY <2>1, <3>1 DEF Placed, callVars, queueVars
  <2>7. ASSUME NEW k \in Key PROVE InOrder(k)'
    <3>1. /\ UNCHANGED <<order, spawned, queueVars, running, answering, status>>
          /\ \A l \in Key : Retried(l) => Retried(l)'
      BY <2>1 DEF callVars, Retried
    <3> QED
      BY <2>2, <3>1, EffectKeepsOrder
  <2> QED
    BY <2>4, <2>5, <2>6, <2>7
<1>5. CASE Platform
  <2>1. /\ worker = "sending" /\ running \in Call
        /\ worker' = "idle" /\ running' = NoCall /\ answering' = {}
        /\ Show \/ UNCHANGED shown
        /\ UNCHANGED <<order, forget, spawned, queueVars, stopping>>
        /\ paused' \in BOOLEAN
    BY <1>1, <1>5 DEF Platform, Sent, Raises, LetGo, Holds, TypeOK
  <2>2. shown' \in [Key -> Call \union {NoCall}]
    BY <2>1 DEF Show, TypeOK
  <2>3. /\ status' \in [Call -> Statuses] /\ attempt' \in [Call -> 0 .. MaxRetries]
        /\ \A c \in Call : attempt'[c] >= attempt[c] /\ Outcome(c)
    <3>1. attempt \in [Call -> 0 .. MaxRetries] /\ MaxRetries \in Nat
      BY RetriesAssumption DEF TypeOK
    <3>2. CASE Sent
      <4>1. status' = Answer("done") /\ Show /\ attempt' = attempt
        BY <3>2 DEF Sent
      <4>2. \A c \in Call : status'[c] = IF c \in answering /\ status[c] = "waiting" THEN "done" ELSE status[c]
        BY <4>1 DEF Answer
      <4>3. status' \in [Call -> Statuses]
        BY <1>1, <4>1 DEF Answer, Statuses
      <4> QED
        BY <3>1, <4>1, <4>2, <4>3 DEF Outcome
    <3>3. ASSUME NEW transient \in BOOLEAN, NEW flood \in BOOLEAN, Raises(transient, flood)
          PROVE  /\ status' \in [Call -> Statuses] /\ attempt' \in [Call -> 0 .. MaxRetries]
                 /\ \A c \in Call : attempt'[c] >= attempt[c] /\ Outcome(c)
      <4> DEFINE again == {c \in answering : status[c] = "waiting" /\ transient /\ Retries(c)}
      <4>1. /\ status' = [c \in Call |-> IF c \in again THEN "backoff" ELSE Answer("failed")[c]]
            /\ attempt' = [c \in Call |-> attempt[c] + (IF c \in again THEN 1 ELSE 0)]
        BY <3>3 DEF Raises
      <4>2. \A c \in again : attempt[c] < MaxRetries /\ status[c] = "waiting" /\ c \in answering
        BY DEF Retries
      <4> HIDE DEF again
      <4>3. ASSUME NEW c \in Call
            PROVE  /\ attempt'[c] = IF c \in again THEN attempt[c] + 1 ELSE attempt[c]
                   /\ attempt'[c] \in 0 .. MaxRetries /\ attempt[c] \in Nat
        BY <3>1, <4>1, <4>2
      <4>4. ASSUME NEW c \in Call
            PROVE  status'[c] = IF c \in again THEN "backoff"
                                ELSE IF c \in answering /\ status[c] = "waiting" THEN "failed" ELSE status[c]
        BY <4>1 DEF Answer
      <4>5. status' \in [Call -> Statuses]
        BY <1>1, <4>1, <4>4 DEF Statuses
      <4>6. attempt' \in [Call -> 0 .. MaxRetries]
        BY <4>1, <4>3
      <4> QED
        BY <4>2, <4>3, <4>4, <4>5, <4>6 DEF Outcome
    <3> QED
      BY <1>5, <3>2, <3>3 DEF Platform
  <2>4. TypeOK'
    BY <2>1, <2>2, <2>3, NoCallAssumption DEF TypeOK, WorkerStates, queueVars
  <2>5. QueueIsMap' /\ NoStrayFuture' /\ Holds'
    BY <2>1 DEF QueueIsMap, NoStrayFuture, Holds, queueVars
  <2>6. Ordered'
    <3>1. \A c \in Call : status'[c] = "new" <=> status[c] = "new"
      BY <2>3 DEF Outcome
    <3>2. \A i \in DOMAIN spawned : spawned[i] \in Call /\ status'[spawned[i]] = "spawned"
      BY <2>3 DEF Outcome, Ordered, TypeOK
    <3> QED
      BY <2>1, <3>1, <3>2 DEF Ordered
  <2>7. ASSUME NEW c \in Call PROVE Placed(c)'
    <3>1. /\ Placed(c) /\ Outcome(c) /\ attempt'[c] >= attempt[c]
          /\ attempt[c] \in Int /\ attempt'[c] \in Int /\ KeyOf[c] \in Key
      BY <2>3, RetriesAssumption, KeyOfAssumption DEF TypeOK
    <3>2. UNCHANGED <<func, futures>>
      BY <2>1 DEF queueVars
    <3>3. \A k \in Key : c = shown'[k] => KeyOf[c] = k /\ status[c] # "new"
      BY <2>1, <3>1 DEF Placed, Show, TypeOK
    <3>4. c # NoCall
      BY NoCallAssumption
    <3>5. \A k \in Key : c \in futures[k] \/ c = func[k] => KeyOf[c] = k
      BY <3>1 DEF Placed
    <3> QED
      BY <2>1, <3>1, <3>2, <3>3, <3>4, <3>5 DEF Placed, Outcome
  <2>8. ASSUME NEW k \in Key PROVE InOrder(k)'
    <3>1. \A l \in Key : Retried(l) => Retried(l)'
      <4>1. \A c \in Call : attempt[c] \in Int /\ attempt'[c] \in Int /\ attempt'[c] >= attempt[c]
        BY <2>3, RetriesAssumption DEF TypeOK
      <4> QED
        BY <4>1 DEF Retried
    <3>2. \A c \in Call : status'[c] = "done" => status[c] = "done" \/ (c \in answering /\ Show)
      BY <2>3 DEF Outcome
    <3> QED
      BY <2>1, <3>1, <3>2, EffectKeepsOrder
  <2> QED
    BY <2>4, <2>5, <2>6, <2>7, <2>8
<1> QED
  BY <1>2, <1>3, <1>4, <1>5 DEF WorkerStep

LEMMA LimiterInductive == LimiterInv /\ [Next]_vars => LimiterInv'
<1> SUFFICES ASSUME LimiterInv, [Next]_vars PROVE LimiterInv'
  OBVIOUS
<1>1. CASE UNCHANGED vars
  BY <1>1 DEF vars, callVars, queueVars, workerVars, LimiterInv, TypeOK, QueueIsMap, Ordered, Holds,
              NoStrayFuture, Placed, InOrder, Retried, Started
<1>2. CASE Next
  BY <1>2, CallsOK, WorkerOK DEF Next
<1> QED
  BY <1>1, <1>2

-----------------------------------------------------------------------------
(* Theorems. *)

LEMMA LimiterAlways == Spec => []LimiterInv
BY LimiterInitOK, LimiterInductive, PTL DEF Spec

(* The variables keep their types. *)
THEOREM LimiterTyping == Spec => []TypeOK
<1>1. LimiterInv => TypeOK
  BY DEF LimiterInv
<1> QED
  BY <1>1, LimiterAlways, PTL

(* Nothing is sent while the worker is told to pause (_worker). *)
THEOREM PausesHold == Spec => []NoSendInPause
<1>1. LimiterInv => NoSendInPause
  BY DEF LimiterInv, Holds, NoSendInPause
<1> QED
  BY <1>1, LimiterAlways, PTL

(* The deque and the map hold the same keys, each once: the worker's pop(key)
   finds what popleft names (_enqueue_internal_multi, _worker).             *)
THEOREM DequeMatchesMap == Spec => []QueueIsMap
<1>1. LimiterInv => QueueIsMap
  BY DEF LimiterInv
<1> QED
  BY <1>1, LimiterAlways, PTL

(* Compaction and retries lose no caller: who waits is in the map or in the
   worker's hands, and never in both.                                       *)
THEOREM NoCallerIsLost == Spec => []WaiterHeld
<1>1. LimiterInv => WaiterHeld
  BY KeyOfAssumption DEF LimiterInv, Placed, WaiterHeld, NoStrayFuture, QueueIsMap
<1> QED
  BY <1>1, LimiterAlways, PTL

(* The last update of a message is the one shown once it is done, unless an update
   of the message was retried (compaction, fire_and_forget).                *)
THEOREM LastUpdateIsShown == Spec => []LatestShown
<1>1. LimiterInv => LatestShown
  <2> SUFFICES ASSUME LimiterInv, NEW c \in Call, status[c] = "done", Last(c), ~Retried(KeyOf[c])
               PROVE  shown[KeyOf[c]] = c
    BY DEF LatestShown
  <2> DEFINE d == shown[KeyOf[c]]
  <2>1. KeyOf[c] \in Key /\ d \in Call /\ UpTo(order, c, d) /\ KeyOf[d] = KeyOf[c]
    BY KeyOfAssumption DEF LimiterInv, InOrder, Placed
  <2>2. Before(order, c, d) => d \in Range(order)
    BY DEF Before, Range
  <2>3. Before(order, c, d) <=> Older(c, d)
    BY DEF Before, Older
  <2> QED
    BY <2>1, <2>2, <2>3 DEF UpTo, Last
<1> QED
  BY <1>1, LimiterAlways, PTL

(* A caller who is told that its update is done sees it, or a later update of the
   same message, unless one was retried (compaction).                       *)
THEOREM OwnUpdateOrNewer == Spec => OwnOrNewer
<1> DEFINE A == \A c \in Call : status[c] = "waiting" /\ status'[c] = "done" /\ ~Retried(KeyOf[c])
                                  => ~Older(shown'[KeyOf[c]], c)
<1>1. LimiterInv /\ [Next]_vars => [A]_vars
  <2> SUFFICES ASSUME LimiterInv, Next, NEW c \in Call, status[c] = "waiting", status'[c] = "done",
                      ~Retried(KeyOf[c])
               PROVE  ~Older(shown'[KeyOf[c]], c)
    OBVIOUS
  <2>1. status \in [Call -> Statuses] /\ KeyOf[c] \in Key
    BY KeyOfAssumption DEF LimiterInv, TypeOK
  <2>2. ASSUME NEW d \in Call, FireAndForget(d) \/ AwaitedCall(d) \/ Abandon(d) \/ CallStep(d)
        PROVE  FALSE
    BY <2>1, <2>2 DEF FireAndForget, AwaitedCall, Abandon, CallStep, FirstStep, Retry, Wait
  <2>3. ~WorkerStep /\ ~Shutdown
    BY DEF WorkerStep, Take, PauseOver, Slot, WorkerStops, Shutdown, callVars
  <2>4. ASSUME NEW transient \in BOOLEAN, NEW flood \in BOOLEAN, Raises(transient, flood)
        PROVE  FALSE
    <3>1. status'[c] \in {"backoff", "failed", status[c]}
      BY <2>4 DEF Raises, Answer
    <3> QED
      BY <3>1
  <2>5. Sent
    BY <2>2, <2>3, <2>4 DEF Next, Platform
  <2>6. Show /\ c \in answering
    BY <2>5 DEF Sent, Answer
  <2>7. running \in Call /\ KeyOf[running] = KeyOf[c]
    BY <2>6 DEF LimiterInv, Placed
  <2>8. shown'[KeyOf[c]] = running /\ UpTo(order, c, running)
    BY <2>1, <2>6, <2>7 DEF LimiterInv, TypeOK, Show, InOrder
  <2>9. ~Before(order, running, c)
    BY <2>8, OrderLaws DEF LimiterInv, UpTo
  <2> QED
    BY <2>8, <2>9 DEF Before, Older
<1>2. [][A]_vars => OwnOrNewer
  BY PTL DEF OwnOrNewer
<1> QED
  BY <1>1, <1>2, LimiterAlways, PTL DEF Spec

=============================================================================
