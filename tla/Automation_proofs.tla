-------------------------- MODULE Automation_proofs --------------------------
(* Proofs about Automation, for any servers, workers, rules, bounds and days. *)
EXTENDS Automation, TLAPS

-----------------------------------------------------------------------------
(* The inductive invariant. *)

\* The types TypeOK leaves out.
Types ==
    /\ TypeOK
    /\ fetched \in [Server -> (SUBSET Rule) \union {NoTick}]
    /\ queue \in [Server -> Seq(Rule)]

Active(s) == {w \in Worker : thread[s][w].phase # "none"}

\* A server's workers, and the threads they started, in its states.
Staffed(s) ==
    /\ status[s] # "up" => fetched[s] = NoTick
    /\ status[s] \in {"stopped", "down"} => queue[s] = <<>> /\ inflight[s] = {} /\ BusyWorkers(s) = {}
    /\ \A w \in Worker :
         /\ thread[s][w].phase = "none" => thread[s][w] = Idle
         /\ thread[s][w].phase # "none" => thread[s][w].rule \in Rule
         /\ thread[s][w].day <= Today
         /\ worker[s][w] = "busy" => w \in Active(s)
         /\ status[s] \in {"up", "stopping"} /\ w \in Active(s) => worker[s][w] = "busy"

\* A rule is in one place of a server: once in its queue, or with one thread.
Once(s) ==
    /\ inflight[s] = ToSet(queue[s]) \union JobsOf(s)
    /\ IsInjective(queue[s])
    /\ \A w \in Active(s) : thread[s][w].rule \notin ToSet(queue[s])
    /\ \A v, w \in Active(s) : thread[s][v].rule = thread[s][w].rule => v = w

\* The advisory lock: one thread of all servers runs a rule, and its row has room.
LockHeld ==
    \A s, t \in Server, v, w \in Worker :
        thread[s][v].phase = "running" /\ thread[t][w].phase = "running"
        /\ thread[s][v].rule = thread[t][w].rule => s = t /\ v = w

RowFits ==
    \A s \in Server, w \in Worker :
        thread[s][w].phase = "running" => runs[thread[s][w].rule][thread[s][w].day] < MaxRuns

AutomationInv == Types /\ LockHeld /\ RowFits /\ \A s \in Server : Staffed(s) /\ Once(s)

\* The rules of which a query's answer, the queue or a thread will start a run.
ToRun(s) ==
    {r \in Rule : \/ fetched[s] # NoTick /\ r \in fetched[s]
                  \/ r \in ToSet(queue[s])
                  \/ \E w \in Worker : thread[s][w].phase = "called" /\ thread[s][w].rule = r}

NoRunSince(r, d) == \A e \in Day : e >= d => runs[r][e] = 0

(* What will be run has not run today, nor what a thread runs on its day, but for
   the rules of which a run ended between a query and the use of its answer. *)
Fresh(s) ==
    /\ \A r \in ToRun(s) \ raced : NoRunSince(r, Today)
    /\ \A w \in Worker : thread[s][w].phase = "running" /\ thread[s][w].rule \notin raced =>
         NoRunSince(thread[s][w].rule, thread[s][w].day)

DailyInv == AutomationInv /\ OncePerDay /\ \A s \in Server : Fresh(s)

-----------------------------------------------------------------------------
(* Lemmas about days, queues, and what a step leaves alone. *)

LEMMA TodayOK ==
    ASSUME now \in 0 .. Horizon
    PROVE  Today \in Day /\ Today \in Nat /\ Day \subseteq Nat /\ 0 \in Day
BY SizesAssumption DEF Today, Day

LEMMA TickToday ==
    ASSUME now \in 0 .. Horizon, Tick
    PROVE  now' \in 0 .. Horizon /\ Today' >= Today
<1>1. now' = now + 1 /\ now' \in 0 .. Horizon
  BY SizesAssumption DEF Tick
<1>2. (now + 1) \div 2 >= now \div 2
  BY SizesAssumption
<1> QED
  BY <1>1, <1>2 DEF Today

\* The answer of a query.
LEMMA AnswerType ==
    ASSUME Types, NEW s \in Server
    PROVE  /\ fetched[s] # NoTick => fetched[s] \subseteq Rule
           /\ \A f \in (SUBSET Rule) \union {NoTick} :
                [fetched EXCEPT ![s] = f] \in [Server -> (SUBSET Rule) \union {NoTick}]
<1> DEFINE F == (SUBSET Rule) \union {NoTick}
<1>1. fetched \in [Server -> F]
  BY DEF Types
<1>2. fetched[s] \in F
  BY <1>1
<1>3. fetched[s] # NoTick => fetched[s] \subseteq Rule
  BY <1>2
<1> HIDE DEF F
<1>4. \A f \in F : [fetched EXCEPT ![s] = f] \in [Server -> F]
  BY <1>1
<1> QED
  BY <1>3, <1>4 DEF F

\* The worker's get.
LEMMA TailSet ==
    ASSUME NEW q \in Seq(Rule), q # <<>>, IsInjective(q)
    PROVE  /\ Head(q) \in Rule /\ Head(q) \in ToSet(q)
           /\ Tail(q) \in Seq(Rule) /\ Len(Tail(q)) <= Len(q)
           /\ ToSet(Tail(q)) = ToSet(q) \ {Head(q)}
           /\ IsInjective(Tail(q))
<1> DEFINE r == Tail(q)
<1>1. /\ Len(q) \in Nat /\ DOMAIN q = 1 .. Len(q) /\ Head(q) = q[1] /\ 1 \in DOMAIN q
      /\ r \in Seq(Rule) /\ DOMAIN r = 1 .. Len(q) - 1 /\ Len(r) = Len(q) - 1 /\ Head(q) \in Rule
      /\ \A i \in DOMAIN r : r[i] = q[i + 1]
  OBVIOUS
<1> HIDE DEF r
<1>2. \A i \in DOMAIN r : i + 1 \in DOMAIN q /\ i + 1 # 1 /\ i \in Int
  BY <1>1
<1>3. \A i \in DOMAIN q : i = 1 \/ (i - 1 \in DOMAIN r /\ (i - 1) + 1 = i)
  BY <1>1
<1>4. IsInjective(r)
  BY <1>1, <1>2 DEF IsInjective
<1>5. ToSet(r) = ToSet(q) \ {Head(q)}
  <2>1. \A i \in DOMAIN r : r[i] # Head(q) /\ r[i] \in ToSet(q)
    BY <1>1, <1>2 DEF IsInjective, ToSet
  <2>2. \A i \in DOMAIN q : q[i] = Head(q) \/ q[i] = r[i - 1]
    BY <1>1, <1>3
  <2> QED
    BY <1>3, <2>1, <2>2 DEF ToSet
<1>6. Head(q) \in ToSet(q)
  BY <1>1 DEF ToSet
<1> QED
  BY <1>1, <1>4, <1>5, <1>6 DEF r

\* What enqueue appends in one tick: wanted rules, each once.
LEMMA AcceptedOK ==
    ASSUME Types, NEW s \in Server, NEW new \in Accepted(s), IsInjective(queue[s]),
           ToSet(queue[s]) \subseteq inflight[s], fetched[s] \subseteq Rule
    PROVE  LET q == queue[s] \o new
           IN  /\ q \in Seq(Rule) /\ Len(q) <= QueueSize
               /\ ToSet(q) = ToSet(queue[s]) \union ToSet(new)
               /\ ToSet(new) \subseteq Wanted(s)
               /\ IsInjective(q)
<1> DEFINE q == queue[s] \o new
<1>1. PICK n \in 0 .. FreePlaces(s) : new \in [1 .. n -> Wanted(s)]
  BY DEF Accepted
<1>2. /\ queue[s] \in Seq(Rule) /\ Len(queue[s]) \in Nat /\ Len(queue[s]) <= QueueSize
      /\ QueueSize \in Nat /\ DOMAIN queue[s] = 1 .. Len(queue[s])
  BY SizesAssumption DEF Types, TypeOK
<1>3. n \in Nat /\ n + Len(queue[s]) <= QueueSize
  BY <1>1, <1>2 DEF FreePlaces
<1>4. Wanted(s) \subseteq Rule
  BY DEF Wanted
<1>5. new \in Seq(Rule) /\ Len(new) = n /\ DOMAIN new = 1 .. n
  BY <1>1, <1>3, <1>4
<1>6. /\ q \in Seq(Rule) /\ Len(q) = Len(queue[s]) + n /\ DOMAIN q = 1 .. Len(queue[s]) + n
      /\ \A i \in 1 .. Len(queue[s]) : q[i] = queue[s][i]
      /\ \A i \in Len(queue[s]) + 1 .. Len(queue[s]) + n : q[i] = new[i - Len(queue[s])]
  BY <1>2, <1>3, <1>5
<1> HIDE DEF q
<1>7. ASSUME NEW i \in DOMAIN q
      PROVE  \/ i \in DOMAIN queue[s] /\ q[i] = queue[s][i]
             \/ /\ i - Len(queue[s]) \in DOMAIN new /\ i \in Int
                /\ q[i] = new[i - Len(queue[s])]
  <2>1. CASE i \in 1 .. Len(queue[s])
    BY <1>2, <1>6, <2>1
  <2>2. CASE i \notin 1 .. Len(queue[s])
    <3>1. i \in Len(queue[s]) + 1 .. Len(queue[s]) + n /\ i - Len(queue[s]) \in 1 .. n /\ i \in Int
      BY <1>2, <1>3, <1>6, <2>2
    <3> QED
      BY <1>5, <1>6, <3>1
  <2> QED
    BY <2>1, <2>2
<1>8. ASSUME NEW i \in DOMAIN new
      PROVE  i + Len(queue[s]) \in DOMAIN q /\ q[i + Len(queue[s])] = new[i]
  <2>1. /\ i + Len(queue[s]) \in Len(queue[s]) + 1 .. Len(queue[s]) + n
        /\ i + Len(queue[s]) \in 1 .. Len(queue[s]) + n
        /\ (i + Len(queue[s])) - Len(queue[s]) = i
    BY <1>2, <1>3, <1>5
  <2> QED
    BY <1>6, <2>1
<1>9. DOMAIN queue[s] \subseteq DOMAIN q
  BY <1>2, <1>3, <1>6
<1>10. ToSet(q) = ToSet(queue[s]) \union ToSet(new)
  <2>1. \A i \in DOMAIN queue[s] : q[i] = queue[s][i] /\ i \in DOMAIN q
    BY <1>2, <1>6, <1>9
  <2>2. \A i \in DOMAIN q : q[i] \in ToSet(queue[s]) \union ToSet(new)
    BY <1>7 DEF ToSet
  <2>3. \A i \in DOMAIN new : new[i] \in ToSet(q)
    BY <1>8 DEF ToSet
  <2>4. \A i \in DOMAIN queue[s] : queue[s][i] \in ToSet(q)
    BY <2>1 DEF ToSet
  <2> QED
    BY <2>2, <2>3, <2>4 DEF ToSet
<1>11. ToSet(new) \subseteq Wanted(s)
  BY <1>1, <1>5 DEF ToSet
<1>12. \A i, j \in DOMAIN new : new[i] = new[j] => i = j
  <2>1. \A i, j \in DOMAIN new : i < j => Precedes(new[i], new[j])
    BY DEF Accepted
  <2>2. \A r : ~Precedes(r, r)
    <3>1. DOMAIN Order \subseteq Int
      BY RuleAssumption
    <3> QED
      BY <3>1, RuleAssumption DEF Precedes, IsInjective
  <2>3. \A i, j \in DOMAIN new : i # j => i < j \/ j < i
    BY <1>3, <1>5
  <2> QED
    BY <2>1, <2>2, <2>3
<1>13. \A i \in DOMAIN queue[s], j \in DOMAIN new : queue[s][i] # new[j]
  BY <1>11 DEF ToSet, Wanted
<1>14. ASSUME NEW i \in DOMAIN q, NEW j \in DOMAIN q, q[i] = q[j]
       PROVE  i = j
  <2>1. CASE i \in DOMAIN queue[s] /\ j \in DOMAIN queue[s]
    BY <1>2, <1>6, <1>14, <2>1 DEF IsInjective
  <2>2. CASE i \notin DOMAIN queue[s] /\ j \notin DOMAIN queue[s]
    BY <1>2, <1>7, <1>12, <1>14, <2>2
  <2>3. CASE i \in DOMAIN queue[s] /\ j \notin DOMAIN queue[s]
    BY <1>2, <1>6, <1>7, <1>13, <1>14, <2>3
  <2>4. CASE i \notin DOMAIN queue[s] /\ j \in DOMAIN queue[s]
    BY <1>2, <1>6, <1>7, <1>13, <1>14, <2>4
  <2> QED
    BY <2>1, <2>2, <2>3, <2>4
<1> QED
  BY <1>2, <1>3, <1>6, <1>10, <1>11, <1>14 DEF IsInjective, q

\* A step of one server leaves the others alone.
Untouched(s) ==
    /\ status'[s] = status[s] /\ fetched'[s] = fetched[s] /\ queue'[s] = queue[s]
    /\ inflight'[s] = inflight[s] /\ worker'[s] = worker[s] /\ thread'[s] = thread[s]

LEMMA UntouchedOK ==
    ASSUME AutomationInv, NEW s \in Server, Untouched(s), Today' >= Today, now' \in 0 .. Horizon
    PROVE  Staffed(s)' /\ Once(s)'
<1>1. /\ \A w \in Worker : thread[s][w].day \in Int
      /\ Today \in Int
  BY TodayOK DEF AutomationInv, Types, TypeOK, Threads, Day
<1>2. Today' \in Int
  BY SizesAssumption DEF Today
<1>3. BusyWorkers(s)' = BusyWorkers(s) /\ Active(s)' = Active(s) /\ JobsOf(s)' = JobsOf(s)
  BY DEF Untouched, BusyWorkers, Active, JobsOf
<1>4. Staffed(s)'
  BY <1>1, <1>2, <1>3 DEF AutomationInv, Untouched, Staffed
<1> QED
  BY <1>3, <1>4 DEF AutomationInv, Untouched, Once

\* Threads end, or do nothing that the lock or a row is about.
LEMMA NoNewRun ==
    ASSUME AutomationInv, UNCHANGED runs,
           \A s \in Server, w \in Worker :
               thread'[s][w].phase = "running" => thread'[s][w] = thread[s][w]
    PROVE  LockHeld' /\ RowFits'
<1>1. LockHeld'
  BY DEF AutomationInv, LockHeld
<1> QED
  BY <1>1 DEF AutomationInv, RowFits

-----------------------------------------------------------------------------
(* Steps. *)

LEMMA AutomationInitOK == Init => DailyInv
<1> SUFFICES ASSUME Init PROVE DailyInv
  OBVIOUS
<1>1. now \in 0 .. Horizon /\ Today \in Day /\ 0 \in Day /\ Day \subseteq Nat /\ Today \in Nat
  BY SizesAssumption, TodayOK DEF Init
<1>2. Idle \in Threads /\ Idle.phase = "none" /\ Idle.day = 0
  BY <1>1 DEF Idle, Threads
<1>3. 0 \in 0 .. MaxRuns /\ 0 \in 0 .. MaxFaults /\ 0 <= QueueSize
  BY SizesAssumption
<1>4. Types
  <2>1. runs \in [Rule -> [Day -> 0 .. MaxRuns]] /\ status \in [Server -> Status]
    BY <1>3 DEF Init, Status
  <2>2. /\ fetched \in [Server -> (SUBSET Rule) \union {NoTick}] /\ inflight \in [Server -> SUBSET Rule]
        /\ queue \in [Server -> Seq(Rule)]
    <3>1. <<>> \in Seq(Rule) /\ {} \in SUBSET Rule /\ NoTick \in (SUBSET Rule) \union {NoTick}
      OBVIOUS
    <3>2. fetched \in [Server -> {NoTick}]
      BY DEF Init
    <3> QED
      BY <3>1, <3>2 DEF Init
  <2>3. /\ worker \in [Server -> [Worker -> WorkerState]] /\ thread \in [Server -> [Worker -> Threads]]
    BY <1>2 DEF Init, WorkerState
  <2>4. \A s \in Server : queue[s] \in Seq(Rule) /\ Len(queue[s]) <= QueueSize
    BY <1>3 DEF Init
  <2> QED
    BY <1>1, <1>3, <2>1, <2>2, <2>3, <2>4 DEF Init, Types, TypeOK
<1>5. \A s \in Server, w \in Worker : thread[s][w] = Idle /\ worker[s][w] = "waiting"
  BY DEF Init
<1>6. ASSUME NEW s \in Server PROVE Staffed(s) /\ Once(s) /\ Fresh(s)
  <2>1. queue[s] = <<>> /\ ToSet(queue[s]) = {} /\ fetched[s] = NoTick /\ status[s] = "up" /\ inflight[s] = {}
    BY DEF Init, ToSet
  <2>2. BusyWorkers(s) = {} /\ Active(s) = {} /\ JobsOf(s) = {}
    BY <1>2, <1>5 DEF BusyWorkers, Active, JobsOf
  <2>3. IsInjective(queue[s])
    BY <2>1 DEF IsInjective
  <2>4. Staffed(s)
    BY <1>1, <1>2, <1>5, <2>1, <2>2 DEF Staffed
  <2>5. ToRun(s) = {}
    BY <1>2, <1>5, <2>1 DEF ToRun
  <2> QED
    BY <1>2, <1>5, <2>1, <2>2, <2>3, <2>4, <2>5 DEF Once, Fresh
<1>7. LockHeld /\ RowFits
  BY <1>2, <1>5 DEF LockHeld, RowFits
<1>8. OncePerDay
  BY DEF Init, OncePerDay
<1> QED
  BY <1>4, <1>6, <1>7, <1>8 DEF DailyInv, AutomationInv

\* The scheduler's tick.
LEMMA TickOnceOK ==
    ASSUME AutomationInv, NEW s \in Server, Fetch(s) \/ EnqueueDue(s)
    PROVE  AutomationInv'
<1> USE DEF AutomationInv
<1>1. /\ UNCHANGED <<now, runs, status, worker, thread, dropped, raced, faults>>
      /\ status[s] = "up" /\ Today' = Today /\ now \in 0 .. Horizon
      /\ \A t \in Server : t # s => Untouched(t)
  BY DEF Fetch, EnqueueDue, Untouched, Types, TypeOK, Today
<1>2. LockHeld' /\ RowFits'
  BY <1>1, NoNewRun
<1>3. \A t \in Server : t # s => Staffed(t)' /\ Once(t)'
  BY <1>1, UntouchedOK, TodayOK
<1>4. BusyWorkers(s)' = BusyWorkers(s) /\ Active(s)' = Active(s) /\ JobsOf(s)' = JobsOf(s)
  BY <1>1 DEF BusyWorkers, Active, JobsOf
<1>5. CASE Fetch(s)
  <2>1. {r \in Batch : Due(r)} \in SUBSET Rule
    <3>1. Batch \subseteq Rule
      BY RuleAssumption DEF Batch, Rule, Range
    <3> QED
      BY <3>1
  <2>2. fetched' = [fetched EXCEPT ![s] = {r \in Batch : Due(r)}] /\ UNCHANGED <<queue, inflight>>
    BY <1>5 DEF Fetch
  <2>3. fetched' \in [Server -> (SUBSET Rule) \union {NoTick}]
    BY <2>1, <2>2, AnswerType
  <2>4. Types'
    <3>1. \A t \in Server : fetched'[t] = NoTick \/ fetched'[t] \subseteq Rule
      BY <2>1, <2>2 DEF Types, TypeOK
    <3> QED
      BY <1>1, <2>2, <2>3, <3>1 DEF Types, TypeOK
  <2>5. Staffed(s)' /\ Once(s)'
    BY <1>1, <1>4, <2>2 DEF Staffed, Once
  <2> QED
    BY <1>2, <1>3, <2>4, <2>5
<1>6. CASE EnqueueDue(s)
  <2>1. PICK new \in Accepted(s) : /\ queue' = [queue EXCEPT ![s] = @ \o new]
                                   /\ inflight' = [inflight EXCEPT ![s] = @ \union ToSet(new)]
    BY <1>6 DEF EnqueueDue
  <2>2. fetched[s] \subseteq Rule /\ fetched' = [fetched EXCEPT ![s] = NoTick]
    BY <1>6, AnswerType DEF EnqueueDue
  <2> DEFINE q == queue[s] \o new
  <2>3. /\ q \in Seq(Rule) /\ Len(q) <= QueueSize
        /\ ToSet(q) = ToSet(queue[s]) \union ToSet(new)
        /\ ToSet(new) \subseteq Wanted(s)
        /\ IsInjective(q)
    BY <2>2, AcceptedOK DEF Once
  <2>4. queue' = [queue EXCEPT ![s] = q] /\ queue'[s] = q /\ inflight'[s] = inflight[s] \union ToSet(new)
        /\ fetched'[s] = NoTick
    BY <2>1, <2>2 DEF Types, TypeOK
  <2> HIDE DEF q
  <2>5. Wanted(s) \subseteq Rule /\ Wanted(s) \intersect inflight[s] = {}
    BY <2>2 DEF Wanted
  <2>6. fetched' \in [Server -> (SUBSET Rule) \union {NoTick}]
    BY <2>2, AnswerType
  <2>7. inflight' \in [Server -> SUBSET Rule]
    BY <2>1, <2>3, <2>5 DEF Types, TypeOK
  <2>8. queue' \in [Server -> Seq(Rule)] /\ \A t \in Server : Len(queue'[t]) <= QueueSize
    BY <2>3, <2>4 DEF Types, TypeOK
  <2>9. Types'
    <3>1. \A t \in Server : fetched'[t] = NoTick \/ fetched'[t] \subseteq Rule
      BY <2>2 DEF Types, TypeOK
    <3> QED
      BY <1>1, <2>6, <2>7, <2>8, <3>1 DEF Types, TypeOK
  <2>10. Staffed(s)'
    BY <1>1, <1>4, <2>4 DEF Staffed
  <2>11. \A w \in Active(s) : thread[s][w].rule \in inflight[s]
    BY <1>1 DEF Once, Staffed, JobsOf, BusyWorkers, Active
  <2>12. Once(s)'
    <3>1. \A w \in Active(s) : thread[s][w].rule \notin ToSet(q)
      BY <2>3, <2>5, <2>11 DEF Once
    <3> QED
      BY <1>1, <1>4, <2>3, <2>4, <3>1 DEF Once
  <2> QED
    BY <1>2, <1>3, <2>9, <2>10, <2>12
<1> QED
  BY <1>5, <1>6

\* stop, the end of a process, and a new one.
LEMMA LifeOK ==
    ASSUME AutomationInv, NEW s \in Server, Stop(s) \/ StopWorkers(s) \/ Crash(s) \/ Restart(s)
    PROVE  AutomationInv'
<1> USE DEF AutomationInv
<1>1. /\ UNCHANGED <<now, runs, raced>>
      /\ Today' = Today /\ now \in 0 .. Horizon /\ Today \in Int /\ 0 <= Today /\ 0 \in Day
      /\ faults' \in 0 .. MaxFaults /\ dropped' \subseteq Rule
  <2>1. ToSet(queue[s]) \subseteq Rule
    BY DEF Types, ToSet
  <2> QED
    BY <2>1, SizesAssumption, TodayOK DEF Stop, StopWorkers, Crash, Restart, Types, TypeOK, Today
<1>2. \A t \in Server : t # s => Untouched(t)
  BY DEF Stop, StopWorkers, Crash, Restart, Untouched, Types, TypeOK
<1>3. \A t \in Server : t # s => Staffed(t)' /\ Once(t)'
  BY <1>1, <1>2, UntouchedOK
<1>4. Idle \in Threads /\ Idle.phase = "none" /\ Idle.day = 0
  BY <1>1 DEF Idle, Threads
<1>5. ToSet(<<>>) = {} /\ IsInjective(<<>>) /\ Len(<<>>) <= QueueSize
  BY SizesAssumption DEF ToSet, IsInjective
<1>6. LockHeld' /\ RowFits'
  <2>1. \A t \in Server, w \in Worker : thread'[t][w].phase = "running" => thread'[t][w] = thread[t][w]
    <3>1. thread' = thread \/ thread' = [thread EXCEPT ![s] = [w \in Worker |-> Idle]]
      BY DEF Stop, StopWorkers, Crash, Restart
    <3> QED
      BY <1>4, <3>1 DEF Types, TypeOK
  <2> QED
    BY <1>1, <2>1, NoNewRun
<1>7. CASE Stop(s)
  <2>1. /\ status' = [status EXCEPT ![s] = "stopping"] /\ fetched' = [fetched EXCEPT ![s] = NoTick]
        /\ UNCHANGED <<queue, inflight, worker, thread>> /\ status[s] = "up"
    BY <1>7 DEF Stop
  <2>2. fetched' \in [Server -> (SUBSET Rule) \union {NoTick}]
    BY <2>1, AnswerType
  <2>3. Types'
    BY <1>1, <2>1, <2>2 DEF Types, TypeOK, Status
  <2>4. BusyWorkers(s)' = BusyWorkers(s) /\ Active(s)' = Active(s) /\ JobsOf(s)' = JobsOf(s)
    BY <2>1 DEF BusyWorkers, Active, JobsOf
  <2>5. Staffed(s)' /\ Once(s)'
    BY <1>1, <2>1, <2>4 DEF Staffed, Once, Types, TypeOK
  <2> QED
    BY <1>3, <1>6, <2>3, <2>5
<1>8. CASE StopWorkers(s)
  <2>1. /\ status' = [status EXCEPT ![s] = "stopped"]
        /\ worker' = [worker EXCEPT ![s] = [w \in Worker |-> "exited"]]
        /\ inflight' = [inflight EXCEPT ![s] = {}] /\ queue' = [queue EXCEPT ![s] = <<>>]
        /\ UNCHANGED <<fetched, thread>> /\ status[s] = "stopping"
        /\ faults' = faults
    BY <1>8 DEF StopWorkers
  <2>2. /\ queue' \in [Server -> Seq(Rule)] /\ \A t \in Server : Len(queue'[t]) <= QueueSize
        /\ worker' \in [Server -> [Worker -> WorkerState]]
        /\ inflight' \in [Server -> SUBSET Rule]
    BY <1>5, <2>1 DEF Types, TypeOK, WorkerState
  <2>3. Types'
    BY <1>1, <2>1, <2>2 DEF Types, TypeOK, Status
  <2>4. BusyWorkers(s)' = {} /\ Active(s)' = Active(s) /\ JobsOf(s)' = {}
    BY <2>1 DEF BusyWorkers, Active, JobsOf, Types, TypeOK
  <2>5. Staffed(s)'
    BY <1>1, <2>1, <2>4 DEF Staffed, Types, TypeOK
  <2>6. Once(s)'
    BY <1>5, <2>1, <2>4 DEF Once, Types, TypeOK
  <2> QED
    BY <1>3, <1>6, <2>3, <2>5, <2>6
<1>9. CASE Crash(s)
  <2>1. /\ status' = [status EXCEPT ![s] = "down"] /\ fetched' = [fetched EXCEPT ![s] = NoTick]
        /\ worker' = [worker EXCEPT ![s] = [w \in Worker |-> "exited"]]
        /\ inflight' = [inflight EXCEPT ![s] = {}] /\ queue' = [queue EXCEPT ![s] = <<>>]
        /\ thread' = [thread EXCEPT ![s] = [w \in Worker |-> Idle]]
    BY <1>9 DEF Crash
  <2>2. /\ queue' \in [Server -> Seq(Rule)] /\ \A t \in Server : Len(queue'[t]) <= QueueSize
        /\ worker' \in [Server -> [Worker -> WorkerState]]
        /\ inflight' \in [Server -> SUBSET Rule]
    BY <1>5, <2>1 DEF Types, TypeOK, WorkerState
  <2>3. /\ fetched' \in [Server -> (SUBSET Rule) \union {NoTick}]
        /\ thread' \in [Server -> [Worker -> Threads]]
    <3>1. fetched' \in [Server -> (SUBSET Rule) \union {NoTick}]
      BY <2>1, AnswerType
    <3> QED
      BY <1>4, <2>1, <3>1 DEF Types, TypeOK
  <2>4. Types'
    BY <1>1, <2>1, <2>2, <2>3 DEF Types, TypeOK, Status
  <2>5. BusyWorkers(s)' = {} /\ Active(s)' = {} /\ JobsOf(s)' = {}
    BY <1>4, <2>1 DEF BusyWorkers, Active, JobsOf, Types, TypeOK
  <2>6. Staffed(s)'
    BY <1>1, <1>4, <2>1, <2>5 DEF Staffed, Types, TypeOK
  <2>7. Once(s)'
    BY <1>5, <2>1, <2>5 DEF Once, Types, TypeOK
  <2> QED
    BY <1>3, <1>6, <2>4, <2>6, <2>7
<1>10. CASE Restart(s)
  <2>1. /\ status' = [status EXCEPT ![s] = "up"]
        /\ worker' = [worker EXCEPT ![s] = [w \in Worker |-> "waiting"]]
        /\ UNCHANGED <<fetched, queue, inflight, thread, faults>>
        /\ status[s] \in {"stopped", "down"} /\ \A w \in Worker : thread[s][w] = Idle
    BY <1>10 DEF Restart
  <2>2. Types'
    BY <1>1, <2>1 DEF Types, TypeOK, Status, WorkerState
  <2>3. BusyWorkers(s)' = {} /\ Active(s)' = {} /\ JobsOf(s)' = {}
    BY <1>4, <2>1 DEF BusyWorkers, Active, JobsOf, Types, TypeOK
  <2>4. queue[s] = <<>> /\ inflight[s] = {}
    BY <2>1 DEF Staffed
  <2>5. Staffed(s)' /\ Once(s)'
    BY <1>1, <1>4, <1>5, <2>1, <2>3, <2>4 DEF Staffed, Once, Types, TypeOK
  <2> QED
    BY <1>3, <1>6, <2>2, <2>5
<1> QED
  BY <1>7, <1>8, <1>9, <1>10

\* The workers and their threads.
LEMMA WorkerStepOK ==
    ASSUME AutomationInv, NEW s \in Server, NEW w \in Worker, Work(s, w) \/ Commit(s, w) \/ Rollback(s, w)
    PROVE  AutomationInv'
<1> USE DEF AutomationInv
<1>1. /\ UNCHANGED <<now, status, fetched, dropped>>
      /\ Today' = Today /\ now \in 0 .. Horizon /\ Today \in Day /\ Today \in Nat /\ Day \subseteq Nat
      /\ 0 \in Day
      /\ faults' \in 0 .. MaxFaults
  BY SizesAssumption, TodayOK
     DEF Work, Take, Begin, Commit, Finish, ReturnToNobody, Rollback, Types, TypeOK, Today
<1>2. \A t \in Server : t # s => Untouched(t)
  BY DEF Work, Take, Begin, Commit, Finish, ReturnToNobody, Rollback, Untouched, Types, TypeOK
<1>3. \A t \in Server : t # s => Staffed(t)' /\ Once(t)'
  BY <1>1, <1>2, UntouchedOK
<1>4. Idle \in Threads /\ Idle.phase = "none" /\ Idle.day = 0
  BY <1>1 DEF Idle, Threads
<1>5. /\ thread[s][w] \in Threads /\ thread \in [Server -> [Worker -> Threads]]
      /\ worker \in [Server -> [Worker -> WorkerState]]
  BY DEF Types, TypeOK
<1>6. CASE Take(s, w)
  <2> DEFINE r == Head(queue[s])
             q == Tail(queue[s])
             job == [Idle EXCEPT !.phase = "called", !.rule = r]
  <2>1. /\ worker[s][w] = "waiting" /\ queue[s] # <<>>
        /\ queue' = [queue EXCEPT ![s] = q]
        /\ worker' = [worker EXCEPT ![s][w] = "busy"]
        /\ thread' = [thread EXCEPT ![s][w] = job]
        /\ UNCHANGED <<runs, inflight, raced>>
    BY <1>6 DEF Take
  <2>2. /\ r \in Rule /\ r \in ToSet(queue[s])
        /\ q \in Seq(Rule) /\ Len(q) <= Len(queue[s]) /\ Len(q) \in Nat
        /\ ToSet(q) = ToSet(queue[s]) \ {r}
        /\ IsInjective(q)
    BY <2>1, TailSet DEF Types, Once
  <2>3. job \in Threads /\ job.phase = "called" /\ job.rule = r /\ job.day = 0
    BY <1>1, <2>2 DEF Idle, Threads
  <2>4. status[s] \in {"up", "stopping"} /\ thread[s][w].phase = "none"
    BY <2>1 DEF Staffed, Types, TypeOK, Status, Active
  <2> HIDE DEF r, q, job
  <2>5. /\ thread'[s][w] = job /\ worker'[s][w] = "busy" /\ queue'[s] = q
        /\ \A v \in Worker : v # w => thread'[s][v] = thread[s][v] /\ worker'[s][v] = worker[s][v]
    BY <1>5, <2>1 DEF Types, TypeOK
  <2>6. /\ queue' \in [Server -> Seq(Rule)] /\ \A t \in Server : Len(queue'[t]) <= QueueSize
    <3>1. Len(q) <= QueueSize
      BY <2>2, SizesAssumption DEF Types, TypeOK
    <3> QED
      BY <2>1, <2>2, <3>1 DEF Types, TypeOK
  <2>7. Types'
    <3>1. thread' \in [Server -> [Worker -> Threads]] /\ worker' \in [Server -> [Worker -> WorkerState]]
      BY <1>5, <2>1, <2>3 DEF WorkerState
    <3> QED
      BY <1>1, <2>1, <2>6, <3>1 DEF Types, TypeOK
  <2>8. LockHeld' /\ RowFits'
    <3>1. \A t \in Server, v \in Worker : thread'[t][v].phase = "running" => thread'[t][v] = thread[t][v]
      BY <1>5, <2>1, <2>3
    <3> QED
      BY <2>1, <3>1, NoNewRun
  <2>9. Active(s)' = Active(s) \union {w} /\ BusyWorkers(s)' = BusyWorkers(s) \union {w}
        /\ w \notin Active(s) /\ w \notin BusyWorkers(s)
    BY <2>1, <2>3, <2>4, <2>5 DEF Active, BusyWorkers
  <2>10. JobsOf(s)' = JobsOf(s) \union {r}
    <3>1. \A v \in BusyWorkers(s) : thread'[s][v].rule = thread[s][v].rule
      BY <2>5, <2>9 DEF BusyWorkers
    <3> QED
      BY <2>3, <2>5, <2>9, <3>1 DEF JobsOf
  <2>11. Staffed(s)'
    BY <1>1, <2>2, <2>3, <2>4, <2>5, <2>9 DEF Staffed
  <2>12. Once(s)'
    BY <2>1, <2>2, <2>3, <2>5, <2>9, <2>10 DEF Once, Active
  <2> QED
    BY <1>3, <2>7, <2>8, <2>11, <2>12
<1>7. ASSUME Begin(s, w) \/ Commit(s, w) \/ Rollback(s, w)
      PROVE  AutomationInv'
  <2>1. /\ UNCHANGED <<queue, inflight, worker>>
        /\ thread[s][w].phase \in {"called", "running"} /\ thread[s][w].rule \in Rule
    BY <1>7 DEF Begin, Commit, Rollback, Staffed
  <2>2. PICK th \in Threads : /\ thread' = [thread EXCEPT ![s][w] = th]
                              /\ th.phase \in {"running", "done"} /\ th.rule = thread[s][w].rule
                              /\ th.day <= Today
                              /\ th.phase = "running" =>
                                   ~Locked(thread[s][w].rule) /\ runs[thread[s][w].rule][th.day] < MaxRuns
    <3>1. CASE Begin(s, w)
      <4> DEFINE new == [phase |-> IF Locked(thread[s][w].rule) THEN "done" ELSE "running",
                         rule |-> thread[s][w].rule, day |-> Today]
      <4>1. thread' = [thread EXCEPT ![s][w] = new] /\ runs[thread[s][w].rule][Today] < MaxRuns
        BY <3>1 DEF Begin
      <4>2. new \in Threads
        BY <1>1, <2>1 DEF Threads
      <4>3. /\ new.phase \in {"running", "done"} /\ (new.phase = "running" => ~Locked(thread[s][w].rule))
            /\ new.rule = thread[s][w].rule /\ new.day = Today
        OBVIOUS
      <4> HIDE DEF new
      <4>4. /\ thread' = [thread EXCEPT ![s][w] = new]
            /\ new.phase \in {"running", "done"} /\ new.rule = thread[s][w].rule
        BY <4>1, <4>3
      <4>5. new.day <= Today
        BY <1>1, <4>3
      <4>6. new.phase = "running" =>
              ~Locked(thread[s][w].rule) /\ runs[thread[s][w].rule][new.day] < MaxRuns
        BY <4>1, <4>3
      <4> QED
        BY <4>2, <4>4, <4>5, <4>6
    <3>2. CASE Commit(s, w) \/ Rollback(s, w)
      <4> DEFINE th == [thread[s][w] EXCEPT !.phase = "done"]
      <4>1. thread' = [thread EXCEPT ![s][w] = th]
        BY <1>5, <3>2 DEF Commit, Rollback
      <4>2. th \in Threads /\ th.phase = "done" /\ th.rule = thread[s][w].rule /\ th.day = thread[s][w].day
        BY <1>5 DEF Threads
      <4>3. thread[s][w].day <= Today
        BY DEF Staffed
      <4> QED
        BY <4>1, <4>2, <4>3
    <3> QED
      BY <1>7, <3>1, <3>2
  <2>3. /\ thread'[s][w] = th /\ \A v \in Worker : v # w => thread'[s][v] = thread[s][v]
        /\ \A t \in Server, v \in Worker : t # s \/ v # w => thread'[t][v] = thread[t][v]
    BY <1>5, <2>2
  <2>4. runs' \in [Rule -> [Day -> 0 .. MaxRuns]] /\ raced' \subseteq Rule
    <3>1. CASE Commit(s, w)
      <4>1. /\ runs' = [runs EXCEPT ![thread[s][w].rule][thread[s][w].day] = @ + 1]
            /\ raced' = raced \union {r \in {thread[s][w].rule} : fetched[s] # NoTick}
            /\ thread[s][w].phase = "running"
        BY <3>1 DEF Commit
      <4>2. thread[s][w].day \in Day /\ runs[thread[s][w].rule][thread[s][w].day] < MaxRuns
        BY <1>5, <4>1 DEF Threads, RowFits
      <4>3. runs[thread[s][w].rule][thread[s][w].day] + 1 \in 0 .. MaxRuns
        BY <2>1, <4>2, SizesAssumption DEF Types, TypeOK
      <4> QED
        BY <2>1, <4>1, <4>2, <4>3 DEF Types, TypeOK
    <3>2. CASE ~Commit(s, w)
      BY <1>7, <3>2 DEF Begin, Rollback, Types, TypeOK
    <3> QED
      BY <3>1, <3>2
  <2>5. Types'
    <3>1. thread' \in [Server -> [Worker -> Threads]]
      BY <1>5, <2>2
    <3> QED
      BY <1>1, <2>1, <2>4, <3>1 DEF Types, TypeOK
  <2>6. Active(s)' = Active(s) /\ w \in Active(s) /\ BusyWorkers(s)' = BusyWorkers(s)
    BY <2>1, <2>2, <2>3 DEF Active, BusyWorkers
  <2>7. \A v \in Worker : thread'[s][v].rule = thread[s][v].rule
    BY <2>2, <2>3
  <2>8. JobsOf(s)' = JobsOf(s)
    BY <2>6, <2>7 DEF JobsOf, BusyWorkers
  <2>9. Staffed(s)'
    BY <1>1, <2>1, <2>2, <2>3, <2>6 DEF Staffed
  <2>10. Once(s)'
    BY <2>1, <2>6, <2>7, <2>8 DEF Once, Active
  <2>11. LockHeld' /\ RowFits'
    <3>1. CASE Begin(s, w)
      <4>1. runs' = runs
        BY <3>1 DEF Begin
      <4>2. \A t \in Server, v \in Worker :
              th.phase = "running" /\ thread[t][v].phase = "running" => thread[t][v].rule # th.rule
        BY <2>2 DEF Locked
      <4>3. LockHeld'
        BY <2>3, <4>2 DEF LockHeld
      <4>4. ASSUME NEW t \in Server, NEW v \in Worker, thread'[t][v].phase = "running"
            PROVE  runs[thread'[t][v].rule][thread'[t][v].day] < MaxRuns
        <5>1. CASE t = s /\ v = w
          BY <2>2, <2>3, <4>4, <5>1
        <5>2. CASE t # s \/ v # w
          BY <2>3, <4>4, <5>2 DEF RowFits
        <5> QED
          BY <5>1, <5>2
      <4> QED
        BY <4>1, <4>3, <4>4 DEF RowFits
    <3>2. CASE Commit(s, w)
      <4>1. /\ runs' = [runs EXCEPT ![thread[s][w].rule][thread[s][w].day] = @ + 1]
            /\ thread'[s][w].phase = "done" /\ thread[s][w].phase = "running"
        BY <1>5, <3>2 DEF Commit
      <4>2. LockHeld'
        BY <2>3, <4>1 DEF LockHeld
      <4>3. ASSUME NEW t \in Server, NEW v \in Worker, thread'[t][v].phase = "running"
            PROVE  runs'[thread'[t][v].rule][thread'[t][v].day] < MaxRuns
        <5>1. thread'[t][v] = thread[t][v] /\ (t # s \/ v # w)
          BY <2>3, <4>1, <4>3
        <5>2. thread[t][v].rule # thread[s][w].rule
          BY <4>1, <4>3, <5>1 DEF LockHeld
        <5>3. runs'[thread[t][v].rule] = runs[thread[t][v].rule]
          BY <2>1, <4>1, <5>2 DEF Types, TypeOK
        <5> QED
          BY <4>3, <5>1, <5>3 DEF RowFits
      <4> QED
        BY <4>2, <4>3 DEF RowFits
    <3>3. CASE Rollback(s, w)
      <4>1. runs' = runs /\ thread'[s][w].phase = "done"
        BY <1>5, <3>3 DEF Rollback
      <4> QED
        BY <2>3, <4>1, NoNewRun
    <3> QED
      BY <1>7, <3>1, <3>2, <3>3
  <2> QED
    BY <1>3, <2>5, <2>9, <2>10, <2>11
<1>8. CASE Finish(s, w) \/ ReturnToNobody(s, w)
  <2>1. /\ thread[s][w].phase = "done" /\ thread' = [thread EXCEPT ![s][w] = Idle]
        /\ UNCHANGED <<runs, queue, raced>>
    BY <1>8 DEF Finish, ReturnToNobody
  <2>2. /\ thread'[s][w] = Idle
        /\ \A v \in Worker : v # w => thread'[s][v] = thread[s][v]
    BY <1>5, <2>1
  <2>3. LockHeld' /\ RowFits'
    <3>1. \A t \in Server, v \in Worker : thread'[t][v].phase = "running" => thread'[t][v] = thread[t][v]
      BY <1>4, <1>5, <2>1
    <3> QED
      BY <2>1, <3>1, NoNewRun
  <2>4. thread' \in [Server -> [Worker -> Threads]]
    BY <1>4, <1>5, <2>1
  <2>5. Active(s)' = Active(s) \ {w} /\ w \in Active(s)
    BY <1>4, <2>1, <2>2 DEF Active
  <2>6. CASE Finish(s, w)
    <3>1. /\ worker[s][w] = "busy"
          /\ inflight' = [inflight EXCEPT ![s] = @ \ {thread[s][w].rule}]
          /\ worker' = [worker EXCEPT ![s][w] = IF status[s] = "up" THEN "waiting" ELSE "exited"]
      BY <2>6 DEF Finish, Discarded
    <3>2. /\ worker'[s][w] # "busy" /\ \A v \in Worker : v # w => worker'[s][v] = worker[s][v]
          /\ inflight'[s] = inflight[s] \ {thread[s][w].rule}
      BY <1>5, <3>1 DEF Types, TypeOK
    <3>3. BusyWorkers(s)' = BusyWorkers(s) \ {w} /\ w \in BusyWorkers(s) /\ BusyWorkers(s) \subseteq Active(s)
      BY <3>1, <3>2 DEF BusyWorkers, Staffed
    <3>4. Types'
      BY <1>1, <1>5, <2>1, <2>4, <3>1 DEF Types, TypeOK, WorkerState
    <3>5. Staffed(s)'
      BY <1>1, <1>4, <2>1, <2>2, <2>5, <3>2, <3>3 DEF Staffed
    <3>6. JobsOf(s)' = JobsOf(s) \ {thread[s][w].rule}
      <4>1. \A v \in BusyWorkers(s) \ {w} : thread'[s][v].rule = thread[s][v].rule
                                            /\ thread[s][v].rule # thread[s][w].rule
        BY <2>2, <2>5, <3>3 DEF Once, BusyWorkers
      <4> QED
        BY <3>3, <4>1 DEF JobsOf
    <3>7. \A v \in Active(s)' : thread'[s][v].rule = thread[s][v].rule
      BY <2>2, <2>5 DEF Active
    <3>8. Once(s)'
      BY <2>1, <2>5, <3>2, <3>6, <3>7 DEF Once
    <3> QED
      BY <1>3, <2>3, <3>4, <3>5, <3>8
  <2>7. CASE ReturnToNobody(s, w)
    <3>1. worker[s][w] = "exited" /\ UNCHANGED <<worker, inflight>>
      BY <2>7 DEF ReturnToNobody
    <3>2. BusyWorkers(s)' = BusyWorkers(s) /\ w \notin BusyWorkers(s) /\ JobsOf(s)' = JobsOf(s)
      BY <2>2, <3>1 DEF BusyWorkers, JobsOf
    <3>3. Types'
      BY <1>1, <2>1, <2>4, <2>7, <3>1 DEF ReturnToNobody, Types, TypeOK
    <3>4. Staffed(s)'
      BY <1>1, <1>4, <2>1, <2>2, <2>5, <3>1, <3>2 DEF Staffed
    <3>5. \A v \in Active(s)' : thread'[s][v].rule = thread[s][v].rule
      BY <2>2, <2>5 DEF Active
    <3>6. Once(s)'
      BY <2>1, <2>5, <3>1, <3>2, <3>5 DEF Once
    <3> QED
      BY <1>3, <2>3, <3>3, <3>4, <3>6
  <2> QED
    BY <1>8, <2>6, <2>7
<1> QED
  BY <1>6, <1>7, <1>8 DEF Work

LEMMA AutomationInductive == AutomationInv /\ [Next]_vars => AutomationInv'
<1> SUFFICES ASSUME AutomationInv, [Next]_vars PROVE AutomationInv'
  OBVIOUS
<1>1. ASSUME Tick \/ UNCHANGED vars PROVE AutomationInv'
  <2>1. now' \in 0 .. Horizon /\ Today' >= Today
    BY <1>1, TickToday, TodayOK DEF vars, Today, AutomationInv, Types, TypeOK
  <2>2. UNCHANGED <<runs, status, fetched, queue, inflight, worker, thread, dropped, raced, faults>>
    BY <1>1 DEF Tick, vars
  <2>3. \A s \in Server : Staffed(s)' /\ Once(s)'
    BY <2>1, <2>2, UntouchedOK DEF Untouched
  <2>4. LockHeld' /\ RowFits'
    BY <2>2, NoNewRun
  <2> QED
    BY <2>1, <2>2, <2>3, <2>4 DEF AutomationInv, Types, TypeOK
<1> QED
  BY <1>1, TickOnceOK, LifeOK, WorkerStepOK DEF Next

-----------------------------------------------------------------------------
(* Once a day, when there is one server. *)

OneServer == \A s, t \in Server : s = t

\* When no run ends, what will be run and what runs must be fresh today.
LEMMA FreshKept ==
    ASSUME AutomationInv, AutomationInv', UNCHANGED <<runs, raced>>, Today' >= Today, NEW s \in Server,
           \A r \in ToRun(s)' \ raced : NoRunSince(r, Today),
           \A w \in Worker : thread'[s][w].phase = "running" /\ thread'[s][w].rule \notin raced =>
             NoRunSince(thread'[s][w].rule, thread'[s][w].day)
    PROVE  Fresh(s)'
<1>1. Today \in Int /\ Today' \in Int /\ Day \subseteq Int
  BY SizesAssumption DEF Today, Day, AutomationInv, Types, TypeOK
<1>2. ASSUME NEW r \in ToRun(s)' \ raced'
      PROVE  \A e \in Day : e >= Today' => runs'[r][e] = 0
  <2>1. runs' = runs /\ NoRunSince(r, Today)
    BY <1>2
  <2>2. \A e \in Day : e >= Today' => e >= Today
    BY <1>1
  <2> QED
    BY <2>1, <2>2 DEF NoRunSince
<1>3. ASSUME NEW w \in Worker, thread'[s][w].phase = "running", thread'[s][w].rule \notin raced'
      PROVE  \A e \in Day : e >= thread'[s][w].day => runs'[thread'[s][w].rule][e] = 0
  BY <1>3 DEF NoRunSince
<1> QED
  BY <1>2, <1>3 DEF Fresh, NoRunSince

LEMMA DailyInductive ==
    ASSUME OneServer, DailyInv, [Next]_vars
    PROVE  DailyInv'
<1> USE DEF DailyInv
<1>1. AutomationInv'
  BY AutomationInductive
<1>2. now \in 0 .. Horizon /\ Today \in Day /\ Today \in Nat /\ Day \subseteq Nat
  BY TodayOK DEF AutomationInv, Types, TypeOK
<1>3. ASSUME UNCHANGED <<runs, raced>>, Today' >= Today,
             \A s \in Server : ToRun(s)' \subseteq ToRun(s),
             \A s \in Server, w \in Worker :
               thread'[s][w].phase = "running" => thread'[s][w] = thread[s][w]
      PROVE  DailyInv'
  <2>1. OncePerDay'
    BY <1>3 DEF OncePerDay
  <2>2. ASSUME NEW s \in Server PROVE Fresh(s)'
    <3>1. \A r \in ToRun(s)' \ raced : NoRunSince(r, Today)
      BY <1>3 DEF Fresh
    <3>2. \A w \in Worker : thread'[s][w].phase = "running" /\ thread'[s][w].rule \notin raced =>
            NoRunSince(thread'[s][w].rule, thread'[s][w].day)
      BY <1>3 DEF Fresh
    <3> QED
      BY <1>1, <1>3, <3>1, <3>2, FreshKept
  <2> QED
    BY <1>1, <2>1, <2>2
<1>4. CASE Tick \/ UNCHANGED vars
  <2>1. Today' >= Today
    BY <1>2, <1>4, TickToday DEF vars, Today
  <2>2. UNCHANGED <<runs, raced, fetched, queue, thread>>
    BY <1>4 DEF Tick, vars
  <2>3. \A s \in Server : ToRun(s)' = ToRun(s)
    BY <2>2 DEF ToRun
  <2> QED
    BY <1>3, <2>1, <2>2, <2>3
<1>5. ASSUME NEW s \in Server, Fetch(s)
      PROVE  DailyInv'
  <2>1. /\ UNCHANGED <<now, runs, queue, thread, raced>>
        /\ fetched' = [fetched EXCEPT ![s] = {r \in Batch : Due(r)}]
    BY <1>5 DEF Fetch
  <2>2. Today' = Today /\ Today' >= Today
    BY <1>2, <2>1 DEF Today
  <2>3. \A r : Due(r) => NoRunSince(r, Today)
    BY DEF Due, NoRunSince
  <2>4. ASSUME NEW t \in Server PROVE Fresh(t)'
    <3>1. fetched'[t] = {r \in Batch : Due(r)} \/ fetched'[t] = fetched[t]
      BY <2>1 DEF AutomationInv, Types
    <3>2. \A r \in ToRun(t)' : r \in ToRun(t) \/ Due(r)
      BY <2>1, <3>1 DEF ToRun
    <3>3. \A r \in ToRun(t)' \ raced : NoRunSince(r, Today)
      BY <2>3, <3>2 DEF Fresh
    <3>4. \A w \in Worker : thread'[t][w].phase = "running" /\ thread'[t][w].rule \notin raced =>
            NoRunSince(thread'[t][w].rule, thread'[t][w].day)
      BY <2>1 DEF Fresh
    <3> QED
      BY <1>1, <2>1, <2>2, <3>3, <3>4, FreshKept
  <2> QED
    BY <1>1, <2>1, <2>4 DEF OncePerDay
<1>6. ASSUME NEW s \in Server, EnqueueDue(s)
      PROVE  DailyInv'
  <2>1. PICK new \in Accepted(s) : queue' = [queue EXCEPT ![s] = @ \o new]
    BY <1>6 DEF EnqueueDue
  <2>2. /\ UNCHANGED <<now, runs, thread, raced>> /\ fetched[s] # NoTick
        /\ fetched' = [fetched EXCEPT ![s] = NoTick] /\ Today' = Today
    BY <1>6 DEF EnqueueDue, Today
  <2>3. ToSet(queue[s] \o new) = ToSet(queue[s]) \union ToSet(new) /\ ToSet(new) \subseteq Wanted(s)
    BY <2>2, AcceptedOK, AnswerType DEF AutomationInv, Once
  <2>4. ASSUME NEW t \in Server PROVE ToRun(t)' \subseteq ToRun(t)
    <3>1. CASE t = s
      <4>1. queue'[t] = queue[s] \o new /\ fetched'[t] = NoTick
        BY <2>1, <2>2, <3>1 DEF AutomationInv, Types
      <4> QED
        BY <2>2, <2>3, <3>1, <4>1 DEF ToRun, Wanted
    <3>2. CASE t # s
      BY <2>1, <2>2, <3>2 DEF ToRun, AutomationInv, Types
    <3> QED
      BY <3>1, <3>2
  <2> QED
    BY <1>2, <1>3, <2>2, <2>4
<1>7. ASSUME NEW s \in Server, Stop(s) \/ StopWorkers(s) \/ Crash(s) \/ Restart(s)
      PROVE  DailyInv'
  <2>1. UNCHANGED <<now, runs, raced>> /\ Today' = Today /\ Idle.phase = "none"
    BY <1>7 DEF Stop, StopWorkers, Crash, Restart, Today, Idle
  <2>2. ToSet(<<>>) = {}
    BY DEF ToSet
  <2>3. ASSUME NEW t \in Server
        PROVE  /\ fetched'[t] \in {fetched[t], NoTick} /\ queue'[t] \in {queue[t], <<>>}
               /\ \A w \in Worker : thread'[t][w] \in {thread[t][w], Idle}
    <3> DEFINE noThreads == [w \in Worker |-> Idle]
    <3>1. /\ fetched' \in {fetched, [fetched EXCEPT ![s] = NoTick]}
          /\ queue' \in {queue, [queue EXCEPT ![s] = <<>>]}
          /\ thread' \in {thread, [thread EXCEPT ![s] = noThreads]}
      BY <1>7 DEF Stop, StopWorkers, Crash, Restart
    <3>2. \A w \in Worker : noThreads[w] = Idle
      OBVIOUS
    <3> HIDE DEF noThreads
    <3>3. thread \in [Server -> [Worker -> Threads]]
      BY DEF AutomationInv, Types, TypeOK
    <3>4. thread'[t] \in {thread[t], noThreads}
      BY <3>1, <3>3
    <3>5. fetched'[t] \in {fetched[t], NoTick}
      BY <3>1 DEF AutomationInv, Types
    <3>6. queue'[t] \in {queue[t], <<>>}
      BY <3>1 DEF AutomationInv, Types
    <3> QED
      BY <3>2, <3>4, <3>5, <3>6
  <2>4. ASSUME NEW t \in Server PROVE ToRun(t)' \subseteq ToRun(t)
    BY <2>1, <2>2, <2>3 DEF ToRun
  <2> QED
    BY <1>2, <1>3, <2>1, <2>3, <2>4
<1>8. ASSUME NEW s \in Server, NEW w \in Worker, Work(s, w) \/ Commit(s, w) \/ Rollback(s, w)
      PROVE  DailyInv'
  <2> USE <1>2 DEF AutomationInv
  <2>1. /\ thread \in [Server -> [Worker -> Threads]] /\ UNCHANGED <<now, fetched>> /\ Today' = Today
        /\ \A t \in Server : t = s
    BY <1>8 DEF Types, TypeOK, Work, Take, Begin, Commit, Finish, ReturnToNobody, Rollback, Today, OneServer
  <2>2. CASE Take(s, w)
    <3> DEFINE job == [Idle EXCEPT !.phase = "called", !.rule = Head(queue[s])]
    <3>1. /\ queue[s] # <<>> /\ UNCHANGED <<runs, raced>> /\ queue' = [queue EXCEPT ![s] = Tail(queue[s])]
          /\ thread' = [thread EXCEPT ![s][w] = job]
      BY <2>2 DEF Take
    <3>2. job.phase = "called" /\ job.rule = Head(queue[s])
      BY DEF Idle
    <3> HIDE DEF job
    <3>3. /\ queue'[s] = Tail(queue[s]) /\ thread'[s][w] = job
          /\ \A v \in Worker : v # w => thread'[s][v] = thread[s][v]
      BY <2>1, <3>1 DEF Types
    <3>4. ToSet(Tail(queue[s])) \subseteq ToSet(queue[s]) /\ Head(queue[s]) \in ToSet(queue[s])
      BY <3>1, TailSet DEF Types, Once
    <3>5. ToRun(s)' \subseteq ToRun(s)
      BY <2>1, <3>2, <3>3, <3>4 DEF ToRun
    <3>6. \A t \in Server, v \in Worker : thread'[t][v].phase = "running" => thread'[t][v] = thread[t][v]
      BY <2>1, <3>2, <3>3
    <3> QED
      BY <1>3, <2>1, <3>1, <3>5, <3>6
  <2>3. CASE Finish(s, w) \/ ReturnToNobody(s, w) \/ Rollback(s, w)
    <3>1. PICK th : /\ thread' = [thread EXCEPT ![s][w] = th]
                    /\ th.phase \in {"none", "done"}
                    /\ UNCHANGED <<runs, raced, queue>>
      <4>1. CASE Rollback(s, w)
        <5> DEFINE th == [thread[s][w] EXCEPT !.phase = "done"]
        <5>1. thread' = [thread EXCEPT ![s][w] = th] /\ th.phase = "done"
          BY <2>1, <4>1 DEF Rollback, Threads
        <5> QED
          BY <4>1, <5>1 DEF Rollback
      <4>2. CASE Finish(s, w) \/ ReturnToNobody(s, w)
        <5>1. Idle.phase = "none"
          BY DEF Idle
        <5> QED
          BY <4>2, <5>1 DEF Finish, ReturnToNobody
      <4> QED
        BY <2>3, <4>1, <4>2
    <3>2. thread'[s][w] = th /\ \A v \in Worker : v # w => thread'[s][v] = thread[s][v]
      BY <2>1, <3>1
    <3>3. ToRun(s)' \subseteq ToRun(s)
      BY <2>1, <3>1, <3>2 DEF ToRun
    <3>4. \A t \in Server, v \in Worker : thread'[t][v].phase = "running" => thread'[t][v] = thread[t][v]
      BY <2>1, <3>1, <3>2
    <3> QED
      BY <1>3, <2>1, <3>1, <3>3, <3>4
  <2>4. CASE Begin(s, w)
    <3> DEFINE r == thread[s][w].rule
               th == [phase |-> IF Locked(r) THEN "done" ELSE "running", rule |-> r, day |-> Today]
    <3>1. /\ thread[s][w].phase = "called" /\ thread' = [thread EXCEPT ![s][w] = th]
          /\ UNCHANGED <<runs, raced, queue>>
      BY <2>4 DEF Begin
    <3>2. th.phase \in {"done", "running"} /\ th.rule = r /\ th.day = Today
      OBVIOUS
    <3> HIDE DEF th
    <3>3. thread'[s][w] = th /\ \A v \in Worker : v # w => thread'[s][v] = thread[s][v]
      BY <2>1, <3>1
    <3>4. ToRun(s)' \subseteq ToRun(s)
      BY <2>1, <3>1, <3>2, <3>3 DEF ToRun
    <3>5. r \in ToRun(s)
      BY <3>1 DEF ToRun, Staffed
    <3>6. Fresh(s)
      OBVIOUS
    <3>7. \A x \in ToRun(s)' \ raced : NoRunSince(x, Today)
      BY <3>4, <3>6 DEF Fresh
    <3>8. \A v \in Worker : thread'[s][v].phase = "running" /\ thread'[s][v].rule \notin raced =>
            NoRunSince(thread'[s][v].rule, thread'[s][v].day)
      BY <3>2, <3>3, <3>5, <3>6 DEF Fresh
    <3>9. Fresh(s)'
      BY <1>1, <2>1, <3>1, <3>7, <3>8, FreshKept
    <3> QED
      BY <1>1, <2>1, <3>1, <3>9 DEF OncePerDay
  <2>5. CASE Commit(s, w)
    <3> DEFINE r == thread[s][w].rule
               d == thread[s][w].day
    <3>1. /\ thread[s][w].phase = "running" /\ UNCHANGED queue
          /\ thread' = [thread EXCEPT ![s][w].phase = "done"]
          /\ runs' = [runs EXCEPT ![r][d] = runs[r][d] + 1]
          /\ raced' = raced \union {x \in {r} : fetched[s] # NoTick}
      BY <2>5 DEF Commit
    <3>2. r \in Rule /\ d \in Day /\ w \in Active(s) /\ runs \in [Rule -> [Day -> 0 .. MaxRuns]]
      BY <2>1, <3>1 DEF Staffed, Active, Threads, Types, TypeOK
    <3>3. /\ thread'[s][w].phase = "done"
          /\ \A v \in Worker : v # w => thread'[s][v] = thread[s][v]
      BY <2>1, <3>1 DEF Threads
    <3>4. \A v \in Active(s) : v # w => thread[s][v].rule # r
      BY <3>2 DEF Once
    <3>5. r \notin ToSet(queue[s])
      BY <3>2 DEF Once
    <3> HIDE DEF r, d
    <3>6. \A x \in Rule : x # r => runs'[x] = runs[x]
      BY <3>1, <3>2
    <3>7. \A x \in ToRun(s)' \ raced' : x \in ToRun(s) \ raced /\ x # r
      BY <2>1, <3>1, <3>3, <3>4, <3>5 DEF ToRun, Active
    <3>8. \A x \in ToRun(s)' \ raced' : NoRunSince(x, Today)'
      <4> TAKE x \in ToRun(s)' \ raced'
      <4>1. x \in Rule /\ x # r /\ NoRunSince(x, Today)
        BY <3>7 DEF Fresh, ToRun
      <4> QED
        BY <2>1, <3>6, <4>1 DEF NoRunSince
    <3>9. ASSUME NEW v \in Worker, thread'[s][v].phase = "running", thread'[s][v].rule \notin raced'
          PROVE  \A e \in Day : e >= thread'[s][v].day => runs'[thread'[s][v].rule][e] = 0
      <4>1. v # w /\ thread'[s][v] = thread[s][v] /\ v \in Active(s) /\ thread[s][v].rule \notin raced
        BY <3>1, <3>3, <3>9 DEF Active
      <4>2. thread[s][v].rule # r /\ thread[s][v].rule \in Rule
        BY <3>4, <4>1 DEF Staffed, Active
      <4>3. NoRunSince(thread[s][v].rule, thread[s][v].day)
        BY <3>9, <4>1 DEF Fresh
      <4> QED
        BY <3>6, <4>1, <4>2, <4>3 DEF NoRunSince
    <3>10. Fresh(s)'
      BY <3>8, <3>9 DEF Fresh, NoRunSince
    <3>11. ASSUME NEW x \in Rule \ raced', NEW e \in Day PROVE runs'[x][e] <= 1
      <4>1. x \notin raced /\ runs[x][e] <= 1
        BY <3>1, <3>11 DEF OncePerDay
      <4>2. CASE x = r /\ e = d
        <5>1. NoRunSince(r, d)
          BY <3>1, <4>1, <4>2 DEF Fresh, r, d
        <5>2. d >= d
          BY <3>2
        <5>3. runs[r][d] = 0
          BY <3>2, <5>1, <5>2 DEF NoRunSince
        <5> QED
          BY <3>1, <3>2, <4>2, <5>3
      <4>3. CASE ~(x = r /\ e = d)
        BY <3>1, <3>2, <4>1, <4>3
      <4> QED
        BY <4>2, <4>3
    <3> QED
      BY <1>1, <2>1, <3>10, <3>11 DEF OncePerDay
  <2> QED
    BY <1>8, <2>2, <2>3, <2>4, <2>5 DEF Work
<1> QED
  BY <1>4, <1>5, <1>6, <1>7, <1>8 DEF Next

-----------------------------------------------------------------------------
(* Theorems. *)

LEMMA AutomationAlways == Spec => []AutomationInv
<1>1. Init => AutomationInv
  BY AutomationInitOK DEF DailyInv
<1> QED
  BY <1>1, AutomationInductive, PTL DEF Spec

(* The variables keep their types, and no queue grows past its size. *)
THEOREM AutomationTyping == Spec => []TypeOK
<1>1. AutomationInv => TypeOK
  BY DEF AutomationInv, Types
<1> QED
  BY <1>1, AutomationAlways, PTL

(* _inflight names exactly what is queued or being run, over stops, crashes and
   restarts (enqueue, _worker_loop, stop).                                  *)
THEOREM InflightMatchesWork == Spec => []InflightIsWork
<1>1. AutomationInv => InflightIsWork
  BY DEF AutomationInv, Once, InflightIsWork
<1> QED
  BY <1>1, AutomationAlways, PTL

(* No rule is queued twice in a server, or queued while a worker runs it (enqueue). *)
THEOREM OneJobPerRule == Spec => []SingleJob
<1>1. AutomationInv => SingleJob
  BY DEF AutomationInv, Staffed, Once, SingleJob, JobsOf, BusyWorkers
<1> QED
  BY <1>1, AutomationAlways, PTL

(* On one server a rule runs at most once on a day, unless a run of it ended between
   a query and the use of its answer (_is_daily_rule_due, enqueue).          *)
THEOREM OnceADay ==
    ASSUME OneServer
    PROVE  Spec => []OncePerDay
<1>1. DailyInv /\ [Next]_vars => DailyInv'
  BY DailyInductive
<1>2. DailyInv => OncePerDay
  BY DEF DailyInv
<1> QED
  BY <1>1, <1>2, AutomationInitOK, PTL DEF Spec

=============================================================================
