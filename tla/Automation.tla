----------------------------- MODULE Automation -----------------------------
(* The daily automation rules of api/automation/scheduler.py: in each server
   process AutomationScheduler polls the database for rules that are due and
   queues them, and the workers of AutomationActionWorker run them, each in a
   thread and in a database transaction of its own.  Servers share nothing but
   the database: the rows of automation_runs and the advisory locks.

   A run that succeeds and one that fails in the action both leave a row; a run
   whose transaction fails leaves none.                                     *)
EXTENDS Integers, Sequences, FiniteSets, SequencesExt

CONSTANTS Server,     \* processes with a scheduler
          Worker,     \* worker tasks of a server (concurrency)
          Order,      \* the enabled rules, in the order the query lists them
          MaxBatch,   \* LIMIT of the query
          QueueSize,  \* maxsize of the queue
          Horizon,    \* bound of the model: half days
          MaxRuns,    \* bound of the model: rows of a rule on one day
          MaxFaults,  \* bound of the model: failed transactions, stops, crashes
          NoRule,     \* the rule of a thread that has none
          NoTick      \* no query is being answered

Rule == Range(Order)

ASSUME SizesAssumption ==
    /\ MaxBatch \in Nat \ {0} /\ QueueSize \in Nat \ {0}
    /\ Horizon \in Nat /\ MaxRuns \in Nat /\ MaxFaults \in Nat
ASSUME RuleAssumption == Order \in Seq(Rule) /\ IsInjective(Order) /\ NoRule \notin Rule

VARIABLES
    now,       \* half days: a rule is due in the second half of a day
    runs,      \* rows of automation_runs: how many per rule and day
    status,    \* state of each server
    fetched,   \* due rules that tick_once has found and not enqueued yet
    queue,     \* _queue of each server
    inflight,  \* _inflight of each server
    worker,    \* state of each worker task
    thread,    \* what the thread that a worker started is doing
    dropped,   \* history: rules in a queue that stop() threw away with no run going on
    raced,     \* history: rules of which a run ended between a query and the use of its answer
    faults     \* bound of the model

vars == <<now, runs, status, fetched, queue, inflight, worker, thread, dropped, raced, faults>>

\* "stopping": waits in _queue.join; "stopped": its threads may still run.
Status == {"up", "stopping", "stopped", "down"}
WorkerState == {"waiting", "busy", "exited"}

\* "called": before the transaction; "running": holds the lock; "done": returned.
Day == 0 .. Horizon \div 2
Threads == [phase : {"none", "called", "running", "done"},
            rule : Rule \union {NoRule}, day : Day]
Idle == [phase |-> "none", rule |-> NoRule, day |-> 0]

Today == now \div 2

Init ==
    /\ now = 0
    /\ runs = [r \in Rule |-> [d \in Day |-> 0]]
    /\ status = [s \in Server |-> "up"]
    /\ fetched = [s \in Server |-> NoTick]
    /\ queue = [s \in Server |-> <<>>]
    /\ inflight = [s \in Server |-> {}]
    /\ worker = [s \in Server |-> [w \in Worker |-> "waiting"]]
    /\ thread = [s \in Server |-> [w \in Worker |-> Idle]]
    /\ dropped = {}
    /\ raced = {}
    /\ faults = 0

-----------------------------------------------------------------------------
(* AutomationScheduler. *)

DueUnlessFuture(r) == now % 2 = 1 /\ \A d \in Day : d > Today => runs[r][d] = 0
\* _is_daily_rule_due: after its time, and the last run was on an earlier day.
Due(r) == now % 2 = 1 /\ \A d \in Day : d >= Today => runs[r][d] = 0

Batch == {Order[i] : i \in {j \in 1 .. Len(Order) : j <= MaxBatch}}

\* tick_once up to the end of the thread that runs the query; the clock is read just before.
Fetch(s) ==
    /\ status[s] = "up"
    /\ fetched[s] = NoTick
    /\ fetched' = [fetched EXCEPT ![s] = {r \in Batch : Due(r)}]
    /\ UNCHANGED <<now, runs, status, queue, inflight, worker, thread, dropped, raced, faults>>

\* What enqueue accepts.
Wanted(s) == fetched[s] \ inflight[s]

FreePlaces(s) == QueueSize - Len(queue[s])

\* q is listed before r.
Precedes(q, r) == \E i, j \in DOMAIN Order : i < j /\ Order[i] = q /\ Order[j] = r

\* What enqueue makes of the due rules, in the order of the query: it refuses what finds no room.
Accepted(s) ==
    {new \in UNION {[1 .. n -> Wanted(s)] : n \in 0 .. FreePlaces(s)} :
        /\ \A i, j \in DOMAIN new : i < j => Precedes(new[i], new[j])
        /\ \A r \in Wanted(s) \ ToSet(new) :
             Len(new) = FreePlaces(s) /\ \A q \in ToSet(new) : Precedes(q, r)}

\* The rest of tick_once: enqueue, for each due rule.
EnqueueDue(s) ==
    /\ status[s] = "up"
    /\ fetched[s] # NoTick
    /\ \E new \in Accepted(s) :
         /\ queue' = [queue EXCEPT ![s] = @ \o new]
         /\ inflight' = [inflight EXCEPT ![s] = @ \union ToSet(new)]
    /\ fetched' = [fetched EXCEPT ![s] = NoTick]
    /\ UNCHANGED <<now, runs, status, worker, thread, dropped, raced, faults>>

-----------------------------------------------------------------------------
(* AutomationActionWorker: _worker_loop and _execute_candidate. *)

\* A worker is woken by an item; stop() does not keep one that waits from taking it.
Take(s, w) ==
    /\ worker[s][w] = "waiting"
    /\ queue[s] # <<>>
    /\ queue' = [queue EXCEPT ![s] = Tail(@)]
    /\ worker' = [worker EXCEPT ![s][w] = "busy"]
    /\ thread' = [thread EXCEPT ![s][w] = [Idle EXCEPT !.phase = "called", !.rule = Head(queue[s])]]
    /\ UNCHANGED <<now, runs, status, fetched, inflight, dropped, raced, faults>>

\* pg_try_advisory_xact_lock fails while another transaction holds the lock.
Locked(r) == \E s \in Server, w \in Worker : thread[s][w].phase = "running" /\ thread[s][w].rule = r

(* The transaction begins with the attempt to take the lock; created_at of its
   row is the time at which it began.                                       *)
Begin(s, w) ==
    /\ thread[s][w].phase = "called"
    /\ LET r == thread[s][w].rule IN
       /\ runs[r][Today] < MaxRuns
       /\ thread' = [thread EXCEPT ![s][w] = [phase |-> IF Locked(r) THEN "done" ELSE "running",
                                              rule |-> r, day |-> Today]]
    /\ UNCHANGED <<now, runs, status, fetched, queue, inflight, worker, dropped, raced, faults>>

\* The transaction commits, its row says "success" or "failed".
Commit(s, w) ==
    /\ thread[s][w].phase = "running"
    /\ thread' = [thread EXCEPT ![s][w].phase = "done"]
    /\ runs' = [runs EXCEPT ![thread[s][w].rule][thread[s][w].day] = @ + 1]
    /\ raced' = raced \union {r \in {thread[s][w].rule} : fetched[s] # NoTick}
    /\ UNCHANGED <<now, status, fetched, queue, inflight, worker, dropped, faults>>

\* The connection or a statement fails.
Rollback(s, w) ==
    /\ thread[s][w].phase \in {"called", "running"}
    /\ faults < MaxFaults
    /\ faults' = faults + 1
    /\ thread' = [thread EXCEPT ![s][w].phase = "done"]
    /\ UNCHANGED <<now, runs, status, fetched, queue, inflight, worker, dropped, raced>>

NeverDiscarded(s, r) == inflight[s]
Discarded(s, r) == inflight[s] \ {r}

\* The worker publishes the result, in the same slice, and looks at _stopping.
Finish(s, w) ==
    /\ worker[s][w] = "busy"
    /\ thread[s][w].phase = "done"
    /\ thread' = [thread EXCEPT ![s][w] = Idle]
    /\ inflight' = [inflight EXCEPT ![s] = Discarded(s, thread[s][w].rule)]
    /\ worker' = [worker EXCEPT ![s][w] = IF status[s] = "up" THEN "waiting" ELSE "exited"]
    /\ UNCHANGED <<now, runs, status, fetched, queue, dropped, raced, faults>>

\* A thread whose worker was cancelled returns to nobody.
ReturnToNobody(s, w) ==
    /\ worker[s][w] = "exited"
    /\ thread[s][w].phase = "done"
    /\ thread' = [thread EXCEPT ![s][w] = Idle]
    /\ UNCHANGED <<now, runs, status, fetched, queue, inflight, worker, dropped, raced, faults>>

-----------------------------------------------------------------------------
(* stop, and the life of a process. *)

\* AutomationScheduler.stop cancels the poll and calls the worker's stop.
Stop(s) ==
    /\ status[s] = "up"
    /\ faults < MaxFaults
    /\ faults' = faults + 1
    /\ status' = [status EXCEPT ![s] = "stopping"]
    /\ fetched' = [fetched EXCEPT ![s] = NoTick]
    /\ UNCHANGED <<now, runs, queue, inflight, worker, thread, dropped, raced>>

BusyWorkers(s) == {w \in Worker : worker[s][w] = "busy"}

(* _queue.join ends, or its time is over: the workers are cancelled, not their
   threads, and what is left in the queue is thrown away.                   *)
StopWorkers(s) ==
    /\ status[s] = "stopping"
    /\ status' = [status EXCEPT ![s] = "stopped"]
    /\ worker' = [worker EXCEPT ![s] = [w \in Worker |-> "exited"]]
    /\ inflight' = [inflight EXCEPT ![s] = {}]
    /\ queue' = [queue EXCEPT ![s] = <<>>]
    /\ dropped' = dropped \union (IF BusyWorkers(s) = {} THEN ToSet(queue[s]) ELSE {})
    /\ UNCHANGED <<now, runs, fetched, thread, raced, faults>>

\* The process dies, and the database rolls its transactions back.
Crash(s) ==
    /\ status[s] # "down"
    /\ faults < MaxFaults
    /\ faults' = faults + 1
    /\ status' = [status EXCEPT ![s] = "down"]
    /\ fetched' = [fetched EXCEPT ![s] = NoTick]
    /\ queue' = [queue EXCEPT ![s] = <<>>]
    /\ inflight' = [inflight EXCEPT ![s] = {}]
    /\ worker' = [worker EXCEPT ![s] = [w \in Worker |-> "exited"]]
    /\ thread' = [thread EXCEPT ![s] = [w \in Worker |-> Idle]]
    /\ UNCHANGED <<now, runs, dropped, raced>>

\* A process ends when its threads have returned; a new one has an empty queue.
Restart(s) ==
    /\ status[s] \in {"stopped", "down"}
    /\ \A w \in Worker : thread[s][w] = Idle
    /\ status' = [status EXCEPT ![s] = "up"]
    /\ worker' = [worker EXCEPT ![s] = [w \in Worker |-> "waiting"]]
    /\ UNCHANGED <<now, runs, fetched, queue, inflight, thread, dropped, raced, faults>>

Tick ==
    /\ now < Horizon
    /\ now' = now + 1
    /\ UNCHANGED <<runs, status, fetched, queue, inflight, worker, thread, dropped, raced, faults>>

-----------------------------------------------------------------------------
(* Specifications. *)

Work(s, w) == Take(s, w) \/ Begin(s, w) \/ Finish(s, w) \/ ReturnToNobody(s, w)

Next ==
    \/ \E s \in Server : Fetch(s) \/ EnqueueDue(s) \/ Stop(s) \/ StopWorkers(s) \/ Crash(s) \/ Restart(s)
    \/ \E s \in Server, w \in Worker : Work(s, w) \/ Commit(s, w) \/ Rollback(s, w)
    \/ Tick

Spec == Init /\ [][Next]_vars

\* The event loop polls and steps its tasks; threads and transactions end.
Fairness ==
    \A s \in Server :
        /\ WF_vars(Fetch(s)) /\ WF_vars(EnqueueDue(s))
        /\ \A w \in Worker : WF_vars(Work(s, w)) /\ WF_vars(Commit(s, w))
LiveSpec == Spec /\ Fairness

-----------------------------------------------------------------------------
(* Properties. *)

\* Every variable holds values of its type.
TypeOK ==
    /\ now \in 0 .. Horizon
    /\ runs \in [Rule -> [Day -> 0 .. MaxRuns]]
    /\ status \in [Server -> Status]
    /\ \A s \in Server : fetched[s] = NoTick \/ fetched[s] \subseteq Rule
    /\ \A s \in Server : queue[s] \in Seq(Rule) /\ Len(queue[s]) <= QueueSize
    /\ inflight \in [Server -> SUBSET Rule]
    /\ worker \in [Server -> [Worker -> WorkerState]]
    /\ thread \in [Server -> [Worker -> Threads]]
    /\ dropped \subseteq Rule
    /\ raced \subseteq Rule
    /\ faults \in 0 .. MaxFaults

JobsOf(s) == {thread[s][w].rule : w \in BusyWorkers(s)}

(* _inflight names exactly the rules that are queued or being run: a rule left in
   it would never be enqueued again, one missing would be queued twice.     *)
InflightIsWork == \A s \in Server : inflight[s] = ToSet(queue[s]) \union JobsOf(s)

\* No rule is queued twice in a server, or queued while one of its workers runs it (enqueue).
SingleJob ==
    \A s \in Server :
        /\ IsInjective(queue[s])
        /\ ToSet(queue[s]) \intersect JobsOf(s) = {}
        /\ \A v, w \in BusyWorkers(s) : thread[s][v].rule = thread[s][w].rule => v = w

(* A daily rule runs at most once on a day in a server, over midnights, stops,
   crashes and restarts, unless one of its runs ended between a query of
   tick_once and the use of its answer (_is_daily_rule_due, enqueue).       *)
OncePerDay == \A r \in Rule \ raced, d \in Day : runs[r][d] <= 1

\* "false when already ran today" (test of _is_daily_rule_due), with no condition.
AlwaysOncePerDay == \A r \in Rule, d \in Day : runs[r][d] <= 1

\* "graceful shutdown draining" (BE-605): stop() lets the workers do what is queued.
DrainedAtStop == dropped = {}

\* A rule that is due is run, or its day ends, while a server is up (tick_once, enqueue).
RunsDaily == \A r \in Rule : Due(r) ~> (~Due(r) \/ \A s \in Server : status[s] # "up")
=============================================================================
