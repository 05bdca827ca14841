---------------------------- MODULE CLISessions ----------------------------
(* The Claude CLI processes of the messaging side: CLISessionManager
   (cli/manager.py), CLISession (cli/session.py) and the process registry
   (cli/process_registry.py), as the handler's tasks use them.

   A task asks the manager for a session, which gets a temporary id, spawns
   the session's process and reads its output.  The first line with a session
   id renames the session.  In the end the task has the session removed, which
   stops a process that still runs.  A task can be cancelled at any wait;
   /stop and the end of the application stop all sessions.

   Each task asks for a session of its own (session_id=None, handler.py:547),
   so a session, its process, its temporary id and the real id its process
   tells are all named by the task.                                        *)
EXTENDS FiniteSets, Naturals

CONSTANTS Task,      \* the handler's tasks
          MaxStops   \* bound: how often all sessions are stopped

ASSUME TasksAreFinite == IsFiniteSet(Task)
ASSUME MaxStopsIsNat == MaxStops \in Nat

\* Who holds the lock is named by the task, or by one of these two names.
ASSUME HoldersDiffer == "free" \notin Task /\ "all" \notin Task

VARIABLES
    pending,     \* sessions in _pending_sessions, under their temporary id
    sessions,    \* sessions in _sessions, under their real id
    links,       \* sessions in _temp_to_real and _real_to_temp
    holder,      \* who holds CLISessionManager._lock across a wait
    toStop,      \* stop_all's sessions still to be stopped
    stops,       \* how often stop_all has begun
    stage,       \* where each task is
    id,          \* the id the task will have removed
    generator,   \* start_task's generator
    cancelReq,   \* Task.cancel() was called, CancelledError not thrown yet
    cancelled,   \* history: tasks that were cancelled
    process,     \* the session's process
    stopping,    \* who waits in CLISession.stop for the process to end
    pids,        \* process_registry._pids
    dropped,     \* history: sessions without a process yet when stop_all stopped them
    exited       \* the application has ended

managerVars == <<pending, sessions, links, holder, toStop, stops>>
taskVars    == <<stage, id, generator, cancelReq, cancelled>>
processVars == <<process, stopping, pids>>
vars == <<managerVars, taskVars, processVars, dropped, exited>>

-----------------------------------------------------------------------------
(* Values. *)

(* "waiting": for a session; "spawning": in create_subprocess_exec; "reading":
   for output, in the generator; "handling": an event, outside of it;
   "renaming": waits for the lock to tell the real id; "draining": the output
   has ended, the process maybe not; "shielding": CancelledError was caught,
   waits for stop; "leaving": waits for the lock to have the session removed;
   "removing": waits for remove_session's stop.                             *)
Stages == {"waiting", "spawning", "reading", "handling", "renaming", "draining",
           "shielding", "leaving", "removing", "done"}
Working == Stages \ {"leaving", "removing", "done"}

Stoppers == {"shield", "remove", "all"}
NoHolder == "free"
StopAll  == "all"
Holders  == Task \union {NoHolder, StopAll}

Moves(t, s) == stage' = [stage EXCEPT ![t] = s]

\* The end of start_task's generator: its outer finally.
Unregister(t) == pids' = pids \ {t}
EndGenerator(t) == generator' = [generator EXCEPT ![t] = "ended"] /\ Unregister(t)

\* A CancelledError leaves the wait where it is thrown.
Cancelled(t) == cancelReq[t] /\ cancelReq' = [cancelReq EXCEPT ![t] = FALSE]
NotCancelled(t) == ~cancelReq[t] /\ UNCHANGED cancelReq

Init ==
    /\ pending = {} /\ sessions = {} /\ links = {}
    /\ holder = NoHolder /\ toStop = {} /\ stops = 0
    /\ stage = [t \in Task |-> "waiting"]
    /\ id = [t \in Task |-> "none"]
    /\ generator = [t \in Task |-> "none"]
    /\ cancelReq = [t \in Task |-> FALSE] /\ cancelled = {}
    /\ process = [t \in Task |-> "none"]
    /\ stopping = [t \in Task |-> {}]
    /\ pids = {}
    /\ dropped = {}
    /\ exited = FALSE

-----------------------------------------------------------------------------
(* A task's session and process. *)

\* get_or_create_session, and start_task up to the spawn: no wait in between.
GetSession(t) ==
    /\ stage[t] = "waiting" /\ NotCancelled(t)
    /\ holder = NoHolder
    /\ pending' = pending \union {t}
    /\ id' = [id EXCEPT ![t] = "temp"]
    /\ generator' = [generator EXCEPT ![t] = "open"]
    /\ Moves(t, "spawning")
    /\ UNCHANGED <<sessions, links, holder, toStop, stops, cancelled, processVars>>

CancelWaiting(t) ==
    /\ stage[t] = "waiting" /\ Cancelled(t)
    /\ Moves(t, "leaving")
    /\ UNCHANGED <<managerVars, id, generator, cancelled, processVars>>

SpawnedUnregistered(t) ==
    /\ stage[t] = "spawning" /\ NotCancelled(t)
    /\ process' = [process EXCEPT ![t] = "alive"]
    /\ Moves(t, "reading")
    /\ UNCHANGED <<managerVars, id, generator, cancelled, stopping, pids>>
Spawned(t) ==
    /\ stage[t] = "spawning" /\ NotCancelled(t)
    /\ process' = [process EXCEPT ![t] = "alive"]
    /\ pids' = pids \union {t}
    /\ Moves(t, "reading")
    /\ UNCHANGED <<managerVars, id, generator, cancelled, stopping>>

\* No executable, or a cancellation: asyncio kills the process it may have.
NotSpawned(t) ==
    /\ stage[t] = "spawning"
    /\ NotCancelled(t) \/ Cancelled(t)
    /\ EndGenerator(t)
    /\ Moves(t, "leaving")
    /\ UNCHANGED <<managerVars, id, cancelled, process, stopping>>

\* _extract_session_id looks for the id in each line until it has found one.
TellsSession(t) == id[t] = "temp"

\* A line of output: an event, or the first one that tells the session id.
Line(t) ==
    /\ stage[t] = "reading" /\ NotCancelled(t)
    /\ \/ Moves(t, "handling")
       \/ TellsSession(t) /\ Moves(t, "renaming")
    /\ UNCHANGED <<managerVars, id, generator, cancelled, processVars>>

Handled(t) ==
    /\ stage[t] = "handling" /\ NotCancelled(t)
    /\ Moves(t, "reading")
    /\ UNCHANGED <<managerVars, id, generator, cancelled, processVars>>

(* register_real_session_id: it finds nothing when stop_all has emptied the
   maps; the handler goes by the real id all the same.                      *)
Rename(t) ==
    /\ stage[t] = "renaming" /\ NotCancelled(t)
    /\ holder = NoHolder
    /\ IF t \in pending
       THEN /\ pending' = pending \ {t}
            /\ sessions' = sessions \union {t}
            /\ links' = links \union {t}
       ELSE UNCHANGED <<pending, sessions, links>>
    /\ id' = [id EXCEPT ![t] = "real"]
    /\ Moves(t, "reading")
    /\ UNCHANGED <<holder, toStop, stops, generator, cancelled, processVars>>

\* The end of the output, then of the process and of the generator.
EndOfOutput(t) ==
    /\ stage[t] = "reading" /\ NotCancelled(t)
    /\ Moves(t, "draining")
    /\ UNCHANGED <<managerVars, id, generator, cancelled, processVars>>

ProcessWaited(t) ==
    /\ stage[t] = "draining" /\ NotCancelled(t)
    /\ process[t] = "dead"
    /\ EndGenerator(t)
    /\ Moves(t, "leaving")
    /\ UNCHANGED <<managerVars, id, cancelled, process, stopping>>

(* An exception in the handler's loop, a cancellation there among them: the
   generator is left suspended and closed later, when the loop finds it.    *)
Raise(t) ==
    /\ stage[t] \in {"handling", "renaming"}
    /\ NotCancelled(t) \/ Cancelled(t)
    /\ generator' = [generator EXCEPT ![t] = "dropped"]
    /\ Moves(t, "leaving")
    /\ UNCHANGED <<managerVars, id, cancelled, processVars>>

\* GeneratorExit at the yield: no stop, only the outer finally.
CloseGenerator(t) ==
    /\ generator[t] = "dropped"
    /\ EndGenerator(t)
    /\ UNCHANGED <<managerVars, stage, id, cancelReq, cancelled, process, stopping>>

\* Past the output, nothing catches a CancelledError but the outer finally.
CancelDraining(t) ==
    /\ stage[t] = "draining" /\ Cancelled(t)
    /\ EndGenerator(t)
    /\ Moves(t, "leaving")
    /\ UNCHANGED <<managerVars, id, cancelled, process, stopping>>

-----------------------------------------------------------------------------
(* CLISession.stop: terminate, wait at most 5 s, kill, unregister. *)

Stops(t, who) == stopping' = [stopping EXCEPT ![t] = @ \union {who}]
Stopped(t, who) == stopping' = [stopping EXCEPT ![t] = @ \ {who}]

\* A CancelledError in the generator: stop, under a shield.
CancelReading(t) ==
    /\ stage[t] = "reading" /\ Cancelled(t)
    /\ IF process[t] = "alive" THEN Stops(t, "shield") ELSE UNCHANGED stopping
    /\ Moves(t, "shielding")
    /\ UNCHANGED <<managerVars, id, generator, cancelled, process, pids>>

ShieldStopped(t) ==
    /\ "shield" \in stopping[t] /\ process[t] = "dead"
    /\ Stopped(t, "shield")
    /\ Unregister(t)
    /\ UNCHANGED <<managerVars, taskVars, process>>

\* The stop is over, or a second cancellation ends the wait and not the stop.
ShieldLeft(t) ==
    /\ stage[t] = "shielding"
    /\ \/ Cancelled(t)
       \/ NotCancelled(t) /\ "shield" \notin stopping[t]
    /\ EndGenerator(t)
    /\ Moves(t, "leaving")
    /\ UNCHANGED <<managerVars, id, cancelled, process, stopping>>

\* The process ends by itself, on SIGTERM, or is killed by one that stops it.
ProcessEnds(t) ==
    /\ process[t] = "alive"
    /\ process' = [process EXCEPT ![t] = "dead"]
    /\ UNCHANGED <<managerVars, taskVars, stopping, pids>>
Kill(t) == stopping[t] # {} /\ ProcessEnds(t)

-----------------------------------------------------------------------------
(* The end of a task: remove_session, with the id the task knows. *)

FoundPending(t) == t \in pending
Found(t) == \/ id[t] = "temp" /\ t \in pending
            \/ id[t] = "real" /\ t \in sessions

\* CLISession.stop's test: is there a process to stop?
BusyOnly(t) == process[t] = "alive" /\ generator[t] = "open"
StillRuns(t) == process[t] = "alive"

\* The session leaves its map; the links stay until the process is gone.
RemoveSession(t) ==
    /\ stage[t] = "leaving" /\ NotCancelled(t)
    /\ holder = NoHolder \/ id[t] = "none"
    /\ IF Found(t)
       THEN /\ pending' = pending \ {t}
            /\ sessions' = sessions \ {t}
       ELSE UNCHANGED <<pending, sessions>>
    /\ IF Found(t) /\ StillRuns(t)
       THEN /\ holder' = t
            /\ Stops(t, "remove")
            /\ Moves(t, "removing")
            /\ UNCHANGED links
       ELSE /\ links' = IF Found(t) THEN links \ {t} ELSE links
            /\ Moves(t, "done")
            /\ UNCHANGED <<holder, stopping>>
    /\ UNCHANGED <<toStop, stops, id, generator, cancelled, process, pids>>

RemovedSession(t) ==
    /\ stage[t] = "removing" /\ NotCancelled(t)
    /\ process[t] = "dead"
    /\ Stopped(t, "remove")
    /\ Unregister(t)
    /\ links' = links \ {t}
    /\ holder' = NoHolder
    /\ Moves(t, "done")
    /\ UNCHANGED <<pending, sessions, toStop, stops, id, generator, cancelled, process>>

\* Cancelled once more: the removal is given up where it waits.
CancelLeaving(t) ==
    /\ stage[t] \in {"leaving", "removing"} /\ Cancelled(t)
    /\ Stopped(t, "remove")
    /\ holder' = IF holder = t THEN NoHolder ELSE holder
    /\ Moves(t, "done")
    /\ UNCHANGED <<pending, sessions, links, toStop, stops, id, generator, cancelled,
                   process, pids>>

-----------------------------------------------------------------------------
(* The others: the user cancels a task, all sessions are stopped, the end. *)

Cancel(t) ==
    /\ stage[t] # "done"
    /\ cancelReq' = [cancelReq EXCEPT ![t] = TRUE]
    /\ cancelled' = cancelled \union {t}
    /\ UNCHANGED <<managerVars, stage, id, generator, processVars>>

AllSessions == sessions \union pending

\* stop_all takes its list under the lock, which it keeps to the end.
StopAllBegin ==
    /\ stops < MaxStops
    /\ holder = NoHolder
    /\ holder' = StopAll
    /\ toStop' = AllSessions
    /\ stops' = stops + 1
    /\ UNCHANGED <<pending, sessions, links, taskVars, processVars>>

BeingStopped == {t \in toStop : "all" \in stopping[t]}

\* The next session's stop, which does nothing before its process is there.
StopNext ==
    /\ holder = StopAll /\ BeingStopped = {}
    /\ \E t \in toStop :
         IF StillRuns(t)
         THEN Stops(t, "all") /\ UNCHANGED <<toStop, dropped>>
         ELSE /\ toStop' = toStop \ {t}
              /\ dropped' = IF process[t] = "none" THEN dropped \union {t} ELSE dropped
              /\ UNCHANGED stopping
    /\ UNCHANGED <<pending, sessions, links, holder, stops, taskVars, process, pids>>

StoppedOne ==
    /\ \E t \in BeingStopped :
         /\ process[t] = "dead"
         /\ toStop' = toStop \ {t}
         /\ Stopped(t, "all")
         /\ Unregister(t)
    /\ UNCHANGED <<pending, sessions, links, holder, stops, taskVars, process>>

StopAllEnd ==
    /\ holder = StopAll /\ toStop = {}
    /\ pending' = {} /\ sessions' = {} /\ links' = {}
    /\ holder' = NoHolder
    /\ UNCHANGED <<toStop, stops, taskVars, processVars>>

\* _best_effort's timeout cancels the stop_all of the application's end.
StopAllCut ==
    /\ holder = StopAll
    /\ stops = MaxStops
    /\ holder' = NoHolder
    /\ toStop' = {}
    /\ stopping' = [t \in Task |-> stopping[t] \ {"all"}]
    /\ UNCHANGED <<pending, sessions, links, stops, taskVars, process, pids>>

\* The interpreter ends: kill_all_best_effort.
Exit ==
    /\ exited' = TRUE
    /\ process' = [t \in Task |-> IF t \in pids THEN "dead" ELSE process[t]]
    /\ pids' = {}
    /\ UNCHANGED <<managerVars, taskVars, stopping>>

-----------------------------------------------------------------------------
(* Specifications. *)

TaskStep(t) ==
    \/ GetSession(t) \/ CancelWaiting(t) \/ Spawned(t) \/ NotSpawned(t)
    \/ Line(t) \/ Handled(t) \/ Rename(t) \/ EndOfOutput(t) \/ ProcessWaited(t)
    \/ Raise(t) \/ CloseGenerator(t) \/ CancelDraining(t)
    \/ CancelReading(t) \/ ShieldStopped(t) \/ ShieldLeft(t)
    \/ RemoveSession(t) \/ RemovedSession(t) \/ CancelLeaving(t)

StopAllStep == StopNext \/ ((StoppedOne \/ StopAllEnd) /\ UNCHANGED dropped)

\* The application runs, and goes on running.
Runs(A) == ~exited /\ A /\ UNCHANGED exited

Step(may(_)) ==
    \/ \E t \in Task :
         Runs((TaskStep(t) \/ ProcessEnds(t) \/ (may(t) /\ Cancel(t))) /\ UNCHANGED dropped)
    \/ Runs((StopAllBegin \/ StopAllCut) /\ UNCHANGED dropped)
    \/ Runs(StopAllStep)
    \/ ~exited /\ Exit /\ UNCHANGED dropped

(* A task is cancelled at any time, or only once and at its work: nobody says
   /stop again while the first one takes effect.                            *)
Anytime(t) == TRUE
Once(t) == t \notin cancelled /\ stage[t] \in Working

Next == Step(Anytime)
PatientNext == Step(Once)

Fairness ==
    /\ \A t \in Task :
         /\ WF_vars(Runs(TaskStep(t) /\ UNCHANGED dropped))
         /\ WF_vars(Runs(Kill(t) /\ UNCHANGED dropped))
    /\ WF_vars(Runs(StopAllStep))

Spec == Init /\ [][Next]_vars /\ Fairness
PatientSpec == Init /\ [][PatientNext]_vars /\ Fairness

-----------------------------------------------------------------------------
(* Properties. *)

\* Every variable holds values of its type.
TypeOK ==
    /\ pending \subseteq Task /\ sessions \subseteq Task /\ links \subseteq Task
    /\ holder \in Holders
    /\ toStop \subseteq Task
    /\ stops \in 0 .. MaxStops
    /\ stage \in [Task -> Stages]
    /\ id \in [Task -> {"none", "temp", "real"}]
    /\ generator \in [Task -> {"none", "open", "dropped", "ended"}]
    /\ cancelReq \in [Task -> BOOLEAN]
    /\ cancelled \subseteq Task
    /\ process \in [Task -> {"none", "alive", "dead"}]
    /\ stopping \in [Task -> SUBSET Stoppers]
    /\ pids \subseteq Task
    /\ dropped \subseteq Task
    /\ exited \in BOOLEAN

(* What a finished task leaves behind: no running process, no session in a map
   ("Free the session-manager slot", handler.py:641), no entry that links two
   ids and, once its generator is closed, no pid that the end of the
   application would kill although it may be another program's by then.  Only
   a process that was being spawned when stop_all came to its session is
   missed by stop_all and, if its task fails outside the generator, never
   stopped.                                                                 *)
NothingLeft ==
    \A t \in Task : stage[t] = "done" =>
        /\ process[t] = "alive" => t \in dropped
        /\ t \notin pending \union sessions \union links
        /\ t \in pids => generator[t] = "dropped"

(* A process is never beyond reach: the end of the application kills it by its
   pid, or somebody already stops it, or its task will have it stopped and
   finds its session in the map.                                            *)
Reachable ==
    \A t \in Task : process[t] = "alive" =>
        \/ t \in pids
        \/ stopping[t] # {}
        \/ stage[t] = "leaving" /\ Found(t)
        \/ t \in dropped

(* "Cancelling the handler task should not leave a Claude CLI subprocess running
   in the background" (session.py:165): the task of a cancelled message ends,
   and its process is gone, unless stop_all missed it.                      *)
CancelledDies ==
    \A t \in Task :
        (t \in cancelled) ~> (exited \/ (stage[t] = "done" /\ (process[t] # "alive" \/ t \in dropped)))

(* "this kills subprocesses and ensures everything is dead" (handler.py:705). *)
EverythingDead ==
    [][holder = StopAll /\ toStop = {} /\ holder' = NoHolder /\ pending' = {}
         => \A t \in Task : process[t] # "alive"]_vars

=============================================================================
