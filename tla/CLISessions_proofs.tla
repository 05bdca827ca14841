------------------------- MODULE CLISessions_proofs -------------------------
(* Proofs about CLISessions, for every set of tasks and any number of stop_all. *)
EXTENDS CLISessions, TLAPS

-----------------------------------------------------------------------------
(* The inductive invariant. *)

\* Where a task has a session: between get_or_create_session and its removal.
Started == {"spawning", "reading", "handling", "renaming", "draining", "shielding"}
Spoken  == Started \ {"spawning"}

(* A task that has not been cancelled twice leaves its work with no
   cancellation to come, and its shield only when the process is gone.      *)
Patient(t) ==
    /\ cancelReq[t] => t \in cancelled
    /\ stage[t] \notin Working => ~cancelReq[t]
    /\ stage[t] = "shielding" =>
         /\ t \in cancelled /\ ~cancelReq[t]
         /\ "shield" \notin stopping[t] => process[t] = "dead"

\* What the task knows of its session, and where its generator is.
Knows(t) ==
    /\ stage[t] = "waiting" => id[t] = "none" /\ generator[t] = "none"
    /\ stage[t] \in Started => id[t] # "none" /\ generator[t] = "open"
    /\ stage[t] \in {"spawning", "renaming"} => id[t] = "temp"
    /\ stage[t] \notin Started => generator[t] # "open"
    /\ id[t] = "none" => process[t] = "none"
    /\ stage[t] = "removing" => holder = t /\ "remove" \in stopping[t]

\* The session is in the map under the id by which the task will have it removed.
Filed(t) ==
    /\ t \in pending => id[t] = "temp" /\ stage[t] \in Started \union {"leaving"}
    /\ t \in sessions => id[t] = "real" /\ stage[t] \in Started \union {"leaving"}
    /\ t \in links => t \in sessions \/ stage[t] = "removing"

\* A process is in the registry until its task has done with it.
Registered(t) ==
    /\ process[t] = "alive" /\ stage[t] \in Started => t \in pids
    /\ t \in pids => generator[t] \in {"open", "dropped"} /\ process[t] # "none"
    /\ process[t] # "none" => stage[t] # "spawning"
    /\ stage[t] \in Spoken => process[t] # "none"

(* A session whose process may run is in the map until its task ends or has it
   removed, unless stop_all passed by before the process was there.         *)
Kept(t) ==
    /\ stage[t] \in Started \union {"leaving"} /\ id[t] # "none" /\ process[t] # "dead"
         => Found(t) \/ t \in dropped
    /\ stage[t] = "done" /\ process[t] = "alive" => t \in dropped

\* stop_all leaves nothing in the maps that it has not stopped.
Visited ==
    holder = StopAll => \A t \in AllSessions : t \in toStop \/ process[t] = "dead" \/ t \in dropped

Orderly(t) == Patient(t) /\ Knows(t) /\ Filed(t) /\ Registered(t) /\ Kept(t)

SessionInv ==
    /\ TypeOK
    /\ \A t \in Task : Orderly(t)
    /\ Visited

-----------------------------------------------------------------------------
(* Steps. *)

\* What a step of the task t does to the maps, the task and its process.
LEMMA TaskStepOK ==
    ASSUME SessionInv, NEW t \in Task, TaskStep(t), UNCHANGED <<dropped, exited>>
    PROVE  SessionInv'
<1> USE HoldersDiffer DEF SessionInv, Orderly, TypeOK, Patient, Knows, Filed, Registered, Kept, Visited,
        Found, AllSessions, Started, Spoken, Working, Stages, Stoppers, Holders, NoHolder, StopAll,
        managerVars, taskVars, processVars, Moves, Unregister, EndGenerator,
        Cancelled, NotCancelled, Stops, Stopped
<1>1. CASE GetSession(t)
  BY <1>1 DEF GetSession
<1>2. CASE CancelWaiting(t)
  BY <1>2 DEF CancelWaiting
<1>3. CASE Spawned(t)
  BY <1>3 DEF Spawned
<1>4. CASE NotSpawned(t)
  <2>1. TypeOK'
    <3>0. cancelReq' = cancelReq \/ cancelReq' = [cancelReq EXCEPT ![t] = FALSE]
      BY <1>4 DEF NotSpawned
    <3>1. /\ stage' \in [Task -> Stages]
          /\ generator' \in [Task -> {"none", "open", "dropped", "ended"}]
      BY <1>4 DEF NotSpawned
    <3>3. cancelReq' \in [Task -> BOOLEAN]
      <4>1. CASE cancelReq' = cancelReq
        BY <4>1
      <4>2. CASE cancelReq' = [cancelReq EXCEPT ![t] = FALSE]
        BY <4>2
      <4> QED
        BY <3>0, <4>1, <4>2
    <3>2. pids' \subseteq Task /\ cancelled' \subseteq Task
      BY <1>4 DEF NotSpawned
    <3> QED
      BY <1>4, <3>1, <3>3, <3>2 DEF NotSpawned
  <2>2. Orderly(t)'
    BY <1>4 DEF NotSpawned
  <2>3. ASSUME NEW u \in Task \ {t} PROVE Orderly(u)'
    BY <1>4, <2>3 DEF NotSpawned
  <2>4. Visited'
    BY <1>4 DEF NotSpawned
  <2> QED
    BY <2>1, <2>2, <2>3, <2>4
<1>5. CASE Line(t)
  <2>1. TypeOK'
    BY <1>5 DEF Line
  <2>2. Orderly(t)'
    <3>1. CASE Moves(t, "handling")
      BY <1>5, <3>1 DEF Line
    <3>2. CASE TellsSession(t) /\ Moves(t, "renaming")
      BY <1>5, <3>2 DEF Line, TellsSession
    <3> QED
      BY <1>5, <3>1, <3>2 DEF Line
  <2>3. ASSUME NEW u \in Task \ {t} PROVE Orderly(u)'
    BY <1>5, <2>3 DEF Line
  <2>4. Visited'
    BY <1>5 DEF Line
  <2> QED
    BY <2>1, <2>2, <2>3, <2>4
<1>6. CASE Handled(t)
  BY <1>6 DEF Handled
<1>7. CASE Rename(t)
  <2>1. TypeOK'
    <3>1. /\ pending' \subseteq pending
          /\ sessions' \subseteq sessions \union {t}
          /\ links' \subseteq links \union {t}
      BY <1>7 DEF Rename
    <3>2. /\ stage' \in [Task -> Stages]
          /\ id' \in [Task -> {"none", "temp", "real"}]
      BY <1>7 DEF Rename
    <3> QED
      BY <1>7, <3>1, <3>2 DEF Rename
  <2>2. Orderly(t)'
    BY <1>7 DEF Rename
  <2>3. ASSUME NEW u \in Task \ {t} PROVE Orderly(u)'
    BY <1>7, <2>3 DEF Rename
  <2>4. Visited'
    BY <1>7 DEF Rename
  <2> QED
    BY <2>1, <2>2, <2>3, <2>4
<1>8. CASE EndOfOutput(t)
  BY <1>8 DEF EndOfOutput
<1>9. CASE ProcessWaited(t)
  BY <1>9 DEF ProcessWaited
<1>10. CASE Raise(t)
  <2>1. TypeOK'
    <3>0. cancelReq' = cancelReq \/ cancelReq' = [cancelReq EXCEPT ![t] = FALSE]
      BY <1>10 DEF Raise
    <3>1. /\ stage' \in [Task -> Stages]
          /\ generator' \in [Task -> {"none", "open", "dropped", "ended"}]
      BY <1>10 DEF Raise
    <3>3. cancelReq' \in [Task -> BOOLEAN]
      <4>1. CASE cancelReq' = cancelReq
        BY <4>1
      <4>2. CASE cancelReq' = [cancelReq EXCEPT ![t] = FALSE]
        BY <4>2
      <4> QED
        BY <3>0, <4>1, <4>2
    <3> QED
      BY <1>10, <3>1, <3>3 DEF Raise
  <2>2. Orderly(t)'
    BY <1>10 DEF Raise
  <2>3. ASSUME NEW u \in Task \ {t} PROVE Orderly(u)'
    BY <1>10, <2>3 DEF Raise
  <2>4. Visited'
    BY <1>10 DEF Raise
  <2> QED
    BY <2>1, <2>2, <2>3, <2>4
<1>11. CASE CloseGenerator(t)
  BY <1>11 DEF CloseGenerator
<1>12. CASE CancelDraining(t)
  BY <1>12 DEF CancelDraining
<1>13. CASE CancelReading(t)
  <2>1. TypeOK'
    BY <1>13 DEF CancelReading
  <2>2. Orderly(t)'
    <3>1. CASE process[t] = "alive"
      BY <1>13, <3>1 DEF CancelReading
    <3>2. CASE process[t] # "alive"
      BY <1>13, <3>2 DEF CancelReading
    <3> QED
      BY <3>1, <3>2
  <2>3. ASSUME NEW u \in Task \ {t} PROVE Orderly(u)'
    BY <1>13, <2>3 DEF CancelReading
  <2>4. Visited'
    BY <1>13 DEF CancelReading
  <2> QED
    BY <2>1, <2>2, <2>3, <2>4
<1>14. CASE ShieldStopped(t)
  BY <1>14 DEF ShieldStopped
<1>15. CASE ShieldLeft(t)
  BY <1>15 DEF ShieldLeft
<1>16. CASE RemoveSession(t)
  <2>1. TypeOK'
    BY <1>16 DEF RemoveSession
  <2>2. Orderly(t)'
    <3>1. CASE Found(t) /\ StillRuns(t)
      BY <1>16, <3>1 DEF RemoveSession, StillRuns
    <3>2. CASE Found(t) /\ ~StillRuns(t)
      BY <1>16, <3>2 DEF RemoveSession, StillRuns
    <3>3. CASE ~Found(t)
      BY <1>16, <3>3 DEF RemoveSession
    <3> QED
      BY <3>1, <3>2, <3>3
  <2>3. ASSUME NEW u \in Task \ {t} PROVE Orderly(u)'
    BY <1>16, <2>3 DEF RemoveSession
  <2>4. Visited'
    BY <1>16 DEF RemoveSession
  <2> QED
    BY <2>1, <2>2, <2>3, <2>4
<1>17. CASE RemovedSession(t)
  BY <1>17 DEF RemovedSession
<1>18. CASE CancelLeaving(t)
  BY <1>18 DEF CancelLeaving
<1> QED
  BY <1>1, <1>2, <1>3, <1>4, <1>5, <1>6, <1>7, <1>8, <1>9, <1>10, <1>11, <1>12, <1>13, <1>14, <1>15, <1>16, <1>17, <1>18 DEF TaskStep

\* The end of a process, and a user who cancels a task once and at its work.
LEMMA ProcessStepOK ==
    ASSUME SessionInv, NEW t \in Task, UNCHANGED <<dropped, exited>>,
           ProcessEnds(t) \/ (Once(t) /\ Cancel(t))
    PROVE  SessionInv'
<1> USE HoldersDiffer DEF SessionInv, Orderly, TypeOK, Patient, Knows, Filed, Registered, Kept,
        Visited, Found, AllSessions, Started, Spoken, Working, Stages, Stoppers, Holders, NoHolder,
        StopAll, managerVars, taskVars, processVars
<1>1. CASE ProcessEnds(t)
  BY <1>1 DEF ProcessEnds
<1>2. CASE Once(t) /\ Cancel(t)
  BY <1>2 DEF Once, Cancel
<1> QED
  BY <1>1, <1>2

\* stop_all, whole or cut off by its timeout.
LEMMA StopAllOK ==
    ASSUME SessionInv, UNCHANGED exited,
           \/ (StopAllBegin \/ StopAllCut) /\ UNCHANGED dropped
           \/ StopAllStep
    PROVE  SessionInv'
<1> USE HoldersDiffer DEF SessionInv, Orderly, TypeOK, Patient, Knows, Filed, Registered, Kept,
        Visited, Found, AllSessions, Started, Spoken, Working, Stages, Stoppers, Holders, NoHolder,
        StopAll, managerVars, taskVars, processVars
<1>1. CASE StopAllBegin /\ UNCHANGED dropped
  BY <1>1, MaxStopsIsNat DEF StopAllBegin
<1>2. CASE StopAllCut /\ UNCHANGED dropped
  BY <1>2 DEF StopAllCut
<1>3. CASE StopNext
  <2>0. /\ holder = StopAll
        /\ UNCHANGED <<pending, sessions, links, holder, stops, taskVars, process, pids>>
    BY <1>3 DEF StopNext
  <2>1. PICK t \in toStop :
           IF StillRuns(t)
           THEN Stops(t, "all") /\ UNCHANGED <<toStop, dropped>>
           ELSE /\ toStop' = toStop \ {t}
                /\ dropped' = IF process[t] = "none" THEN dropped \union {t} ELSE dropped
                /\ UNCHANGED stopping
    BY <1>3 DEF StopNext
  <2>2. TypeOK'
    <3>1. /\ stopping' \in [Task -> SUBSET Stoppers]
          /\ toStop' \subseteq toStop
          /\ dropped' \subseteq dropped \union {t}
      BY <2>1 DEF Stops
    <3> QED
      BY <2>0, <3>1
  <2>3. CASE StillRuns(t)
    <3>1. ASSUME NEW u \in Task PROVE Orderly(u)'
      BY <2>0, <2>1, <2>3 DEF Stops
    <3>2. Visited'
      BY <2>0, <2>1, <2>3 DEF Stops
    <3> QED
      BY <2>2, <3>1, <3>2
  <2>4. CASE ~StillRuns(t) /\ process[t] = "none"
    <3>1. ASSUME NEW u \in Task PROVE Orderly(u)'
      BY <2>0, <2>1, <2>4 DEF StillRuns
    <3>2. Visited'
      BY <2>0, <2>1, <2>4 DEF StillRuns
    <3> QED
      BY <2>2, <3>1, <3>2
  <2>5. CASE ~StillRuns(t) /\ process[t] # "none"
    <3>1. ASSUME NEW u \in Task PROVE Orderly(u)'
      BY <2>0, <2>1, <2>5 DEF StillRuns
    <3>2. Visited'
      BY <2>0, <2>1, <2>5 DEF StillRuns
    <3> QED
      BY <2>2, <3>1, <3>2
  <2> QED
    BY <2>3, <2>4, <2>5 DEF StillRuns
<1>4. CASE StoppedOne /\ UNCHANGED dropped
  BY <1>4 DEF StoppedOne, BeingStopped, Stopped, Unregister
<1>5. CASE StopAllEnd /\ UNCHANGED dropped
  BY <1>5 DEF StopAllEnd
<1> QED
  BY <1>1, <1>2, <1>3, <1>4, <1>5 DEF StopAllStep

LEMMA SessionInitOK == Init => SessionInv
<1> USE HoldersDiffer DEF SessionInv, Orderly, TypeOK, Patient, Knows, Filed, Registered, Kept,
        Visited, Found, AllSessions, Started, Spoken, Working, Stages, Stoppers, Holders, NoHolder,
        StopAll, managerVars, taskVars, processVars
<1> SUFFICES ASSUME Init PROVE SessionInv
  OBVIOUS
<1>1. TypeOK
  <2>1. stops \in 0 .. MaxStops
    BY MaxStopsIsNat DEF Init
  <2>2. /\ stage \in [Task -> Stages]
        /\ stopping \in [Task -> SUBSET Stoppers]
    BY DEF Init
  <2> QED
    BY <2>1, <2>2 DEF Init
<1>2. ASSUME NEW t \in Task PROVE Orderly(t)
  BY DEF Init
<1>3. Visited
  BY DEF Init
<1> QED
  BY <1>1, <1>2, <1>3

LEMMA SessionInductive == SessionInv /\ [PatientNext]_vars => SessionInv'
<1> SUFFICES ASSUME SessionInv, [PatientNext]_vars PROVE SessionInv'
  OBVIOUS
<1>1. ASSUME NEW t \in Task,
             Runs((TaskStep(t) \/ ProcessEnds(t) \/ (Once(t) /\ Cancel(t))) /\ UNCHANGED dropped)
      PROVE  SessionInv'
  BY <1>1, TaskStepOK, ProcessStepOK DEF Runs
<1>2. CASE Runs((StopAllBegin \/ StopAllCut) /\ UNCHANGED dropped)
  BY <1>2, StopAllOK DEF Runs
<1>3. CASE Runs(StopAllStep)
  BY <1>3, StopAllOK DEF Runs
<1>4. CASE Exit /\ UNCHANGED dropped
  <2> USE DEF SessionInv, Orderly, TypeOK, Patient, Knows, Filed, Registered, Kept, Visited,
              Found, AllSessions, Started, Spoken, managerVars, taskVars
  <2>1. process' \in [Task -> {"none", "alive", "dead"}]
    BY <1>4 DEF Exit
  <2>2. TypeOK' /\ Visited'
    BY <1>4, <2>1 DEF Exit
  <2>3. ASSUME NEW t \in Task PROVE Orderly(t)'
    BY <1>4 DEF Exit
  <2> QED
    BY <2>2, <2>3
<1>5. CASE UNCHANGED vars
  BY <1>5 DEF vars, SessionInv, Orderly, TypeOK, Patient, Knows, Filed, Registered, Kept, Visited,
              Found, AllSessions, managerVars, taskVars, processVars
<1> QED
  BY <1>1, <1>2, <1>3, <1>4, <1>5 DEF PatientNext, Step

-----------------------------------------------------------------------------
(* Theorems. *)

(* The variables of a patient run keep their types. *)
THEOREM SessionTyping == PatientSpec => []TypeOK
<1>1. SessionInv => TypeOK
  BY DEF SessionInv
<1> QED
  BY <1>1, SessionInitOK, SessionInductive, PTL DEF PatientSpec

(* A finished task leaves no session, no link, no pid of a closed generator and,
   but for one that stop_all missed, no process (handler.py:641).           *)
THEOREM NothingIsLeft == PatientSpec => []NothingLeft
<1>1. SessionInv => NothingLeft
  BY DEF SessionInv, Orderly, Knows, Filed, Registered, Kept, NothingLeft, Started
<1> QED
  BY <1>1, SessionInitOK, SessionInductive, PTL DEF PatientSpec

(* No process is beyond reach: of the registry, of one who stops it, of its task.
   A task past its work that is not leaving is removing or done.            *)
THEOREM ProcessesAreReachable == PatientSpec => []Reachable
<1>1. SessionInv => Reachable
  <2> SUFFICES ASSUME SessionInv, NEW t \in Task, process[t] = "alive", t \notin pids,
                      stopping[t] = {}, t \notin dropped
               PROVE  stage[t] = "leaving" /\ Found(t)
    BY DEF Reachable
  <2>1. stage[t] \notin Started /\ stage[t] \notin {"done", "removing", "waiting"}
    BY DEF SessionInv, Orderly, Knows, Registered, Kept
  <2>2. stage[t] = "leaving" /\ id[t] # "none"
    BY <2>1 DEF SessionInv, TypeOK, Orderly, Knows, Stages, Started
  <2> QED
    BY <2>2 DEF SessionInv, Orderly, Kept
<1> QED
  BY <1>1, SessionInitOK, SessionInductive, PTL DEF PatientSpec

=============================================================================
