---------------------------- MODULE SessionStore ----------------------------
(* The debounced saves of messaging/session.py (SessionStore).

   Two kinds of threads share the store: the event loop's thread changes it and
   flushes it, and timer threads save it.  The contents change under a lock,
   and a snapshot is taken under the lock, but the file is written outside it.
   Opening the file truncates it, and there is no rename: until a write is
   complete the file holds nothing that _load accepts.

   The contents are abstracted to a version, counted by the changes; what they
   are does not matter to when they are saved.                              *)
EXTENDS Integers, FiniteSets

CONSTANTS Timer,       \* timers the process ever starts (bound of the model)
          MainThread,  \* the thread of the event loop
          NoTimer,     \* Python's None
          MaxVersion   \* bound of the model: changes made

ASSUME ThreadAssumption == MainThread \notin Timer /\ NoTimer \notin Timer
ASSUME MaxVersionAssumption == MaxVersion \in Nat

VARIABLES
    mem,        \* version of _trees, _node_to_tree and _message_log
    dirty,      \* _dirty
    saveTimer,  \* _save_timer
    timer,      \* state of each timer thread
    writer,     \* state of each thread's _write_data
    snapshot,   \* the version each thread writes
    mixed,      \* threads whose open file another one has opened or written
    disk,       \* version in the file, or Torn
    cleared,    \* history: the last change was clear_all
    lost,       \* history: a write failed and nothing was changed since
    overlap,    \* history: the last snapshot was taken while another was being written
    flushed,    \* the lifespan's clean-up has called flush_pending_save
    exited      \* the process has ended

storeVars  == <<mem, dirty, saveTimer, timer>>
writeVars  == <<writer, snapshot, mixed, disk>>
historyVars == <<cleared, lost, overlap>>
exitVars   == <<flushed, exited>>
vars == <<storeVars, writeVars, historyVars, exitVars>>

Torn == -1   \* a file that _load cannot read

Thread == Timer \union {MainThread}

(* "armed": waits for its delay, can be cancelled; "fired": in _save_from_timer,
   before the lock; "over": cancelled, or past the lock.                    *)
TimerStates == {"unused", "armed", "fired", "over"}

\* "ready": holds a snapshot; "open": has opened the file; "failed": in the except.
WriterStates == {"none", "ready", "open", "failed"}

Writing == {w \in Thread : writer[w] # "none"}
OpenFiles == {w \in Thread : writer[w] = "open"}
Pending == {t \in Timer : timer[t] \in {"armed", "fired"}}

Init ==
    /\ mem = 0 /\ disk = 0
    /\ dirty = FALSE
    /\ saveTimer = NoTimer
    /\ timer = [t \in Timer |-> "unused"]
    /\ writer = [w \in Thread |-> "none"]
    /\ snapshot = [w \in Thread |-> 0]
    /\ mixed = {}
    /\ cleared = FALSE /\ lost = FALSE /\ overlap = FALSE
    /\ flushed = FALSE /\ exited = FALSE

-----------------------------------------------------------------------------
(* Sections under the lock. *)

\* Timer.cancel() has no effect on a timer that has fired.
Cancelled == IF saveTimer # NoTimer /\ timer[saveTimer] = "armed"
             THEN [timer EXCEPT ![saveTimer] = "over"]
             ELSE timer

RestartIfClean ==
    /\ dirty' = TRUE
    /\ IF dirty
       THEN UNCHANGED <<timer, saveTimer>>
       ELSE \E t \in Timer : /\ timer[t] = "unused"
                             /\ timer' = [timer EXCEPT ![t] = "armed"]
                             /\ saveTimer' = t
StopTheOld ==
    /\ dirty' = TRUE
    /\ timer' = Cancelled
    /\ IF timer' # timer THEN saveTimer' = NoTimer ELSE saveTimer' = saveTimer
\* _schedule_save.
ScheduleSave ==
    /\ dirty' = TRUE
    /\ \E t \in Timer : /\ timer[t] = "unused"
                        /\ timer' = [Cancelled EXCEPT ![t] = "armed"]
                        /\ saveTimer' = t

\* What _snapshot copies: called once the change is made.
Contents == mem'

\* _flush_save; the caller writes the snapshot.
FlushSave ==
    /\ timer' = Cancelled
    /\ saveTimer' = NoTimer
    /\ dirty' = FALSE
    /\ writer' = [writer EXCEPT ![MainThread] = "ready"]
    /\ snapshot' = [snapshot EXCEPT ![MainThread] = Contents]
    /\ overlap' = (Writing # {})

\* The loop's thread is not writing, and the process lives.
LoopFree == writer[MainThread] = "none" /\ ~exited

\* save_tree, register_node, remove_tree, remove_node_mappings, record_message_id,
\* sync_from_tree_data.
Change ==
    /\ LoopFree
    /\ mem < MaxVersion
    /\ mem' = mem + 1
    /\ ScheduleSave
    /\ cleared' = FALSE
    /\ lost' = FALSE
    /\ UNCHANGED <<writeVars, overlap, exitVars>>

\* clear_all, up to its write.
ClearAll ==
    /\ LoopFree
    /\ mem < MaxVersion
    /\ mem' = mem + 1
    /\ FlushSave
    /\ cleared' = TRUE
    /\ lost' = FALSE
    /\ UNCHANGED <<mixed, disk, exitVars>>

\* flush_pending_save, up to its write: the lifespan calls it when it begins to clean up.
FlushPendingSave ==
    /\ LoopFree
    /\ ~flushed
    /\ flushed' = TRUE
    /\ mem' = mem
    /\ FlushSave
    /\ lost' = FALSE
    /\ UNCHANGED <<mixed, disk, cleared, exited>>

\* The delay is over.
Fire(t) ==
    /\ timer[t] = "armed"
    /\ timer' = [timer EXCEPT ![t] = "fired"]
    /\ UNCHANGED <<mem, dirty, saveTimer, writeVars, historyVars, exitVars>>

\* _save_from_timer under the lock.
TakeSnapshot(t) ==
    /\ timer[t] = "fired"
    /\ timer' = [timer EXCEPT ![t] = "over"]
    /\ saveTimer' = NoTimer
    /\ IF dirty
       THEN /\ dirty' = FALSE
            /\ writer' = [writer EXCEPT ![t] = "ready"]
            /\ snapshot' = [snapshot EXCEPT ![t] = mem]
            /\ overlap' = (Writing # {})
       ELSE UNCHANGED <<dirty, writer, snapshot, overlap>>
    /\ UNCHANGED <<mem, mixed, disk, cleared, lost, exitVars>>

-----------------------------------------------------------------------------
(* _write_data, outside the lock. *)

\* open(path, "w") truncates the file.
Open(w) ==
    /\ writer[w] = "ready"
    /\ writer' = [writer EXCEPT ![w] = "open"]
    /\ disk' = Torn
    /\ mixed' = mixed \union OpenFiles \union {x \in {w} : OpenFiles # {}}
    /\ UNCHANGED <<storeVars, snapshot, historyVars, exitVars>>

(* The rest of the file is written and closed.  When two threads have the file
   open, the one that closes last leaves its own text, or a mixture.        *)
Close(w) ==
    /\ writer[w] = "open"
    /\ writer' = [writer EXCEPT ![w] = "none"]
    /\ disk' \in {snapshot[w]} \union {x \in {Torn} : w \in mixed}
    /\ mixed' = (mixed \union OpenFiles) \ {w}
    /\ UNCHANGED <<storeVars, snapshot, historyVars, exitVars>>

\* The file cannot be opened, or not be written to its end.
WriteFails(w) ==
    /\ writer[w] \in {"ready", "open"}
    /\ writer' = [writer EXCEPT ![w] = "failed"]
    /\ mixed' = mixed \ {w}
    /\ disk' \in {disk} \union {x \in {Torn} : writer[w] = "open"}
    /\ UNCHANGED <<storeVars, snapshot, historyVars, exitVars>>

\* The except of the three writers: the store is dirty, and no timer is started.
MarkDirty(w) ==
    /\ writer[w] = "failed"
    /\ writer' = [writer EXCEPT ![w] = "none"]
    /\ dirty' = TRUE
    /\ lost' = TRUE
    /\ UNCHANGED <<mem, saveTimer, timer, snapshot, mixed, disk, cleared, overlap, exitVars>>

(* After the flush the lifespan stops the platforms and the CLI sessions, while
   messages are still handled; then the process ends, and its timers with it:
   they are daemon threads.                                                 *)
Exit ==
    /\ LoopFree
    /\ flushed
    /\ exited' = TRUE
    /\ timer' = [t \in Timer |-> "over"]
    /\ writer' = [w \in Thread |-> "none"]
    /\ UNCHANGED <<mem, dirty, saveTimer, snapshot, mixed, disk, historyVars, flushed>>

-----------------------------------------------------------------------------
(* Specifications. *)

WriteStep(w) == Open(w) \/ Close(w) \/ MarkDirty(w)

Next ==
    \/ Change \/ ClearAll \/ FlushPendingSave \/ Exit
    \/ \E t \in Timer : Fire(t) \/ TakeSnapshot(t)
    \/ \E w \in Thread : WriteStep(w) \/ WriteFails(w)

Spec == Init /\ [][Next]_vars

\* Delays end, and threads get the lock and the processor.
Fairness == /\ \A t \in Timer : WF_vars(Fire(t)) /\ WF_vars(TakeSnapshot(t))
            /\ \A w \in Thread : WF_vars(WriteStep(w))
LiveSpec == Spec /\ Fairness

-----------------------------------------------------------------------------
(* Properties. *)

Version == 0 .. MaxVersion

\* Every variable holds values of its type.
TypeOK ==
    /\ mem \in Version
    /\ dirty \in BOOLEAN
    /\ saveTimer \in Timer \union {NoTimer}
    /\ timer \in [Timer -> TimerStates]
    /\ writer \in [Thread -> WriterStates]
    /\ snapshot \in [Thread -> Version]
    /\ mixed \subseteq Thread
    /\ disk \in Version \union {Torn}
    /\ cleared \in BOOLEAN /\ lost \in BOOLEAN /\ overlap \in BOOLEAN
    /\ flushed \in BOOLEAN /\ exited \in BOOLEAN

(* A dirty store has a timer that will save it, although a timer thread that
   was cancelled too late forgets the timer that replaced it (_schedule_save,
   _save_from_timer).  Only a failed write leaves it without one.           *)
DirtyHasTimer == dirty /\ ~exited => Pending # {} \/ lost

Quiet == Pending = {} /\ Writing = {}

(* When everything is at rest, the file holds the store, unless the last write
   failed or began before another had ended (_save_from_timer, clear_all).  *)
SavedWhenQuiet == Quiet /\ ~lost /\ ~overlap /\ ~exited => disk = mem

(* "Clear all stored sessions/trees/mappings and persist an empty store"
   (clear_all, session.py:211): the file does not hold older contents.      *)
ClearPersists == cleared /\ Quiet /\ ~lost /\ ~exited => disk = mem

(* "Call on shutdown to avoid losing data" (flush_pending_save, session.py:149):
   a process that has cleaned up has saved its last change.                 *)
SavedAtExit == exited /\ ~lost /\ ~overlap => disk = mem

(* Every change reaches the disk, itself or with a later one, unless a write
   fails, writes overlap, or the process ends.                              *)
EventuallySaved ==
    \A v \in 1 .. MaxVersion : mem = v ~> disk >= v \/ lost \/ overlap \/ exited
=============================================================================
