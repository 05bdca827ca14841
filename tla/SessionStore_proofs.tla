------------------------- MODULE SessionStore_proofs -------------------------
(* Proofs about SessionStore, for any number of timers and changes. *)
EXTENDS SessionStore, TLAPS

-----------------------------------------------------------------------------
(* The inductive invariant. *)

\* Only open files get mixed, and nothing does while one thread writes at a time.
OneWriter ==
    ~exited =>
        /\ mixed \subseteq OpenFiles
        /\ ~overlap => mixed = {} /\ \A v, w \in Writing : v = w

(* A clean store is in the file, or with the one thread that writes, if the
   last snapshot was taken when nobody wrote and no write has failed since.  *)
CleanIsSaved ==
    ~exited /\ ~dirty /\ ~lost /\ ~overlap =>
        IF Writing = {} THEN disk = mem ELSE \A w \in Writing : snapshot[w] = mem

\* A timer thread writes once, after its section under the lock.
WritesOnce == \A t \in Timer : writer[t] # "none" => timer[t] = "over"

StoreInv == TypeOK /\ DirtyHasTimer /\ OneWriter /\ CleanIsSaved /\ WritesOnce

-----------------------------------------------------------------------------
(* Lemmas about the sections under the lock. *)

\* Timer.cancel() of the store's timer.
LEMMA CancelledType ==
    ASSUME TypeOK
    PROVE  Cancelled \in [Timer -> TimerStates]
BY DEF TypeOK, Cancelled, TimerStates

\* Timers past the lock stay so.
LEMMA CancelledKeepsOver ==
    ASSUME TypeOK, NEW t \in Timer, timer[t] = "over"
    PROVE  Cancelled[t] = "over"
BY DEF TypeOK, Cancelled, TimerStates

\* _schedule_save leaves the store dirty, with an armed timer.
LEMMA ScheduleSaveOK ==
    ASSUME TypeOK, ScheduleSave
    PROVE  /\ dirty'
           /\ timer' \in [Timer -> TimerStates]
           /\ saveTimer' \in Timer
           /\ Pending' # {}
           /\ \A u \in Timer : timer[u] = "over" => timer'[u] = "over"
<1>1. PICK t \in Timer : /\ timer[t] = "unused"
                         /\ timer' = [Cancelled EXCEPT ![t] = "armed"]
                         /\ saveTimer' = t
  BY DEF ScheduleSave
<1>2. timer'[t] = "armed" /\ timer' \in [Timer -> TimerStates]
  BY <1>1, CancelledType DEF TimerStates
<1>3. ASSUME NEW u \in Timer, timer[u] = "over"
      PROVE  timer'[u] = "over"
  BY <1>1, <1>3, CancelledKeepsOver, CancelledType
<1> QED
  BY <1>1, <1>2, <1>3 DEF ScheduleSave, Pending

\* _flush_save leaves it clean; the loop's thread has the snapshot.
LEMMA FlushSaveOK ==
    ASSUME TypeOK, OneWriter, WritesOnce, LoopFree, FlushSave, mem' \in Version,
           UNCHANGED <<mixed, exited>>
    PROVE  /\ dirty' = FALSE /\ saveTimer' = NoTimer
           /\ timer' \in [Timer -> TimerStates]
           /\ writer' \in [Thread -> WriterStates]
           /\ snapshot' \in [Thread -> Version]
           /\ overlap' \in BOOLEAN
           /\ OneWriter' /\ WritesOnce'
           /\ Writing' # {}
           /\ ~overlap' => \A w \in Writing' : snapshot'[w] = mem'
<1> USE DEF Writing, OpenFiles, Thread, WriterStates
<1>1. /\ writer' = [writer EXCEPT ![MainThread] = "ready"]
      /\ snapshot' = [snapshot EXCEPT ![MainThread] = mem']
      /\ overlap' = (Writing # {})
  BY DEF FlushSave, Contents
<1>2. OneWriter'
  BY <1>1 DEF OneWriter, LoopFree, TypeOK
<1>3. ~overlap' => Writing' = {MainThread}
  BY <1>1 DEF TypeOK
<1>4. WritesOnce'
  BY <1>1, CancelledKeepsOver, ThreadAssumption DEF WritesOnce, FlushSave, TypeOK
<1> QED
  BY <1>1, <1>2, <1>3, <1>4, CancelledType DEF FlushSave, TypeOK

-----------------------------------------------------------------------------
(* Steps. *)

LEMMA StoreInitOK == Init => StoreInv
<1> SUFFICES ASSUME Init PROVE StoreInv
  OBVIOUS
<1>1. 0 \in Version /\ Writing = {} /\ OpenFiles = {}
  BY MaxVersionAssumption DEF Init, Version, Writing, OpenFiles
<1>2. TypeOK
  BY <1>1 DEF Init, TypeOK, TimerStates, WriterStates
<1> QED
  BY <1>1, <1>2 DEF Init, StoreInv, DirtyHasTimer, OneWriter, CleanIsSaved, WritesOnce, Thread

\* The event loop's thread.
LEMMA LoopStepOK ==
    ASSUME StoreInv, Change \/ ClearAll \/ FlushPendingSave \/ Exit
    PROVE  StoreInv'
<1> USE DEF StoreInv, writeVars, exitVars, historyVars, storeVars
<1>1. CASE Change
  <2>1. mem' \in Version
    BY <1>1, MaxVersionAssumption DEF Change, TypeOK, Version
  <2>2. TypeOK'
    BY <1>1, <2>1, ScheduleSaveOK DEF Change, TypeOK, ScheduleSave
  <2>3. OneWriter'
    BY <1>1 DEF Change, OneWriter, Writing, OpenFiles
  <2> QED
    BY <1>1, <2>2, <2>3, ScheduleSaveOK DEF Change, DirtyHasTimer, CleanIsSaved, WritesOnce
<1>2. CASE ClearAll \/ FlushPendingSave
  <2>1. mem' \in Version
    BY <1>2, MaxVersionAssumption DEF ClearAll, FlushPendingSave, TypeOK, Version
  <2>2. LoopFree /\ FlushSave /\ UNCHANGED <<mixed, disk, exited>>
    BY <1>2 DEF ClearAll, FlushPendingSave
  <2>3. /\ dirty' = FALSE /\ saveTimer' = NoTimer
        /\ timer' \in [Timer -> TimerStates]
        /\ writer' \in [Thread -> WriterStates]
        /\ snapshot' \in [Thread -> Version]
        /\ overlap' \in BOOLEAN
        /\ OneWriter' /\ WritesOnce'
        /\ Writing' # {}
        /\ ~overlap' => \A w \in Writing' : snapshot'[w] = mem'
    BY <2>1, <2>2, FlushSaveOK
  <2>4. cleared' \in BOOLEAN /\ lost' \in BOOLEAN /\ flushed' \in BOOLEAN
    BY <1>2 DEF ClearAll, FlushPendingSave, TypeOK
  <2>5. TypeOK'
    BY <1>2, <2>1, <2>2, <2>3, <2>4 DEF ClearAll, FlushPendingSave, TypeOK
  <2> QED
    BY <2>3, <2>5 DEF DirtyHasTimer, CleanIsSaved
<1>3. CASE Exit
  BY <1>3 DEF Exit, TypeOK, TimerStates, WriterStates, DirtyHasTimer, OneWriter, CleanIsSaved, WritesOnce
<1> QED
  BY <1>1, <1>2, <1>3

\* A timer's delay, and its section under the lock.
LEMMA TimerStepOK ==
    ASSUME StoreInv, NEW t \in Timer, Fire(t) \/ TakeSnapshot(t)
    PROVE  StoreInv'
<1> USE ThreadAssumption DEF StoreInv, writeVars, exitVars, historyVars, Writing, OpenFiles, Thread
<1>1. CASE Fire(t)
  <2>1. TypeOK' /\ Pending' = Pending
    BY <1>1 DEF Fire, TypeOK, TimerStates, Pending
  <2> QED
    BY <1>1, <2>1 DEF Fire, TypeOK, DirtyHasTimer, OneWriter, CleanIsSaved, WritesOnce
<1>2. CASE TakeSnapshot(t) /\ dirty
  <2>1. TypeOK'
    <3>1. /\ timer' = [timer EXCEPT ![t] = "over"] /\ saveTimer' = NoTimer /\ dirty' = FALSE
          /\ writer' = [writer EXCEPT ![t] = "ready"] /\ snapshot' = [snapshot EXCEPT ![t] = mem]
          /\ overlap' \in BOOLEAN
          /\ UNCHANGED <<mem, mixed, disk, cleared, lost, exitVars>>
      BY <1>2 DEF TakeSnapshot
    <3>2. timer' \in [Timer -> TimerStates] /\ writer' \in [Thread -> WriterStates]
      BY <3>1 DEF TypeOK, TimerStates, WriterStates
    <3>3. snapshot' \in [Thread -> Version]
      BY <3>1 DEF TypeOK
    <3> QED
      BY <3>1, <3>2, <3>3 DEF TypeOK, exitVars
  <2>2. ~dirty' /\ overlap' = (Writing # {})
    BY <1>2 DEF TakeSnapshot
  <2>3. ~overlap' => Writing' = {t} /\ snapshot'[t] = mem'
    BY <1>2, <2>2 DEF TakeSnapshot, TypeOK
  <2>4. OneWriter'
    <3>1. writer' = [writer EXCEPT ![t] = "ready"] /\ UNCHANGED <<mixed, exited>>
      BY <1>2 DEF TakeSnapshot
    <3>2. OpenFiles' = OpenFiles \ {t}
      BY <3>1 DEF TypeOK, WriterStates
    <3>3. writer[t] = "none"
      BY <1>2 DEF TakeSnapshot, WritesOnce
    <3> QED
      BY <2>2, <2>3, <3>1, <3>2, <3>3 DEF OneWriter, TypeOK
  <2>5. WritesOnce'
    BY <1>2 DEF TakeSnapshot, TypeOK, WritesOnce
  <2> QED
    BY <2>1, <2>2, <2>3, <2>4, <2>5 DEF DirtyHasTimer, CleanIsSaved
<1>3. CASE TakeSnapshot(t) /\ ~dirty
  BY <1>3 DEF TakeSnapshot, TypeOK, TimerStates, DirtyHasTimer, OneWriter, CleanIsSaved, WritesOnce
<1> QED
  BY <1>1, <1>2, <1>3

\* A thread's write.
LEMMA WriteOK ==
    ASSUME StoreInv, NEW w \in Thread, WriteStep(w) \/ WriteFails(w)
    PROVE  StoreInv'
<1> USE DEF StoreInv, storeVars, exitVars, historyVars, Writing, OpenFiles
<1>1. CASE Open(w)
  <2>1. TypeOK'
    BY <1>1 DEF Open, TypeOK, WriterStates
  <2>2. OneWriter' /\ CleanIsSaved'
    BY <1>1 DEF Open, TypeOK, WriterStates, OneWriter, CleanIsSaved
  <2>4. WritesOnce'
    BY <1>1 DEF Open, TypeOK, WritesOnce, Thread
  <2> QED
    BY <1>1, <2>1, <2>2, <2>4 DEF Open, DirtyHasTimer, Pending
<1>2. CASE Close(w)
  <2>1. TypeOK'
    BY <1>2 DEF Close, TypeOK, WriterStates
  <2>2. OneWriter'
    BY <1>2 DEF Close, TypeOK, WriterStates, OneWriter
  <2>3. CleanIsSaved'
    BY <1>2 DEF Close, TypeOK, WriterStates, OneWriter, CleanIsSaved
  <2>4. WritesOnce'
    BY <1>2 DEF Close, TypeOK, WritesOnce, Thread
  <2> QED
    BY <1>2, <2>1, <2>2, <2>3, <2>4 DEF Close, DirtyHasTimer, Pending
<1>3. CASE WriteFails(w)
  <2>1. TypeOK'
    BY <1>3 DEF WriteFails, TypeOK, WriterStates
  <2>2. OneWriter' /\ CleanIsSaved'
    BY <1>3 DEF WriteFails, TypeOK, WriterStates, OneWriter, CleanIsSaved
  <2>4. WritesOnce'
    BY <1>3 DEF WriteFails, TypeOK, WritesOnce, Thread
  <2> QED
    BY <1>3, <2>1, <2>2, <2>4 DEF WriteFails, DirtyHasTimer, Pending
<1>4. CASE MarkDirty(w)
  <2>1. TypeOK'
    BY <1>4 DEF MarkDirty, TypeOK, WriterStates
  <2>2. OneWriter'
    BY <1>4 DEF MarkDirty, TypeOK, WriterStates, OneWriter
  <2>4. WritesOnce'
    BY <1>4 DEF MarkDirty, TypeOK, WritesOnce, Thread
  <2> QED
    BY <1>4, <2>1, <2>2, <2>4 DEF MarkDirty, DirtyHasTimer, CleanIsSaved
<1> QED
  BY <1>1, <1>2, <1>3, <1>4 DEF WriteStep

LEMMA StoreInductive == StoreInv /\ [Next]_vars => StoreInv'
<1> SUFFICES ASSUME StoreInv, [Next]_vars PROVE StoreInv'
  OBVIOUS
<1>1. CASE UNCHANGED vars
  BY <1>1 DEF vars, storeVars, writeVars, historyVars, exitVars, StoreInv, TypeOK, DirtyHasTimer,
              OneWriter, CleanIsSaved, WritesOnce, Writing, OpenFiles, Pending
<1> QED
  BY <1>1, LoopStepOK, TimerStepOK, WriteOK DEF Next

-----------------------------------------------------------------------------
(* Theorems. *)

(* The variables keep their types. *)
THEOREM StoreTyping == Spec => []TypeOK
<1>1. StoreInv => TypeOK
  BY DEF StoreInv
<1> QED
  BY <1>1, StoreInitOK, StoreInductive, PTL DEF Spec

(* A dirty store has a timer that will save it, unless a write failed
   (_schedule_save, _save_from_timer).                                      *)
THEOREM DirtyStoreHasTimer == Spec => []DirtyHasTimer
<1>1. StoreInv => DirtyHasTimer
  BY DEF StoreInv
<1> QED
  BY <1>1, StoreInitOK, StoreInductive, PTL DEF Spec

(* At rest the file holds the store, unless the last write failed or began
   before another had ended (_save_from_timer, clear_all).                  *)
THEOREM StoreIsSaved == Spec => []SavedWhenQuiet
<1>1. StoreInv => SavedWhenQuiet
  BY DEF StoreInv, SavedWhenQuiet, Quiet, DirtyHasTimer, CleanIsSaved
<1> QED
  BY <1>1, StoreInitOK, StoreInductive, PTL DEF Spec

=============================================================================
