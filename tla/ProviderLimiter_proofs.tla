----------------------- MODULE ProviderLimiter_proofs -----------------------
(* For every number of callers, every limit and every window: the rolling window
   never gives a slot too many, and never lets a caller sleep while there is
   one.  For every number of requests, cap and delay besides: the provider's
   limiter, whose steps are steps of that window, keeps its rate and its
   concurrency, and a retry waits.                                          *)
EXTENDS ProviderLimiter, TLAPS, FiniteSetTheorems, SequenceTheorems

-----------------------------------------------------------------------------
(* SlidingWindow: the rolling window. *)

\* The deque holds the grants after the first d, and the first d are too old.
Suffix(d) ==
    /\ d \in 0 .. Len(grants)
    /\ Len(times) = Len(grants) - d
    /\ \A i \in 1 .. Len(times) : times[i] = grants[i + d]
    /\ \A i \in 1 .. d : grants[i] + Window <= now

Sorted ==
    /\ \A i \in DOMAIN grants : grants[i] <= now
    /\ \A i, j \in DOMAIN grants : i <= j => grants[i] <= grants[j]

\* A sleeper sleeps for the oldest grant of a full window.
SleepersInv ==
    \A c \in waiting :
        now < wake[c] => Len(times) = Limit /\ wake[c] = times[1] + Window

WindowInv ==
    /\ TypeOK
    /\ \E d \in Nat : Suffix(d)
    /\ Sorted
    /\ Len(times) <= Limit
    /\ RateBound
    /\ SleepersInv

-----------------------------------------------------------------------------
(* The initial state and the easy steps. *)

\* With no grant and nobody asleep there is nothing to show.
LEMMA InitOK == InitWindow => WindowInv
<1> SUFFICES ASSUME InitWindow PROVE WindowInv
  OBVIOUS
<1> USE DEF InitWindow
<1>1. TypeOK
  BY DEF TypeOK
<1>2. Suffix(0)
  BY DEF Suffix
<1>3. Sorted /\ Len(times) <= Limit /\ RateBound /\ SleepersInv
  BY LimitAssumption DEF Sorted, RateBound, SleepersInv
<1> QED
  BY <1>1, <1>2, <1>3 DEF WindowInv

\* Time only makes old grants older.
LEMMA TickOK == WindowInv /\ Tick => WindowInv'
<1> SUFFICES ASSUME WindowInv, Tick PROVE WindowInv'
  OBVIOUS
<1> USE WindowAssumption, LimitAssumption DEF WindowInv
<1>t. /\ now \in Nat /\ now' = now + 1
      /\ UNCHANGED <<times, waiting, wake, grants>>
  BY DEF Tick, TypeOK
<1>1. TypeOK'
  BY <1>t DEF TypeOK
<1>2. PICK d \in Nat : Suffix(d)
  OBVIOUS
<1>3. Suffix(d)'
  <2>1. d <= Len(grants) /\ grants \in Seq(Nat)
    BY <1>2 DEF TypeOK, Suffix
  <2>2. ASSUME NEW i \in 1 .. d PROVE grants[i] + Window <= now'
    <3>1. grants[i] \in Nat
      BY <1>2, <2>1
    <3>2. grants[i] + Window <= now
      BY <1>2 DEF Suffix
    <3> QED
      BY <1>t, <3>1, <3>2
  <2> QED
    BY <1>2, <1>t, <2>2 DEF Suffix
<1>4. Sorted'
  BY <1>t DEF Sorted, TypeOK
<1>5. RateBound'
  BY <1>t DEF RateBound
<1>6. SleepersInv'
  BY <1>t DEF SleepersInv, TypeOK
<1> QED
  BY <1>1, <1>2, <1>3, <1>4, <1>5, <1>6, <1>t

\* A cancelled caller leaves the others asleep.
LEMMA GiveUpOK == ASSUME NEW c \in Caller PROVE WindowInv /\ GiveUp(c) => WindowInv'
<1> SUFFICES ASSUME WindowInv, GiveUp(c) PROVE WindowInv'
  OBVIOUS
<1> USE DEF GiveUp, WindowInv
<1>1. TypeOK'
  BY DEF TypeOK
<1>2. (\E d \in Nat : Suffix(d))' /\ Sorted' /\ RateBound'
  BY DEF Suffix, Sorted, RateBound
<1>3. SleepersInv'
  BY DEF SleepersInv
<1> QED
  BY <1>1, <1>2, <1>3

-----------------------------------------------------------------------------
(* One turn of acquire's loop. *)

\* What the deque holds after old grants are taken out.
LEMMA Pruned ==
    ASSUME WindowInv, NEW d \in Nat, Suffix(d), NEW e \in 0 .. Len(times), Prune(e)
    PROVE  /\ Kept(e) \in Seq(Nat)
           /\ Len(Kept(e)) = Len(times) - e
           /\ \A i \in 1 .. Len(Kept(e)) : Kept(e)[i] = times[i + e]
           /\ \A i \in 1 .. Len(Kept(e)) : Kept(e)[i] = grants[i + (d + e)]
           /\ d + e \in 0 .. Len(grants)
           /\ \A i \in 1 .. d + e : grants[i] + Window <= now
<1> USE WindowAssumption
<1>1. times \in Seq(Nat) /\ grants \in Seq(Nat) /\ now \in Nat
  BY DEF WindowInv, TypeOK
<1>2. /\ Kept(e) \in Seq(Nat)
      /\ Len(Kept(e)) = Len(times) - e
      /\ \A i \in 1 .. Len(Kept(e)) : Kept(e)[i] = times[i + e]
  <2>1. Len(times) \in Nat /\ e \in Nat /\ e <= Len(times)
    BY <1>1
  <2>2. \A i \in (e + 1) .. Len(times) : times[i] \in Nat
    BY <1>1, <2>1
  <2>3. /\ Len(Kept(e)) = Len(times) - e
        /\ \A i \in 1 .. Len(times) - e : Kept(e)[i] = times[i + e]
    BY <1>1, <2>1 DEF Kept
  <2>4. Kept(e) \in Seq(Nat)
    BY <1>1, <2>1, <2>2 DEF Kept
  <2> QED
    BY <2>3, <2>4
<1>3. \A i \in 1 .. Len(Kept(e)) : Kept(e)[i] = grants[i + (d + e)]
  <2> SUFFICES ASSUME NEW i \in 1 .. Len(Kept(e))
               PROVE  Kept(e)[i] = grants[i + (d + e)]
    OBVIOUS
  <2>1. i + e \in 1 .. Len(times) /\ Kept(e)[i] = times[i + e]
    BY <1>1, <1>2
  <2>2. times[i + e] = grants[(i + e) + d]
    BY <2>1 DEF Suffix
  <2>3. (i + e) + d = i + (d + e)
    BY <1>1
  <2> QED
    BY <2>1, <2>2, <2>3
<1>4. d + e \in 0 .. Len(grants)
  BY <1>1 DEF Suffix
<1>5. \A i \in 1 .. d + e : grants[i] + Window <= now
  <2> SUFFICES ASSUME NEW i \in 1 .. d + e PROVE grants[i] + Window <= now
    OBVIOUS
  <2>1. CASE i <= d
    BY <2>1 DEF Suffix
  <2>2. CASE i > d
    <3>1. i - d \in 1 .. e /\ i - d \in 1 .. Len(times)
      BY <2>2, <1>1
    <3>2. times[i - d] = grants[(i - d) + d] /\ (i - d) + d = i
      BY <3>1, <1>1 DEF Suffix
    <3>3. times[i - d] <= now - Window /\ times[i - d] \in Nat
      BY <3>1, <1>1 DEF Prune
    <3> QED
      BY <3>2, <3>3, <1>1
  <2> QED
    BY <2>1, <2>2
<1> QED
  BY <1>2, <1>3, <1>4, <1>5

\* While somebody sleeps the window is full: nothing is taken out of it.
LEMMA NothingToPrune ==
    ASSUME WindowInv, NEW c \in waiting, now < wake[c],
           NEW e \in 0 .. Len(times), Prune(e)
    PROVE  e = 0 /\ Len(times) = Limit
<1>1. Len(times) = Limit /\ wake[c] = times[1] + Window
  BY DEF WindowInv, SleepersInv
<1>2. times[1] \in Nat /\ now \in Nat
  BY <1>1, LimitAssumption DEF WindowInv, TypeOK
<1>3. e < 1
  BY <1>1, <1>2, WindowAssumption DEF Prune
<1> QED
  BY <1>1, <1>3

\* A slot is given: nobody is asleep for it.
LEMMA GrantOK == ASSUME NEW c \in Caller PROVE WindowInv /\ Grant(c) => WindowInv'
<1> SUFFICES ASSUME WindowInv, Grant(c) PROVE WindowInv'
  OBVIOUS
<1> USE WindowAssumption, LimitAssumption
<1>1. PICK e \in 0 .. Len(times) :
        Prune(e) /\ Room(e) /\ times' = Append(Kept(e), now)
  BY DEF Grant
<1>2. PICK d \in Nat : Suffix(d)
  BY DEF WindowInv
<1>t. /\ times \in Seq(Nat) /\ grants \in Seq(Nat) /\ now \in Nat
      /\ waiting \subseteq Caller /\ wake \in [Caller -> Nat]
  BY DEF WindowInv, TypeOK
<1>u. /\ now' = now /\ wake' = wake /\ waiting' = waiting \ {c}
      /\ grants' = Append(grants, now)
  BY DEF Grant
<1>k. /\ Kept(e) \in Seq(Nat)
      /\ Len(Kept(e)) = Len(times) - e
      /\ \A i \in 1 .. Len(Kept(e)) : Kept(e)[i] = grants[i + (d + e)]
      /\ d + e \in 0 .. Len(grants)
      /\ \A i \in 1 .. d + e : grants[i] + Window <= now
  BY <1>1, <1>2, Pruned
<1>g. /\ Len(grants') = Len(grants) + 1
      /\ \A i \in 1 .. Len(grants) : grants'[i] = grants[i]
      /\ grants'[Len(grants) + 1] = now
  BY <1>t, <1>u
<1>l. Len(times) = Len(grants) - d
  BY <1>2 DEF Suffix
<1>3. TypeOK'
  BY <1>1, <1>k, <1>t, <1>u DEF TypeOK
<1>4. Suffix(d + e)'
  <2>0. /\ Len(times') = Len(Kept(e)) + 1
        /\ \A i \in 1 .. Len(Kept(e)) : times'[i] = Kept(e)[i]
        /\ times'[Len(Kept(e)) + 1] = now
    BY <1>1, <1>k, <1>t
  <2>n. Len(grants) \in Nat /\ Len(Kept(e)) = Len(grants) - (d + e)
    BY <1>k, <1>l, <1>t
  <2>1. Len(times') = Len(grants') - (d + e)
    BY <2>0, <2>n, <1>g
  <2>2. ASSUME NEW i \in 1 .. Len(times') PROVE times'[i] = grants'[i + (d + e)]
    <3>1. CASE i \in 1 .. Len(Kept(e))
      <4>1. i + (d + e) \in 1 .. Len(grants)
        BY <3>1, <2>n
      <4> QED
        BY <3>1, <4>1, <2>0, <1>k, <1>g
    <3>2. CASE i = Len(Kept(e)) + 1
      <4>1. i + (d + e) = Len(grants) + 1
        BY <3>2, <2>n
      <4> QED
        BY <3>2, <4>1, <2>0, <1>g
    <3> QED
      BY <3>1, <3>2, <2>0, <2>n
  <2>3. \A i \in 1 .. d + e : grants'[i] + Window <= now'
    BY <1>k, <1>g, <1>u
  <2> QED
    BY <2>1, <2>2, <2>3, <1>k, <1>g, <1>t DEF Suffix
<1>5. Sorted'
  <2>1. \A i \in 1 .. Len(grants) : grants[i] <= now /\ grants[i] \in Nat
    BY <1>t DEF WindowInv, Sorted
  <2>2. \A i, j \in 1 .. Len(grants) : i <= j => grants[i] <= grants[j]
    BY <1>t DEF WindowInv, Sorted
  <2>3. DOMAIN grants' = 1 .. Len(grants) + 1
    BY <1>t, <1>u
  <2>4. \A i \in DOMAIN grants' : grants'[i] <= now'
    BY <2>1, <2>3, <1>g, <1>t, <1>u
  <2>5. ASSUME NEW i \in DOMAIN grants', NEW j \in DOMAIN grants', i <= j
        PROVE  grants'[i] <= grants'[j]
    <3>n. Len(grants) \in Nat
      BY <1>t
    <3>1. CASE j \in 1 .. Len(grants)
      <4>1. i \in 1 .. Len(grants)
        BY <3>1, <2>3, <2>5, <3>n
      <4> QED
        BY <3>1, <4>1, <2>2, <2>5, <1>g
    <3>2. CASE j = Len(grants) + 1
      <4>1. grants'[j] = now /\ now \in Nat
        BY <3>2, <1>g, <1>t
      <4>2. CASE i = j
        BY <4>1, <4>2
      <4>3. CASE i # j
        <5>1. i \in 1 .. Len(grants)
          BY <4>3, <3>2, <2>3, <3>n
        <5> QED
          BY <5>1, <4>1, <2>1, <1>g
      <4> QED
        BY <4>2, <4>3
    <3> QED
      BY <3>1, <3>2, <2>3, <3>n
  <2> QED
    BY <2>4, <2>5 DEF Sorted
<1>6. Len(times') <= Limit
  BY <1>1, <1>k, <1>t DEF Room
<1>7. RateBound'
  <2> SUFFICES ASSUME NEW i \in DOMAIN grants', i + Limit \in DOMAIN grants'
               PROVE  grants'[i + Limit] >= grants'[i] + Window
    BY DEF RateBound
  <2>1. i \in 1 .. Len(grants) /\ i + Limit \in 1 .. Len(grants) + 1
    BY <1>t, <1>u
  <2>2. CASE i + Limit \in 1 .. Len(grants)
    <3>1. grants[i + Limit] >= grants[i] + Window
      <4>1. i \in DOMAIN grants /\ i + Limit \in DOMAIN grants
        BY <2>1, <2>2, <1>t
      <4>2. RateBound
        BY DEF WindowInv
      <4> QED
        BY <4>1, <4>2 DEF RateBound
    <3> QED
      BY <2>1, <2>2, <3>1, <1>g
  <2>3. CASE i + Limit = Len(grants) + 1
    <3>1. i <= d + e
      BY <2>1, <2>3, <1>1, <1>l, <1>t DEF Room
    <3>2. grants[i] + Window <= now /\ grants'[i] = grants[i]
      BY <2>1, <3>1, <1>k, <1>g
    <3> QED
      BY <2>1, <2>3, <3>2, <1>g, <1>t
  <2> QED
    BY <2>1, <2>2, <2>3
<1>8. SleepersInv'
  <2> SUFFICES ASSUME NEW s \in waiting, now < wake[s] PROVE FALSE
    BY <1>u DEF SleepersInv
  <2>1. e = 0 /\ Len(times) = Limit
    BY <1>1, NothingToPrune
  <2> QED
    BY <2>1, <1>1 DEF Room
<1>9. d + e \in Nat
  BY <1>t
<1> QED
  BY <1>3, <1>4, <1>5, <1>6, <1>7, <1>8, <1>9 DEF WindowInv

\* No slot: the caller sleeps for the oldest grant, as the others do.
LEMMA RefuseOK == ASSUME NEW c \in Caller PROVE WindowInv /\ Refuse(c) => WindowInv'
<1> SUFFICES ASSUME WindowInv, Refuse(c) PROVE WindowInv'
  OBVIOUS
<1> USE WindowAssumption, LimitAssumption
<1>1. PICK e \in 0 .. Len(times) :
        /\ Prune(e)
        /\ ~Room(e)
        /\ times' = Kept(e)
        /\ wake' = [wake EXCEPT ![c] = OldestLeaves(e)]
  BY DEF Refuse
<1>2. PICK d \in Nat : Suffix(d)
  BY DEF WindowInv
<1>t. /\ times \in Seq(Nat) /\ grants \in Seq(Nat) /\ now \in Nat
      /\ waiting \subseteq Caller /\ wake \in [Caller -> Nat]
  BY DEF WindowInv, TypeOK
<1>u. now' = now /\ grants' = grants /\ waiting' = waiting \union {c}
  BY DEF Refuse
<1>k. /\ Kept(e) \in Seq(Nat)
      /\ Len(Kept(e)) = Len(times) - e
      /\ \A i \in 1 .. Len(Kept(e)) : Kept(e)[i] = times[i + e]
      /\ \A i \in 1 .. Len(Kept(e)) : Kept(e)[i] = grants[i + (d + e)]
      /\ d + e \in 0 .. Len(grants)
      /\ \A i \in 1 .. d + e : grants[i] + Window <= now
  BY <1>1, <1>2, Pruned
<1>l. Len(times) = Len(grants) - d /\ Len(times) <= Limit
  BY <1>2 DEF Suffix, WindowInv
<1>n. /\ Len(times) = Limit /\ e = 0
      /\ times' = Kept(0) /\ Len(times') = Limit /\ times'[1] = times[1]
      /\ wake'[c] = times[1] + Window /\ times[1] \in Nat
  <2>0. ~(Len(times) - e < Limit) /\ Len(times) \in Nat
    BY <1>1, <1>t DEF Room
  <2>1. Len(times) = Limit /\ e = 0
    BY <2>0, <1>l
  <2>2. Len(times') = Limit /\ times'[1] = times[1] /\ times[1] \in Nat
    BY <2>1, <1>1, <1>k, <1>t
  <2>3. wake'[c] = times[1] + Window
    BY <2>1, <1>1, <1>t DEF OldestLeaves
  <2> QED
    BY <2>1, <2>2, <2>3, <1>1
<1>3. TypeOK'
  <2>1. wake' \in [Caller -> Nat]
    BY <1>1, <1>n, <1>t
  <2> QED
    BY <2>1, <1>1, <1>k, <1>t, <1>u DEF TypeOK
<1>4. Suffix(d + e)'
  BY <1>1, <1>k, <1>l, <1>u, <1>t DEF Suffix
<1>5. Sorted' /\ RateBound'
  BY <1>u DEF WindowInv, Sorted, RateBound
<1>6. SleepersInv'
  <2> SUFFICES ASSUME NEW s \in waiting \union {c}, now < wake'[s]
               PROVE  Len(times') = Limit /\ wake'[s] = times'[1] + Window
    BY <1>u DEF SleepersInv
  <2>1. CASE s = c
    BY <2>1, <1>n
  <2>2. CASE s # c
    <3>1. s \in waiting /\ wake'[s] = wake[s]
      BY <2>2, <1>1, <1>t
    <3>2. wake[s] = times[1] + Window
      BY <3>1 DEF WindowInv, SleepersInv
    <3> QED
      BY <3>1, <3>2, <1>n
  <2> QED
    BY <2>1, <2>2
<1>9. d + e \in Nat
  BY <1>t
<1> QED
  BY <1>3, <1>4, <1>5, <1>6, <1>9, <1>n DEF WindowInv

-----------------------------------------------------------------------------
(* The theorems. *)

\* Every step keeps the invariant.
LEMMA WindowInductive == WindowInv /\ [Next]_windowVars => WindowInv'
<1> SUFFICES ASSUME WindowInv, [Next]_windowVars PROVE WindowInv'
  OBVIOUS
<1>1. CASE Tick
  BY <1>1, TickOK
<1>2. ASSUME NEW c \in Caller, Grant(c) \/ Refuse(c) \/ GiveUp(c) PROVE WindowInv'
  BY <1>2, GrantOK, RefuseOK, GiveUpOK
<1>3. CASE UNCHANGED windowVars
  BY <1>3 DEF windowVars, WindowInv, TypeOK, Suffix, Sorted, RateBound, SleepersInv
<1> QED
  BY <1>1, <1>2, <1>3 DEF Next

\* The invariant says what the callers see.
LEMMA WindowInvSays == WindowInv => TypeOK /\ RateBound /\ NoIdleSleep
<1> SUFFICES ASSUME WindowInv PROVE NoIdleSleep
  BY DEF WindowInv
<1> SUFFICES ASSUME NEW c \in waiting, now < wake[c]
             PROVE  /\ Len(grants) >= Limit
                    /\ grants[Len(grants) - Limit + 1] > now - Window
  BY DEF NoIdleSleep
<1>1. PICK d \in Nat : Suffix(d)
  BY DEF WindowInv
<1>2. Len(times) = Limit /\ wake[c] = times[1] + Window
  BY DEF WindowInv, SleepersInv
<1>3. Len(times) = Len(grants) - d /\ times[1] = grants[1 + d]
  BY <1>1, <1>2, LimitAssumption DEF Suffix
<1>4. grants \in Seq(Nat) /\ now \in Nat /\ 1 + d \in DOMAIN grants
  BY <1>2, <1>3, LimitAssumption DEF WindowInv, TypeOK
<1>5. Len(grants) - Limit + 1 = 1 + d /\ Len(grants) >= Limit
  BY <1>2, <1>3, <1>4, LimitAssumption
<1> QED
  BY <1>2, <1>3, <1>4, <1>5, WindowAssumption

(* The variables keep their types, for any number of callers. *)
THEOREM WindowTyping == Spec => []TypeOK
<1>1. Spec => []WindowInv
  BY InitOK, WindowInductive, PTL DEF Spec
<1> QED
  BY <1>1, WindowInvSays, PTL

(* acquire gives at most Limit slots in any interval of length Window, for
   every limit, window and number of callers.                               *)
THEOREM AtMostLimit == Spec => []RateBound
<1>1. Spec => []WindowInv
  BY InitOK, WindowInductive, PTL DEF Spec
<1> QED
  BY <1>1, WindowInvSays, PTL

(* A caller sleeps in acquire only while the window is full. *)
THEOREM NobodySleepsForNothing == Spec => []NoIdleSleep
<1>1. Spec => []WindowInv
  BY InitOK, WindowInductive, PTL DEF Spec
<1> QED
  BY <1>1, WindowInvSays, PTL

-----------------------------------------------------------------------------
(* ProviderLimiter. *)

\* What one request does, the clock left aside.
RequestStep(r) ==
    \/ Queue(r) \/ Enter(r) \/ Admit(r) \/ BlockOver(r) \/ WindowTurn(r)
    \/ TooMany(r) \/ BackoffOver(r)
    \/ Answered(r) \/ Fails(r) \/ FailsBy429(r) \/ End(r)
    \/ CancelQueued(r) \/ Cancel(r) \/ Abandon(r) \/ Collected(r)

\* Steps of a request that leave the semaphore alone.
Quiet(r) ==
    \/ BlockOver(r) \/ WindowTurn(r) \/ TooMany(r) \/ BackoffOver(r)
    \/ Answered(r) \/ Fails(r) \/ FailsBy429(r) \/ Abandon(r)

\* Steps that leave the slot.
Exits(r) == End(r) \/ Cancel(r) \/ Collected(r)

\* Of the requests that go on, only those asleep in a block or a backoff have
\* an alarm in the future.
AlarmInv ==
    \A r \in Caller : stage[r] \notin {"blocked", "backoff", "ended"} => alarm[r] <= now

ProviderInv == WindowInv /\ ProviderTypeOK /\ AlarmInv

\* The line holds queued requests, each once, and slots are handed to them.
LineInv ==
    /\ \A i, j \in DOMAIN line : line[i] = line[j] => i = j
    /\ \A i \in DOMAIN line : stage[line[i]] = "queued"
    /\ \A r \in woken : stage[r] = "queued"

\* Each slot is somewhere, and one that is free has somebody who passes it on.
SlotInv ==
    /\ IsFiniteSet(woken) /\ IsFiniteSet(Holders)
    /\ SlotsReturned
    /\ free > 0 /\ Asleep(line, woken) # {} => woken # {}

-----------------------------------------------------------------------------
(* The rolling window: every step of a request is one of its steps. *)

\* The block's test and the window's turn.
LEMMA WaitSteps ==
    ASSUME NEW r \in Caller
    PROVE  /\ TryWindow(r) => [Next]_windowVars
           /\ WaitIfBlocked(r) => [Next]_windowVars
  BY DEF WaitIfBlocked, TryWindow, Next

\* Every step of a request.
LEMMA RequestDrivesWindow ==
    ASSUME NEW r \in Caller, RequestStep(r) PROVE [Next]_windowVars
<1>1. CASE Enter(r) \/ Admit(r)
  BY <1>1, WaitSteps DEF Enter, Admit
<1>2. CASE BlockOver(r)
  BY <1>2, WaitSteps DEF BlockOver
<1>3. CASE WindowTurn(r)
  BY <1>3, WaitSteps DEF WindowTurn
<1>4. CASE BackoffOver(r)
  BY <1>4, WaitSteps DEF BackoffOver
<1>5. CASE Cancel(r)
  <2>1. CASE r \in waiting
    BY <1>5, <2>1 DEF Cancel, GiveUp, Next
  <2>2. CASE r \notin waiting
    BY <1>5, <2>2 DEF Cancel, windowVars
  <2> QED
    BY <2>1, <2>2
<1>6. CASE Queue(r) \/ TooMany(r) \/ Answered(r) \/ Fails(r) \/ FailsBy429(r)
  BY <1>6 DEF Queue, TooMany, Answered, Fails, FailsBy429
<1>7. CASE End(r) \/ CancelQueued(r) \/ Abandon(r) \/ Collected(r)
  BY <1>7 DEF End, CancelQueued, Abandon, Collected
<1> QED
  BY <1>1, <1>2, <1>3, <1>4, <1>5, <1>6, <1>7 DEF RequestStep

\* Every step of the limiter and its requests.
LEMMA ProviderDrivesWindow == [ProviderNext]_vars => [Next]_windowVars
<1>1. Time => [Next]_windowVars
  BY DEF Time, Next
<1>2. UNCHANGED vars => UNCHANGED windowVars
  BY DEF vars
<1>3. ProviderNext => Time \/ \E r \in Caller : RequestStep(r)
  BY DEF ProviderNext, RequestStep
<1> QED
  BY <1>1, <1>2, <1>3, RequestDrivesWindow

(* What the requests do to the window is what SlidingWindow allows
   (wait_if_blocked, _acquire_proactive_slot).                              *)
THEOREM ProviderImplementsWindow == ProviderSpec => Spec
<1>1. Init => InitWindow
  BY DEF Init
<1> QED
  BY <1>1, ProviderDrivesWindow, PTL DEF ProviderSpec, Spec

(* At most Limit requests are sent to the provider in any window, whatever
   blocks, retries and cancellations come between (execute_with_retry).     *)
THEOREM ProviderRate == ProviderSpec => []RateBound
  BY ProviderImplementsWindow, AtMostLimit, PTL

-----------------------------------------------------------------------------
(* The semaphore's operations. *)

\* What _wake_up_next, called up to n times, does with `value` slots.
LEMMA WakeUpGives ==
    ASSUME NEW q \in Seq(Caller), NEW w \in SUBSET Caller,
           NEW value \in Nat, NEW n \in Nat, n <= value, WakeUp(q, w, value, n)
    PROVE  /\ line' = q /\ free' \in Nat
           /\ w \subseteq woken' /\ woken' \subseteq w \union Range(q)
           /\ IsFiniteSet(w) =>
                /\ IsFiniteSet(woken')
                /\ free' + Cardinality(woken') = value + Cardinality(w)
           /\ Asleep(line', woken') # {} => free' = value - n
<1>1. PICK S \in FirstAsleep(q, w, n) :
        line' = q /\ woken' = w \union S /\ free' = value - Cardinality(S)
  BY DEF WakeUp
<1>2. /\ S \subseteq Asleep(q, w)
      /\ Cardinality(S) <= n
      /\ Cardinality(S) < n => S = Asleep(q, w)
  BY DEF FirstAsleep
<1>3. IsFiniteSet(Range(q))
  <2>1. IsFiniteSet(1 .. Len(q))
    BY FS_Interval
  <2>2. q \in Surjection(1 .. Len(q), Range(q))
    BY DEF Range, Surjection
  <2> QED
    BY <2>1, <2>2, FS_Surjection
<1>4. IsFiniteSet(S) /\ Cardinality(S) \in Nat
  BY <1>2, <1>3, FS_Subset, FS_CardinalityType DEF Asleep
<1>5. w \intersect S = {}
  BY <1>2 DEF Asleep
<1>6. ASSUME IsFiniteSet(w)
      PROVE  /\ IsFiniteSet(woken')
             /\ free' + Cardinality(woken') = value + Cardinality(w)
  <2>1. /\ IsFiniteSet(w \union S)
        /\ Cardinality(w \union S) = Cardinality(w) + Cardinality(S) - Cardinality({})
    BY <1>4, <1>5, <1>6, FS_Union
  <2>2. Cardinality({}) = 0 /\ Cardinality(w) \in Nat
    BY <1>6, FS_EmptySet, FS_CardinalityType
  <2> QED
    BY <2>1, <2>2, <1>1, <1>4
<1>7. ASSUME Asleep(line', woken') # {} PROVE free' = value - n
  <2>1. S # Asleep(q, w)
    BY <1>7, <1>1 DEF Asleep
  <2>2. Cardinality(S) = n
    BY <2>1, <1>2, <1>4
  <2> QED
    BY <2>2, <1>1
<1>8. w \subseteq woken' /\ woken' \subseteq w \union Range(q)
  BY <1>1, <1>2 DEF Asleep
<1>9. line' = q /\ free' \in Nat
  BY <1>1, <1>2, <1>4
<1> QED
  BY <1>6, <1>7, <1>8, <1>9

\* The line without its i-th waiter.
LEMMA WithoutOne ==
    ASSUME line \in Seq(Caller), NEW i \in DOMAIN line
    PROVE  /\ Without(i) \in Seq(Caller)
           /\ \A j \in DOMAIN Without(i) :
                \E k \in DOMAIN line \ {i} : Without(i)[j] = line[k]
           /\ \A j, k \in DOMAIN Without(i) : \E a, b \in DOMAIN line \ {i} :
                /\ Without(i)[j] = line[a] /\ Without(i)[k] = line[b]
                /\ a = b => j = k
<1> DEFINE At(j) == IF j < i THEN j ELSE j + 1
<1>1. i \in 1 .. Len(line) /\ Len(line) \in Nat
  OBVIOUS
<1>2. /\ Without(i) \in Seq(Caller)
      /\ Len(Without(i)) = Len(line) - 1
      /\ \A j \in 1 .. Len(line) - 1 : Without(i)[j] = line[At(j)]
  <2>1. /\ SubSeq(line, 1, i - 1) \in Seq(Caller)
        /\ Len(SubSeq(line, 1, i - 1)) = i - 1
        /\ \A j \in 1 .. i - 1 : SubSeq(line, 1, i - 1)[j] = line[j]
    BY <1>1, SubSeqProperties
  <2>2. /\ SubSeq(line, i + 1, Len(line)) \in Seq(Caller)
        /\ Len(SubSeq(line, i + 1, Len(line))) = Len(line) - i
        /\ \A j \in 1 .. Len(line) - i :
             SubSeq(line, i + 1, Len(line))[j] = line[i + j]
    BY <1>1, SubSeqProperties
  <2> HIDE DEF At
  <2>3. /\ Without(i) \in Seq(Caller)
        /\ Len(Without(i)) = (i - 1) + (Len(line) - i)
    BY <2>1, <2>2, ConcatProperties DEF Without
  <2>4. ASSUME NEW j \in 1 .. Len(line) - 1 PROVE Without(i)[j] = line[At(j)]
    <3>1. CASE j < i
      BY <3>1, <2>1, <2>2, <1>1, ConcatProperties DEF Without, At
    <3>2. CASE j >= i
      <4> DEFINE s == SubSeq(line, 1, i - 1)
                 t == SubSeq(line, i + 1, Len(line))
      <4>1. Without(i)[j] = t[j - (i - 1)]
        <5>1. s \in Seq(Caller) /\ t \in Seq(Caller) /\ Len(s) = i - 1
              /\ Len(t) = Len(line) - i
          BY <2>1, <2>2
        <5>2. j \in 1 .. Len(s) + Len(t) /\ ~(j <= Len(s))
          BY <5>1, <3>2, <1>1
        <5> HIDE DEF s, t
        <5>3. (s \o t)[j] = t[j - Len(s)]
          BY <5>1, <5>2, ConcatProperties
        <5> QED
          BY <5>1, <5>3 DEF Without, s, t
      <4>2. j - (i - 1) \in 1 .. Len(line) - i /\ i + (j - (i - 1)) = j + 1
        BY <3>2, <1>1
      <4>3. t[j - (i - 1)] = line[i + (j - (i - 1))]
        BY <4>2, <2>2
      <4>4. At(j) = j + 1
        BY <3>2, <1>1 DEF At
      <4> HIDE DEF t
      <4> QED
        BY <4>1, <4>2, <4>3, <4>4
    <3> QED
      BY <3>1, <3>2
  <2> QED
    BY <2>3, <2>4, <1>1
<1>3. \A j \in 1 .. Len(line) - 1 : At(j) \in DOMAIN line \ {i}
  BY <1>1
<1>4. \A j, k \in 1 .. Len(line) - 1 : At(j) = At(k) => j = k
  BY <1>1
<1>5. DOMAIN Without(i) = 1 .. Len(line) - 1
  BY <1>1, <1>2
<1> HIDE DEF At
<1>6. \A j \in DOMAIN Without(i) :
        \E k \in DOMAIN line \ {i} : Without(i)[j] = line[k]
  BY <1>2, <1>3, <1>5
<1>7. ASSUME NEW j \in DOMAIN Without(i), NEW k \in DOMAIN Without(i)
      PROVE  \E a, b \in DOMAIN line \ {i} :
               /\ Without(i)[j] = line[a] /\ Without(i)[k] = line[b]
               /\ a = b => j = k
  <2>1. At(j) \in DOMAIN line \ {i} /\ At(k) \in DOMAIN line \ {i}
    BY <1>3, <1>5
  <2>2. Without(i)[j] = line[At(j)] /\ Without(i)[k] = line[At(k)]
    BY <1>2, <1>5
  <2> QED
    BY <2>1, <2>2, <1>4, <1>5
<1> QED
  BY <1>2, <1>6, <1>7

\* A waiter leaves the line.
LEMMA LeaveGives ==
    ASSUME ProviderTypeOK, LineInv, NEW r \in Caller, NEW value \in Nat, Leave(r, value)
    PROVE  /\ line' \in Seq(Caller) /\ free' \in Nat /\ woken' \subseteq Caller
           /\ \A i, j \in DOMAIN line' : line'[i] = line'[j] => i = j
           /\ \A i \in DOMAIN line' : stage[line'[i]] = "queued" /\ line'[i] # r
           /\ \A c \in woken' : stage[c] = "queued" /\ c # r
           /\ IsFiniteSet(woken) =>
                /\ IsFiniteSet(woken')
                /\ free' + Cardinality(woken') = value + Cardinality(woken \ {r})
           /\ Asleep(line', woken') # {} => free' = 0
<1>t. line \in Seq(Caller) /\ woken \subseteq Caller
  BY DEF ProviderTypeOK
<1>1. PICK i \in DOMAIN line :
        line[i] = r /\ WakeUp(Without(i), woken \ {r}, value, value)
  BY DEF Leave
<1>2. /\ Without(i) \in Seq(Caller)
      /\ \A j \in DOMAIN Without(i) :
           \E k \in DOMAIN line \ {i} : Without(i)[j] = line[k]
      /\ \A j, k \in DOMAIN Without(i) : \E a, b \in DOMAIN line \ {i} :
           /\ Without(i)[j] = line[a] /\ Without(i)[k] = line[b]
           /\ a = b => j = k
  BY <1>t, WithoutOne
<1>3. /\ line' = Without(i) /\ free' \in Nat
      /\ woken' \subseteq (woken \ {r}) \union Range(Without(i))
      /\ IsFiniteSet(woken \ {r}) =>
           /\ IsFiniteSet(woken')
           /\ free' + Cardinality(woken') = value + Cardinality(woken \ {r})
      /\ Asleep(line', woken') # {} => free' = value - value
  <2> DEFINE q == Without(i)  w == woken \ {r}
  <2>1. /\ q \in Seq(Caller) /\ w \in SUBSET Caller /\ value <= value
        /\ WakeUp(q, w, value, value)
    BY <1>1, <1>2, <1>t
  <2> HIDE DEF q, w
  <2>2. /\ line' = q /\ free' \in Nat /\ woken' \subseteq w \union Range(q)
        /\ IsFiniteSet(w) =>
             /\ IsFiniteSet(woken')
             /\ free' + Cardinality(woken') = value + Cardinality(w)
        /\ Asleep(line', woken') # {} => free' = value - value
    BY <2>1, WakeUpGives
  <2> QED
    BY <2>2 DEF q, w
<1>4. \A j \in DOMAIN line' : stage[line'[j]] = "queued" /\ line'[j] # r
  BY <1>1, <1>2, <1>3 DEF LineInv
<1>5. \A j, k \in DOMAIN line' : line'[j] = line'[k] => j = k
  BY <1>2, <1>3 DEF LineInv
<1>6. \A c \in woken' : c \in Caller /\ stage[c] = "queued" /\ c # r
  <2> SUFFICES ASSUME NEW c \in woken'
               PROVE  c \in Caller /\ stage[c] = "queued" /\ c # r
    OBVIOUS
  <2>1. CASE c \in woken \ {r}
    BY <2>1, <1>t DEF LineInv
  <2>2. CASE c \in Range(Without(i))
    <3>1. PICK j \in DOMAIN Without(i) : c = Without(i)[j]
      BY <2>2 DEF Range
    <3>2. Without(i)[j] \in Caller
      BY <1>2, <3>1
    <3> QED
      BY <3>1, <3>2, <1>3, <1>4
  <2> QED
    BY <2>1, <2>2, <1>3
<1>7. IsFiniteSet(woken) => IsFiniteSet(woken \ {r})
  BY FS_RemoveElement
<1> QED
  BY <1>2, <1>3, <1>4, <1>5, <1>6, <1>7

\* A slot is given back.
LEMMA ReleaseGives ==
    ASSUME ProviderTypeOK, LineInv, Release
    PROVE  /\ line' = line /\ free' \in Nat /\ woken' \subseteq Caller
           /\ woken \subseteq woken'
           /\ \A c \in woken' : stage[c] = "queued"
           /\ IsFiniteSet(woken) =>
                /\ IsFiniteSet(woken')
                /\ free' + Cardinality(woken') = free + 1 + Cardinality(woken)
           /\ Asleep(line', woken') # {} => free' = free
<1>t. line \in Seq(Caller) /\ woken \subseteq Caller /\ free \in Nat
  BY DEF ProviderTypeOK
<1>1. /\ line' = line /\ free' \in Nat
      /\ woken \subseteq woken' /\ woken' \subseteq woken \union Range(line)
      /\ IsFiniteSet(woken) =>
           /\ IsFiniteSet(woken')
           /\ free' + Cardinality(woken') = (free + 1) + Cardinality(woken)
      /\ Asleep(line', woken') # {} => free' = (free + 1) - 1
  <2>1. WakeUp(line, woken, free + 1, 1) /\ free + 1 \in Nat /\ 1 <= free + 1
    BY <1>t DEF Release
  <2> QED
    BY <2>1, <1>t, WakeUpGives
<1>2. \A c \in Range(line) : c \in Caller /\ stage[c] = "queued"
  BY <1>t DEF Range, LineInv
<1> QED
  BY <1>1, <1>2, <1>t DEF LineInv

\* What a step of a request does to its stage and to nobody else's.
LEMMA StageStep ==
    ASSUME ProviderTypeOK, NEW r \in Caller, RequestStep(r)
    PROVE  /\ \A c \in Caller \ {r} : stage'[c] = stage[c]
           /\ Queue(r) => stage[r] = "new" /\ stage'[r] = "queued"
           /\ Enter(r) => stage[r] = "new" /\ stage'[r] \in Holding
           /\ Admit(r) => stage[r] = "queued" /\ stage'[r] \in Holding
           /\ Quiet(r) => stage[r] \in Holding /\ stage'[r] \in Holding
           /\ Exits(r) => stage[r] \in Holding /\ stage'[r] = "ended"
           /\ CancelQueued(r) => stage[r] = "queued" /\ stage'[r] = "ended"
<1> DEFINE Others == \A c \in Caller \ {r} : stage'[c] = stage[c]
<1>t. stage \in [Caller -> Stages]
  BY DEF ProviderTypeOK
<1>q. Queue(r) => Others /\ stage[r] = "new" /\ stage'[r] = "queued"
  BY <1>t DEF Queue, To
<1>w. WaitIfBlocked(r) \/ TryWindow(r) => Others /\ stage'[r] \in Holding
  BY <1>t DEF WaitIfBlocked, TryWindow, To, Holding, Waits
<1>e. /\ Enter(r) => Others /\ stage[r] = "new" /\ stage'[r] \in Holding
      /\ Admit(r) => Others /\ stage[r] = "queued" /\ stage'[r] \in Holding
  BY <1>w DEF Enter, Admit
<1>h. Quiet(r) => Others /\ stage[r] \in Holding /\ stage'[r] \in Holding
  <2>1. BlockOver(r) \/ WindowTurn(r) \/ BackoffOver(r)
          => Others /\ stage[r] \in Holding /\ stage'[r] \in Holding
    BY <1>w DEF BlockOver, WindowTurn, BackoffOver, Holding, Waits
  <2>2. TooMany(r) \/ Answered(r) \/ Fails(r) \/ FailsBy429(r) \/ Abandon(r)
          => Others /\ stage[r] \in Holding /\ stage'[r] \in Holding
    BY <1>t DEF TooMany, Answered, Fails, FailsBy429, Abandon, To, Holding, Waits
  <2> QED
    BY <2>1, <2>2 DEF Quiet
<1>x. Exits(r) => Others /\ stage[r] \in Holding /\ stage'[r] = "ended"
  BY <1>t DEF Exits, End, Cancel, Collected, To, Holding, Waits
<1>c. CancelQueued(r) => Others /\ stage[r] = "queued" /\ stage'[r] = "ended"
  BY <1>t DEF CancelQueued, To
<1> HIDE DEF Others
<1>o. Others
  BY <1>q, <1>e, <1>h, <1>x, <1>c DEF RequestStep, Quiet, Exits
<1> QED
  BY <1>q, <1>e, <1>h, <1>x, <1>c, <1>o DEF Others

-----------------------------------------------------------------------------
(* Types and alarms. *)

\* With no request there is nothing to show.
LEMMA ProviderInitOK == Init => ProviderInv
<1> SUFFICES ASSUME Init PROVE ProviderInv
  OBVIOUS
<1>1. WindowInv
  BY InitOK DEF Init
<1>2. ProviderTypeOK
  BY <1>1, RetryAssumption, ConcurrencyAssumption
  DEF Init, ProviderTypeOK, WindowInv, Stages
<1>3. AlarmInv
  BY DEF Init, InitWindow, AlarmInv
<1> QED
  BY <1>1, <1>2, <1>3 DEF ProviderInv

\* The types of the semaphore's variables.
LEMMA SemaphoreTypes ==
    ASSUME ProviderTypeOK, LineInv, NEW r \in Caller, RequestStep(r)
    PROVE  free' \in Nat /\ line' \in Seq(Caller) /\ woken' \subseteq Caller
<1>t. line \in Seq(Caller) /\ woken \subseteq Caller /\ free \in Nat
  BY DEF ProviderTypeOK
<1>1. CASE Queue(r)
  BY <1>1, <1>t DEF Queue
<1>2. CASE Enter(r)
  BY <1>2, <1>t DEF Enter, Locked
<1>3. CASE Admit(r)
  BY <1>3, <1>t, LeaveGives DEF Admit
<1>4. CASE CancelQueued(r)
  <2>1. \E value \in Nat : Leave(r, value)
    BY <1>4, <1>t DEF CancelQueued, LeaveCancelled
  <2> QED
    BY <2>1, LeaveGives
<1>5. CASE Exits(r)
  <2>1. Release
    BY <1>5 DEF Exits, End, Cancel, Collected
  <2> QED
    BY <2>1, <1>t, ReleaseGives
<1>6. CASE Quiet(r)
  BY <1>6, <1>t DEF Quiet, BlockOver, WindowTurn, TooMany, BackoffOver,
    Answered, Fails, FailsBy429, Abandon, semaphoreVars
<1> QED
  BY <1>1, <1>2, <1>3, <1>4, <1>5, <1>6 DEF RequestStep, Quiet, Exits

\* The types of the requests' variables, when one request steps.
LEMMA RequestTypes ==
    ASSUME ProviderInv, LineInv, TypeOK', NEW r \in Caller, RequestStep(r)
    PROVE  ProviderTypeOK'
<1> USE DEF ProviderInv
<1>n. now \in Nat /\ blockedUntil \in Nat /\ stage \in [Caller -> Stages]
      /\ attempt \in [Caller -> 0 .. MaxRetries] /\ alarm \in [Caller -> Nat]
  BY DEF TypeOK, ProviderTypeOK
<1>s. free' \in Nat /\ line' \in Seq(Caller) /\ woken' \subseteq Caller
  BY SemaphoreTypes
<1> DEFINE Rest == /\ stage' \in [Caller -> Stages]
                   /\ attempt' \in [Caller -> 0 .. MaxRetries]
                   /\ alarm' \in [Caller -> Nat]
                   /\ blockedUntil' \in Nat
<1> SUFFICES Rest
  BY <1>s DEF ProviderTypeOK
<1>w. ASSUME WaitIfBlocked(r) \/ (TryWindow(r) /\ alarm' = alarm)
      PROVE  stage' \in [Caller -> Stages] /\ alarm' \in [Caller -> Nat]
  BY <1>w, <1>n DEF WaitIfBlocked, TryWindow, To, Stages, Holding, Waits
<1>1. CASE Enter(r) \/ Admit(r) \/ BackoffOver(r)
  <2>1. WaitIfBlocked(r) /\ UNCHANGED <<attempt, blockedUntil>>
    BY <1>1 DEF Enter, Admit, BackoffOver
  <2>2. stage' \in [Caller -> Stages] /\ alarm' \in [Caller -> Nat]
    BY <2>1, <1>w
  <2> QED
    BY <2>1, <2>2, <1>n
<1>2. CASE BlockOver(r) \/ WindowTurn(r)
  BY <1>2, <1>w, <1>n DEF BlockOver, WindowTurn
<1>3. CASE TooMany(r)
  <2>1. PICK j \in 0 .. Jitter :
          /\ SetBlocked(Backoff(attempt[r]) + j)
          /\ alarm' = [alarm EXCEPT ![r] = now + Backoff(attempt[r]) + j]
    BY <1>3 DEF TooMany
  <2>2. Backoff(attempt[r]) \in Nat /\ j \in Nat
    BY BackoffAssumption, DelayAssumption, <1>n
  <2>3. blockedUntil' \in Nat /\ alarm' \in [Caller -> Nat]
    BY <2>1, <2>2, <1>n DEF SetBlocked
  <2>4. attempt' \in [Caller -> 0 .. MaxRetries]
    BY <1>3, <1>n, RetryAssumption DEF TooMany, RetryLeft
  <2>5. stage' \in [Caller -> Stages]
    BY <1>3, <1>n DEF TooMany, To, Stages, Holding, Waits
  <2> QED
    BY <2>3, <2>4, <2>5
<1>4. CASE FailsBy429(r)
  BY <1>4, <1>n, DelayAssumption
  DEF FailsBy429, SetBlocked, To, Stages, Holding, Waits
<1>5. CASE \/ Queue(r) \/ Answered(r) \/ Fails(r) \/ End(r)
           \/ CancelQueued(r) \/ Cancel(r) \/ Abandon(r) \/ Collected(r)
  BY <1>5, <1>n DEF Queue, Answered, Fails, End, CancelQueued, Cancel, Abandon, Collected,
    To, Stages, Holding, Waits
<1> QED
  BY <1>1, <1>2, <1>3, <1>4, <1>5 DEF RequestStep

\* A request that sleeps for no alarm has none in the future.
LEMMA RequestAlarms ==
    ASSUME ProviderInv, NEW r \in Caller, RequestStep(r)
    PROVE  AlarmInv' /\ (stage[r] # "calling" /\ stage'[r] = "calling" => now >= alarm[r])
<1> USE DEF AlarmInv, To
<1>n. now \in Nat /\ alarm \in [Caller -> Nat] /\ stage \in [Caller -> Stages]
  BY DEF TypeOK, ProviderInv, ProviderTypeOK
<1>i. AlarmInv
  BY DEF ProviderInv
<1>m. now' = now
  BY DEF RequestStep, Queue, Enter, Admit, BlockOver, WindowTurn, TooMany, BackoffOver,
         Answered, Fails, FailsBy429, End, CancelQueued, Cancel, Abandon, Collected,
         WaitIfBlocked, TryWindow, Grant, Refuse, windowVars
<1>t. ASSUME TryWindow(r), alarm' = alarm, alarm[r] <= now PROVE AlarmInv'
  BY <1>t, <1>m, <1>i, <1>n DEF TryWindow
<1>w. ASSUME WaitIfBlocked(r), alarm[r] <= now PROVE AlarmInv'
  <2>1. CASE now < blockedUntil
    BY <1>w, <2>1, <1>m, <1>i, <1>n DEF WaitIfBlocked
  <2>2. CASE ~(now < blockedUntil)
    BY <1>w, <2>2, <1>t DEF WaitIfBlocked
  <2> QED
    BY <2>1, <2>2
<1>1. CASE Queue(r)
  BY <1>1, <1>m, <1>i, <1>n DEF Queue
<1>2. CASE Enter(r)
  <2>1. alarm[r] <= now
    BY <1>2, <1>i DEF Enter
  <2> QED
    BY <1>2, <2>1, <1>w DEF Enter
<1>3. CASE Admit(r)
  <2>1. alarm[r] <= now
    BY <1>3, <1>i DEF Admit
  <2> QED
    BY <1>3, <2>1, <1>w DEF Admit
<1>4. CASE BlockOver(r)
  BY <1>4, <1>t DEF BlockOver
<1>5. CASE WindowTurn(r)
  BY <1>5, <1>t, <1>i DEF WindowTurn
<1>6. CASE TooMany(r)
  BY <1>6, <1>n, <1>m, <1>i DEF TooMany
<1>7. CASE BackoffOver(r)
  BY <1>7, <1>w DEF BackoffOver, Slept
<1>8. CASE \/ Answered(r) \/ Fails(r) \/ FailsBy429(r) \/ End(r)
           \/ CancelQueued(r) \/ Cancel(r) \/ Abandon(r) \/ Collected(r)
  BY <1>8, <1>n, <1>m, <1>i DEF Answered, Fails, FailsBy429, End, CancelQueued, Cancel,
    Abandon, Collected, Waits
<1>9. ASSUME stage[r] # "calling", stage'[r] = "calling" PROVE now >= alarm[r]
  <2>1. \/ Enter(r) \/ Admit(r) \/ BlockOver(r) \/ WindowTurn(r) \/ BackoffOver(r)
    BY <1>9, <1>n DEF RequestStep, Queue, TooMany, Answered, Fails, FailsBy429, End,
      CancelQueued, Cancel, Abandon, Collected
  <2> QED
    BY <2>1, <1>n, <1>i DEF Enter, Admit, BlockOver, WindowTurn, BackoffOver, Slept
<1> QED
  BY <1>1, <1>2, <1>3, <1>4, <1>5, <1>6, <1>7, <1>8, <1>9 DEF RequestStep

\* The line, when one request steps.
LEMMA LineStep ==
    ASSUME ProviderTypeOK, LineInv, NEW r \in Caller, RequestStep(r)
    PROVE  LineInv'
<1> USE DEF LineInv
<1>t. line \in Seq(Caller) /\ woken \subseteq Caller /\ free \in Nat
      /\ stage \in [Caller -> Stages]
  BY DEF ProviderTypeOK
<1>o. \A c \in Caller \ {r} : stage'[c] = stage[c]
  BY StageStep
<1>1. CASE Queue(r)
  <2>1. stage[r] = "new" /\ stage'[r] = "queued"
    BY <1>1, StageStep
  <2>2. line' = Append(line, r) /\ woken' = woken
    BY <1>1 DEF Queue
  <2>3. \A i \in DOMAIN line : line[i] \in Caller \ {r}
    BY <2>1, <1>t
  <2>4. /\ DOMAIN line' = 1 .. Len(line) + 1 /\ DOMAIN line = 1 .. Len(line)
        /\ \A i \in 1 .. Len(line) : line'[i] = line[i]
        /\ line'[Len(line) + 1] = r /\ Len(line) \in Nat
    BY <2>2, <1>t
  <2>5. \A i \in DOMAIN line' : i \in DOMAIN line \/ i = Len(line) + 1
    BY <2>4
  <2>6. \A i \in DOMAIN line' : stage'[line'[i]] = "queued"
    BY <2>1, <2>3, <2>4, <2>5, <1>o
  <2>7. \A i, j \in DOMAIN line' : line'[i] = line'[j] => i = j
    BY <2>3, <2>4, <2>5
  <2>8. \A c \in woken' : stage'[c] = "queued"
    BY <2>1, <2>2, <1>t, <1>o
  <2> QED
    BY <2>6, <2>7, <2>8
<1>2. CASE Enter(r) \/ Quiet(r)
  <2>1. line' = line /\ woken' = woken
    BY <1>2 DEF Enter, Quiet, BlockOver, WindowTurn, TooMany, BackoffOver, Answered,
      Fails, FailsBy429, Abandon, semaphoreVars
  <2>2. stage[r] # "queued"
    BY <1>2, StageStep DEF Holding, Waits
  <2> QED
    BY <2>1, <2>2, <1>t, <1>o
<1>3. CASE Admit(r) \/ CancelQueued(r)
  <2>1. \E value \in Nat : Leave(r, value)
    BY <1>3, <1>t DEF Admit, CancelQueued, LeaveCancelled
  <2>2. /\ line' \in Seq(Caller) /\ woken' \subseteq Caller
        /\ \A i, j \in DOMAIN line' : line'[i] = line'[j] => i = j
        /\ \A i \in DOMAIN line' : stage[line'[i]] = "queued" /\ line'[i] # r
        /\ \A c \in woken' : stage[c] = "queued" /\ c # r
    BY <2>1, LeaveGives
  <2> QED
    BY <2>2, <1>o
<1>4. CASE Exits(r)
  <2>1. Release
    BY <1>4 DEF Exits, End, Cancel, Collected
  <2>2. /\ line' = line /\ woken' \subseteq Caller
        /\ \A c \in woken' : stage[c] = "queued"
    BY <2>1, ReleaseGives
  <2>3. stage[r] # "queued"
    BY <1>4, StageStep DEF Holding, Waits
  <2> QED
    BY <2>2, <2>3, <1>t, <1>o
<1> QED
  BY <1>1, <1>2, <1>3, <1>4 DEF RequestStep, Quiet, Exits

\* One request comes to a slot, or goes from one.
LEMMA HoldersStep ==
    ASSUME ProviderTypeOK, IsFiniteSet(Holders), NEW r \in Caller, RequestStep(r)
    PROVE  /\ IsFiniteSet(Holders')
           /\ Enter(r) \/ Admit(r) => Cardinality(Holders') = Cardinality(Holders) + 1
           /\ Exits(r) => Cardinality(Holders') = Cardinality(Holders) - 1
           /\ Queue(r) \/ CancelQueued(r) \/ Quiet(r)
                => Cardinality(Holders') = Cardinality(Holders)
<1>o. \A c \in Caller \ {r} : stage'[c] = stage[c]
  BY StageStep
<1>n. {"new", "queued", "ended"} \intersect Holding = {}
  BY DEF Holding, Waits
<1>f. /\ IsFiniteSet(Holders \union {r}) /\ IsFiniteSet(Holders \ {r})
      /\ r \notin Holders => Cardinality(Holders \union {r}) = Cardinality(Holders) + 1
      /\ r \in Holders => Cardinality(Holders \ {r}) = Cardinality(Holders) - 1
  BY FS_AddElement, FS_RemoveElement
<1>1. ASSUME Enter(r) \/ Admit(r)
      PROVE  r \notin Holders /\ Holders' = Holders \union {r}
  <2>1. stage[r] \in {"new", "queued"} /\ stage'[r] \in Holding
    BY <1>1, StageStep
  <2> QED
    BY <2>1, <1>o, <1>n DEF Holders
<1>2. ASSUME Exits(r) PROVE r \in Holders /\ Holders' = Holders \ {r}
  <2>1. stage[r] \in Holding /\ stage'[r] = "ended"
    BY <1>2, StageStep
  <2> QED
    BY <2>1, <1>o, <1>n DEF Holders
<1>3. ASSUME Queue(r) \/ CancelQueued(r) \/ Quiet(r) PROVE Holders' = Holders
  <2>1. \/ stage[r] \in {"new", "queued"} /\ stage'[r] \in {"queued", "ended"}
        \/ stage[r] \in Holding /\ stage'[r] \in Holding
    BY <1>3, StageStep
  <2> QED
    BY <2>1, <1>o, <1>n DEF Holders
<1>4. \/ Enter(r) \/ Admit(r) \/ Exits(r) \/ Queue(r) \/ CancelQueued(r) \/ Quiet(r)
  BY DEF RequestStep, Exits, Quiet
<1>5. IsFiniteSet(Holders')
  BY <1>1, <1>2, <1>3, <1>4, <1>f
<1> QED
  BY <1>1, <1>2, <1>3, <1>5, <1>f

\* The slots, when one request steps.
LEMMA SlotStep ==
    ASSUME ProviderTypeOK, LineInv, SlotInv, NEW r \in Caller, RequestStep(r)
    PROVE  SlotInv'
<1>t. line \in Seq(Caller) /\ woken \subseteq Caller /\ free \in Nat
  BY DEF ProviderTypeOK
<1>c. /\ IsFiniteSet(woken) /\ IsFiniteSet(Holders)
      /\ Cardinality(woken) \in Nat /\ Cardinality(Holders) \in Nat
      /\ free + Cardinality(woken) + Cardinality(Holders) = MaxConcurrency
  BY FS_CardinalityType DEF SlotInv, SlotsReturned
<1>i. free > 0 /\ Asleep(line, woken) # {} => woken # {}
  BY DEF SlotInv
<1>h. /\ IsFiniteSet(Holders') /\ Cardinality(Holders') \in Nat
      /\ Enter(r) \/ Admit(r) => Cardinality(Holders') = Cardinality(Holders) + 1
      /\ Exits(r) => Cardinality(Holders') = Cardinality(Holders) - 1
      /\ Queue(r) \/ CancelQueued(r) \/ Quiet(r)
           => Cardinality(Holders') = Cardinality(Holders)
  BY <1>c, HoldersStep, FS_CardinalityType
<1>1. CASE Queue(r)
  <2>1. free' = free /\ woken' = woken /\ line' = Append(line, r) /\ Locked
    BY <1>1 DEF Queue
  <2>2. ASSUME free > 0 PROVE woken # {}
    <3>1. 1 \in DOMAIN line
      BY <2>1, <2>2, <1>t DEF Locked
    <3>2. line[1] \in Asleep(line, woken) \/ line[1] \in woken
      BY <3>1 DEF Asleep, Range
    <3> QED
      BY <3>2, <2>2, <1>i
  <2> QED
    BY <2>1, <2>2, <1>c, <1>h, <1>1 DEF SlotInv, SlotsReturned
<1>2. CASE Enter(r)
  <2>1. free' = free - 1 /\ woken' = woken /\ line' = line /\ line = <<>>
    BY <1>2 DEF Enter, Locked
  <2>2. Asleep(line', woken') = {}
    BY <2>1 DEF Asleep, Range
  <2> QED
    BY <2>1, <2>2, <1>t, <1>c, <1>h, <1>2 DEF SlotInv, SlotsReturned
<1>3. CASE Admit(r)
  <2>1. Leave(r, free) /\ r \in woken
    BY <1>3 DEF Admit
  <2>2. /\ IsFiniteSet(woken') /\ free' \in Nat
        /\ free' + Cardinality(woken') = free + Cardinality(woken \ {r})
        /\ Asleep(line', woken') # {} => free' = 0
    BY <2>1, <1>t, <1>c, LeaveGives
  <2>3. Cardinality(woken \ {r}) = Cardinality(woken) - 1
    BY <2>1, <1>c, FS_RemoveElement
  <2>4. Cardinality(woken') \in Nat
    BY <2>2, FS_CardinalityType
  <2>5. Cardinality(Holders') = Cardinality(Holders) + 1
    BY <1>3, <1>h
  <2>6. SlotsReturned'
    BY <2>2, <2>3, <2>4, <2>5, <1>t, <1>c DEF SlotsReturned
  <2> QED
    BY <2>2, <2>6, <1>h DEF SlotInv
<1>4. CASE CancelQueued(r)
  <2> DEFINE value == IF r \in woken THEN free + 1 ELSE free
  <2>1. Leave(r, value) /\ value \in Nat
    BY <1>4, <1>t DEF CancelQueued, LeaveCancelled
  <2> HIDE DEF value
  <2>2. /\ IsFiniteSet(woken') /\ free' \in Nat
        /\ free' + Cardinality(woken') = value + Cardinality(woken \ {r})
        /\ Asleep(line', woken') # {} => free' = 0
    BY <2>1, <1>t, <1>c, LeaveGives
  <2>3. value + Cardinality(woken \ {r}) = free + Cardinality(woken)
    <3>1. Cardinality(woken \ {r}) =
            IF r \in woken THEN Cardinality(woken) - 1 ELSE Cardinality(woken)
      BY <1>c, FS_RemoveElement
    <3> QED
      BY <3>1, <1>t, <1>c DEF value
  <2>4. Cardinality(woken') \in Nat
    BY <2>2, FS_CardinalityType
  <2> QED
    BY <2>2, <2>3, <2>4, <1>t, <1>c, <1>h, <1>4 DEF SlotInv, SlotsReturned
<1>5. CASE Exits(r)
  <2>1. Release
    BY <1>5 DEF Exits, End, Cancel, Collected
  <2>2. /\ line' = line /\ woken \subseteq woken'
        /\ IsFiniteSet(woken') /\ free' \in Nat
        /\ free' + Cardinality(woken') = free + 1 + Cardinality(woken)
        /\ Asleep(line', woken') # {} => free' = free
    BY <2>1, <1>c, ReleaseGives
  <2>3. Asleep(line', woken') \subseteq Asleep(line, woken)
    BY <2>2 DEF Asleep
  <2>4. Cardinality(woken') \in Nat
    BY <2>2, FS_CardinalityType
  <2>5. free' > 0 /\ Asleep(line', woken') # {} => woken' # {}
    BY <2>2, <2>3, <1>i
  <2>6. Cardinality(Holders') = Cardinality(Holders) - 1
    BY <1>5, <1>h
  <2>7. SlotsReturned'
    BY <2>2, <2>4, <2>6, <1>t, <1>c DEF SlotsReturned
  <2> QED
    BY <2>2, <2>5, <2>7, <1>h DEF SlotInv
<1>6. CASE Quiet(r)
  <2>1. free' = free /\ woken' = woken /\ line' = line
    BY <1>6 DEF Quiet, BlockOver, WindowTurn, TooMany, BackoffOver, Answered, Fails,
      FailsBy429, Abandon, semaphoreVars
  <2> QED
    BY <2>1, <1>c, <1>i, <1>h, <1>6 DEF SlotInv, SlotsReturned
<1> QED
  BY <1>1, <1>2, <1>3, <1>4, <1>5, <1>6 DEF RequestStep, Exits, Quiet

-----------------------------------------------------------------------------
(* The theorems. *)

AllInv == ProviderInv /\ LineInv /\ SlotInv

\* No request, no waiter, and every slot free.
LEMMA AllInit == Init => AllInv
<1> SUFFICES ASSUME Init PROVE LineInv /\ SlotInv
  BY ProviderInitOK DEF AllInv
<1>1. LineInv
  BY DEF Init, LineInv
<1>2. Holders = {} /\ woken = {} /\ free = MaxConcurrency /\ line = <<>>
  BY DEF Init, Holders, Holding, Waits
<1> QED
  BY <1>1, <1>2, FS_EmptySet, ConcurrencyAssumption DEF SlotInv, SlotsReturned, Asleep, Range

\* Time passes.
LEMMA TimeOK == AllInv /\ Time => AllInv'
<1> SUFFICES ASSUME AllInv, Time PROVE AllInv'
  OBVIOUS
<1>1. WindowInv'
  BY TickOK DEF Time, AllInv, ProviderInv
<1>u. UNCHANGED <<free, line, woken, stage, attempt, alarm, blockedUntil>>
  BY DEF Time, semaphoreVars, requestVars
<1>2. ProviderTypeOK'
  BY <1>1, <1>u DEF AllInv, ProviderInv, ProviderTypeOK, WindowInv
<1>3. AlarmInv'
  BY <1>u DEF Time, Tick, AllInv, ProviderInv, ProviderTypeOK, TypeOK, AlarmInv
<1>4. LineInv' /\ SlotInv'
  BY <1>u DEF AllInv, LineInv, SlotInv, SlotsReturned, Holders
<1> QED
  BY <1>1, <1>2, <1>3, <1>4 DEF AllInv, ProviderInv

\* Every step keeps the invariant, and starts no call before its alarm.
LEMMA ProviderInductive ==
    AllInv /\ [ProviderNext]_vars
      => /\ AllInv'
         /\ \A r \in Caller :
              stage[r] # "calling" /\ stage'[r] = "calling" => now >= alarm[r]
<1> SUFFICES ASSUME AllInv, [ProviderNext]_vars
             PROVE  /\ AllInv'
                    /\ \A r \in Caller :
                         stage[r] # "calling" /\ stage'[r] = "calling" => now >= alarm[r]
  OBVIOUS
<1>i. ProviderInv /\ LineInv /\ SlotInv /\ ProviderTypeOK
  BY DEF AllInv, ProviderInv
<1>w. WindowInv' /\ TypeOK'
  BY ProviderDrivesWindow, WindowInductive DEF AllInv, ProviderInv, WindowInv
<1>1. CASE Time
  BY <1>1, TimeOK DEF Time, requestVars
<1>2. ASSUME NEW q \in Caller, RequestStep(q)
      PROVE  /\ AllInv'
             /\ \A r \in Caller :
                  stage[r] # "calling" /\ stage'[r] = "calling" => now >= alarm[r]
  <2>1. AllInv'
    BY <1>2, <1>i, <1>w, RequestTypes, RequestAlarms, LineStep, SlotStep
    DEF AllInv, ProviderInv
  <2>2. \A r \in Caller \ {q} : stage'[r] = stage[r]
    BY <1>2, <1>i, StageStep
  <2> QED
    BY <1>2, <1>i, <2>1, <2>2, RequestAlarms
<1>3. CASE UNCHANGED vars
  BY <1>3, <1>i, <1>w DEF vars, requestVars, semaphoreVars, windowVars, AllInv, ProviderInv,
    ProviderTypeOK, AlarmInv, LineInv, SlotInv, SlotsReturned, Holders
<1>4. ProviderNext => Time \/ \E r \in Caller : RequestStep(r)
  BY DEF ProviderNext, RequestStep
<1> QED
  BY <1>1, <1>2, <1>3, <1>4

\* The invariant says what the requests see.
LEMMA AllInvSays ==
    AllInv => ProviderTypeOK /\ SlotsReturned /\ NoIdleSlot /\ ConcurrencyBound
<1> SUFFICES ASSUME AllInv
             PROVE  ProviderTypeOK /\ SlotsReturned /\ NoIdleSlot /\ ConcurrencyBound
  OBVIOUS
<1>1. ProviderTypeOK /\ SlotsReturned
  BY DEF AllInv, ProviderInv, SlotInv
<1>2. NoIdleSlot
  BY DEF AllInv, SlotInv, LineInv, NoIdleSlot
<1>3. Cardinality(woken) \in Nat /\ Cardinality(Holders) \in Nat /\ free \in Nat
  BY FS_CardinalityType DEF AllInv, ProviderInv, ProviderTypeOK, SlotInv
<1> QED
  BY <1>1, <1>2, <1>3, ConcurrencyAssumption DEF SlotsReturned, ConcurrencyBound

(* The variables keep their types, for any number of requests. *)
THEOREM ProviderTyping == ProviderSpec => []ProviderTypeOK
  BY AllInit, ProviderInductive, AllInvSays, PTL DEF ProviderSpec

(* A request that got a 429 is sent again only after its own delay, whatever
   the others do to the block (execute_with_retry).                         *)
THEOREM RetriesWait == ProviderSpec => RetryAfterBackoff
<1>1. AllInv /\ [ProviderNext]_vars =>
        [\A r \in Caller : stage[r] # "calling" /\ stage'[r] = "calling"
           => now >= alarm[r]]_vars
  BY ProviderInductive
<1> QED
  BY <1>1, AllInit, ProviderInductive, PTL DEF ProviderSpec, RetryAfterBackoff

(* No slot is lost and none is given back twice, however requests end
   (concurrency_slot).                                                      *)
THEOREM EverySlotReturned == ProviderSpec => []SlotsReturned
  BY AllInit, ProviderInductive, AllInvSays, PTL DEF ProviderSpec

(* At most MaxConcurrency requests are inside a slot, whatever the semaphore
   has handed to waiters that have not run (concurrency_slot).              *)
THEOREM ProviderConcurrency == ProviderSpec => []ConcurrencyBound
  BY AllInit, ProviderInductive, AllInvSays, PTL DEF ProviderSpec

(* Nobody waits beside a free slot unless a waiter that is about to run will
   pass it on (concurrency_slot).                                           *)
THEOREM NobodyWaitsBesideASlot == ProviderSpec => []NoIdleSlot
  BY AllInit, ProviderInductive, AllInvSays, PTL DEF ProviderSpec
=============================================================================
