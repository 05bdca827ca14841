--------------------------- MODULE SlidingWindow ---------------------------
(* The strict rolling window of messaging/limiter.py (SlidingWindowLimiter) and
   of providers/rate_limit.py (_acquire_proactive_slot): the same loop twice.

   A caller of acquire drops the grants that left the window, takes a slot if
   there is one, and otherwise sleeps until the oldest grant leaves and tries
   again.  The section under the asyncio lock does not wait, so one turn of the
   loop is one action.  Time is the monotonic clock in units of the model; the
   grants may fall on the same instant, and a sleeper may wake late.        *)
EXTENDS Integers, Sequences

CONSTANTS Caller,   \* tasks that call acquire
          Limit,    \* _rate_limit
          Window,   \* _rate_window
          Horizon   \* bound of the model: the last instant of the clock

ASSUME LimitAssumption == Limit \in Nat \ {0}
ASSUME WindowAssumption == Window \in Nat \ {0}

VARIABLES
    now,      \* time.monotonic()
    times,    \* _times, _request_times
    waiting,  \* callers asleep in acquire
    wake,     \* when their sleep ends
    grants    \* history: the instant of every slot given

windowVars == <<now, times, waiting, wake, grants>>

InitWindow ==
    /\ now = 0
    /\ times = <<>>
    /\ waiting = {}
    /\ wake = [c \in Caller |-> 0]
    /\ grants = <<>>

\* The loop `while self._times[0] <= cutoff` takes d grants out.
Prune(d) == /\ d \in 0 .. Len(times)
            /\ \A i \in 1 .. d : times[i] <= now - Window
            /\ d < Len(times) => times[d + 1] > now - Window

Kept(d) == SubSeq(times, d + 1, Len(times))

\* Is there a slot when d grants are taken out?
RoomForOneMore(d) == Len(times) - d <= Limit
Room(d) == Len(times) - d < Limit

\* When the caller without a slot tries again.
NewestLeaves(d) == times[Len(times)] + Window
OldestLeaves(d) == times[d + 1] + Window

\* The caller enters acquire, or its sleep is over.
Awake(c) == c \in waiting => wake[c] <= now

Grant(c) ==
    /\ Awake(c)
    /\ \E d \in 0 .. Len(times) : Prune(d) /\ Room(d) /\ times' = Append(Kept(d), now)
    /\ grants' = Append(grants, now)
    /\ waiting' = waiting \ {c}
    /\ UNCHANGED <<now, wake>>

Refuse(c) ==
    /\ Awake(c)
    /\ \E d \in 0 .. Len(times) :
         /\ Prune(d)
         /\ ~Room(d)
         /\ times' = Kept(d)
         /\ wake' = [wake EXCEPT ![c] = OldestLeaves(d)]
    /\ waiting' = waiting \union {c}
    /\ UNCHANGED <<now, grants>>

\* The sleeping caller is cancelled.
GiveUp(c) ==
    /\ c \in waiting
    /\ waiting' = waiting \ {c}
    /\ UNCHANGED <<now, times, wake, grants>>

Tick ==
    /\ now < Horizon
    /\ now' = now + 1
    /\ UNCHANGED <<times, waiting, wake, grants>>

Next == Tick \/ \E c \in Caller : Grant(c) \/ Refuse(c) \/ GiveUp(c)

Spec == InitWindow /\ [][Next]_windowVars

-----------------------------------------------------------------------------
(* Properties. *)

\* Every variable holds values of its type.
TypeOK ==
    /\ now \in Nat
    /\ times \in Seq(Nat)
    /\ waiting \subseteq Caller
    /\ wake \in [Caller -> Nat]
    /\ grants \in Seq(Nat)

(* "At most rate_limit acquisitions in any interval of length rate_window"
   (acquire, _acquire_proactive_slot): between a grant and the Limit-th grant
   after it lies at least a window, although old grants are forgotten.      *)
RateBound ==
    \A i \in DOMAIN grants :
        i + Limit \in DOMAIN grants => grants[i + Limit] >= grants[i] + Window

(* The limiter holds nobody back for nothing: as long as a caller sleeps, the
   last window holds Limit grants, whoever came, was served or gave up after
   it fell asleep (the sleep of acquire).                                   *)
NoIdleSleep ==
    \A c \in waiting :
        now < wake[c] => /\ Len(grants) >= Limit
                         /\ grants[Len(grants) - Limit + 1] > now - Window

(* A caller without a slot sleeps for some time, so that acquire cannot spin
   ("if wait_time > 0 ... else sleep(0)": the else never happens).          *)
NoSpin == [][\A c \in Caller : Refuse(c) => wake'[c] > now]_windowVars
=============================================================================
