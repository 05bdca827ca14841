--------------------------- MODULE ProviderLimiter ---------------------------
(* GlobalRateLimiter of providers/rate_limit.py and the requests that use it.

   A request to the provider takes a concurrency slot, waits for the reactive
   block and for the rolling window (SlidingWindow), calls the provider, and
   streams the answer.  A 429 sets the block for everybody; the request sleeps
   and tries again, and when its retries are used up map_error sets the block
   once more.  The block is tested once per attempt, before the window.

   The slot is asyncio's Semaphore (Python 3.14).  What the semaphore counts is
   kept apart from what the requests do: a slot that is given back hands itself
   to a waiter whose task runs later and may be cancelled before it does, and a
   request gives its slot back only where concurrency_slot's finally runs.  *)
EXTENDS SlidingWindow, FiniteSets, Functions

CONSTANTS MaxConcurrency,  \* slots of the semaphore
          MaxRetries,      \* max_retries of execute_with_retry
          BaseDelay,       \* base_delay
          MaxDelay,        \* max_delay
          Jitter,          \* jitter
          Cooldown         \* the 60 seconds of map_error

ASSUME ConcurrencyAssumption == MaxConcurrency \in Nat \ {0}
ASSUME RetryAssumption == MaxRetries \in Nat
ASSUME DelayAssumption == /\ BaseDelay \in Nat /\ MaxDelay \in Nat
                          /\ Jitter \in Nat /\ Cooldown \in Nat

\* base_delay * 2 ** attempt, at most max_delay.
Backoff(a) == IF BaseDelay * 2 ^ a < MaxDelay THEN BaseDelay * 2 ^ a ELSE MaxDelay

\* The provers know nothing of powers.
ASSUME BackoffAssumption == \A a \in 0 .. MaxRetries : Backoff(a) \in Nat

VARIABLES
    stage,         \* where each request is
    free,          \* _value of the semaphore
    line,          \* its _waiters
    woken,         \* those that were handed a slot and whose tasks have not run
    attempt,       \* 429s each request has retried
    alarm,         \* when a request's sleep for a block or a retry ends
    blockedUntil   \* _blocked_until

semaphoreVars == <<free, line, woken>>
requestVars == <<stage, attempt, alarm>>
vars == <<windowVars, semaphoreVars, requestVars, blockedUntil>>

(* "blocked": asleep in wait_if_blocked; "window": in _acquire_proactive_slot;
   "calling": the provider has the request; "backoff": asleep after a 429;
   "reporting": sends the error's events; "abandoned": its client went away
   while the generator stood at a yield.                                     *)
Waits == {"blocked", "window", "calling", "backoff", "streaming"}
Holding == Waits \union {"reporting", "abandoned"}
Stages == {"new", "queued", "ended"} \union Holding

Holders == {r \in Caller : stage[r] \in Holding}

To(r, s) == stage' = [stage EXCEPT ![r] = s]

Init ==
    /\ InitWindow
    /\ stage = [r \in Caller |-> "new"]
    /\ free = MaxConcurrency
    /\ line = <<>>
    /\ woken = {}
    /\ attempt = [r \in Caller |-> 0]
    /\ alarm = [r \in Caller |-> 0]
    /\ blockedUntil = 0

-----------------------------------------------------------------------------
(* asyncio.Semaphore. *)

Asleep(q, w) == Range(q) \ w

\* The first n of the waiters asleep, or all when there are fewer.
FirstAsleep(q, w, n) ==
    {S \in SUBSET Asleep(q, w) :
        /\ Cardinality(S) <= n
        /\ Cardinality(S) < n => S = Asleep(q, w)
        /\ \A i, j \in DOMAIN q :
             i < j /\ q[j] \in S /\ q[i] \in Asleep(q, w) => q[i] \in S}

\* _wake_up_next, up to n times: each waiter takes a slot of the value.
WakeUp(q, w, value, n) ==
    \E S \in FirstAsleep(q, w, n) :
        /\ line' = q
        /\ woken' = w \union S
        /\ free' = value - Cardinality(S)

\* release: one slot more, for one waiter.
Release == WakeUp(line, woken, free + 1, 1)

\* acquire's finally: the waiter leaves, and others wake as the value allows.
Without(i) == SubSeq(line, 1, i - 1) \o SubSeq(line, i + 1, Len(line))

LeaveQuietly(r, value) ==
    \E i \in DOMAIN line : line[i] = r /\ WakeUp(Without(i), woken \ {r}, value, 0)
Leave(r, value) ==
    \E i \in DOMAIN line : line[i] = r /\ WakeUp(Without(i), woken \ {r}, value, value)

(* A waiter that is cancelled gives back the slot it was handed, if any.  If
   acquire were inside concurrency_slot's try, the finally would come on top. *)
LeaveAndRelease(r) == Leave(r, IF r \in woken THEN free + 2 ELSE free + 1)
LeaveCancelled(r) == Leave(r, IF r \in woken THEN free + 1 ELSE free)

\* locked: nothing left, or others are before it.
Locked == free = 0 \/ line # <<>>

-----------------------------------------------------------------------------
(* From the semaphore to the call. *)

\* One turn of _acquire_proactive_slot; with a slot, the provider is called.
TryWindow(r) == \/ Grant(r) /\ To(r, "calling")
                \/ Refuse(r) /\ To(r, "window")

(* wait_if_blocked, in one step with the beginning of _acquire_proactive_slot
   when there is no block.                                                  *)
WaitIfBlocked(r) ==
    IF now < blockedUntil
    THEN /\ To(r, "blocked")
         /\ alarm' = [alarm EXCEPT ![r] = blockedUntil]
         /\ UNCHANGED windowVars
    ELSE /\ TryWindow(r)
         /\ UNCHANGED alarm

\* concurrency_slot: the request waits for its turn, or goes on at once.
Queue(r) ==
    /\ stage[r] = "new" /\ Locked
    /\ To(r, "queued")
    /\ line' = Append(line, r)
    /\ UNCHANGED <<windowVars, free, woken, attempt, alarm, blockedUntil>>

Enter(r) ==
    /\ stage[r] = "new" /\ ~Locked
    /\ free' = free - 1
    /\ WaitIfBlocked(r)
    /\ UNCHANGED <<line, woken, attempt, blockedUntil>>

\* The task of a waiter that was handed a slot runs.
Admit(r) ==
    /\ stage[r] = "queued" /\ r \in woken
    /\ Leave(r, free)
    /\ WaitIfBlocked(r)
    /\ UNCHANGED <<attempt, blockedUntil>>

\* The sleep for the block is over; the block is not tested again.
BlockOver(r) ==
    /\ stage[r] = "blocked"
    /\ alarm[r] <= now
    /\ TryWindow(r)
    /\ UNCHANGED <<semaphoreVars, attempt, alarm, blockedUntil>>

WindowTurn(r) ==
    /\ stage[r] = "window"
    /\ TryWindow(r)
    /\ UNCHANGED <<semaphoreVars, attempt, alarm, blockedUntil>>

-----------------------------------------------------------------------------
(* The provider's answers. *)

SetBlocked(seconds) == blockedUntil' = now + seconds

\* Another attempt of execute_with_retry's loop is left.
RetryLeft(r) == attempt[r] < MaxRetries

TooMany(r) ==
    /\ stage[r] = "calling"
    /\ RetryLeft(r)
    /\ \E j \in 0 .. Jitter :
         /\ SetBlocked(Backoff(attempt[r]) + j)
         /\ alarm' = [alarm EXCEPT ![r] = now + Backoff(attempt[r]) + j]
    /\ attempt' = [attempt EXCEPT ![r] = @ + 1]
    /\ To(r, "backoff")
    /\ UNCHANGED <<windowVars, semaphoreVars>>

\* The request has slept for its delay.
Impatient(r) == TRUE
Slept(r) == alarm[r] <= now

BackoffOver(r) ==
    /\ stage[r] = "backoff"
    /\ Slept(r)
    /\ WaitIfBlocked(r)
    /\ UNCHANGED <<semaphoreVars, attempt, blockedUntil>>

Answered(r) ==
    /\ stage[r] = "calling"
    /\ To(r, "streaming")
    /\ UNCHANGED <<windowVars, semaphoreVars, attempt, alarm, blockedUntil>>

\* An exception ends the stream; its events are sent inside the slot.
Fails(r) ==
    /\ stage[r] \in {"calling", "streaming"}
    /\ To(r, "reporting")
    /\ UNCHANGED <<windowVars, semaphoreVars, attempt, alarm, blockedUntil>>

(* map_error sets the block when it is a 429: the last retry's, or one that a
   native client finds in the answer's status.                              *)
FailsBy429(r) ==
    /\ \/ stage[r] = "streaming"
       \/ stage[r] = "calling" /\ ~RetryLeft(r)
    /\ To(r, "reporting")
    /\ SetBlocked(Cooldown)
    /\ UNCHANGED <<windowVars, semaphoreVars, attempt, alarm>>

\* The stream or its error has been sent to the client.
End(r) ==
    /\ stage[r] \in {"streaming", "reporting"}
    /\ To(r, "ended")
    /\ Release
    /\ UNCHANGED <<windowVars, attempt, alarm, blockedUntil>>

-----------------------------------------------------------------------------
(* The client goes away. *)

\* The request is cancelled in acquire.
CancelQueued(r) ==
    /\ stage[r] = "queued"
    /\ To(r, "ended")
    /\ LeaveCancelled(r)
    /\ UNCHANGED <<windowVars, attempt, alarm, blockedUntil>>

(* The request is cancelled where it waits inside the slot.  Without the finally
   of concurrency_slot it would vanish with its slot.                       *)
Vanish(r) ==
    /\ stage[r] \in Waits
    /\ To(r, "ended")
    /\ waiting' = waiting \ {r}
    /\ UNCHANGED <<now, times, wake, grants, semaphoreVars, attempt, alarm, blockedUntil>>

Cancel(r) ==
    /\ stage[r] \in Waits
    /\ To(r, "ended")
    /\ Release
    /\ waiting' = waiting \ {r}
    /\ UNCHANGED <<now, times, wake, grants, attempt, alarm, blockedUntil>>

(* The request's task is cancelled while it sends to the client: the generator
   stands at a yield and hears of it when the event loop closes it.         *)
Abandon(r) ==
    /\ stage[r] \in {"streaming", "reporting"}
    /\ To(r, "abandoned")
    /\ UNCHANGED <<windowVars, semaphoreVars, attempt, alarm, blockedUntil>>

Collected(r) ==
    /\ stage[r] = "abandoned"
    /\ To(r, "ended")
    /\ Release
    /\ UNCHANGED <<windowVars, attempt, alarm, blockedUntil>>

Time == Tick /\ UNCHANGED <<semaphoreVars, requestVars, blockedUntil>>

ProviderNext ==
    \/ Time
    \/ \E r \in Caller :
         \/ Queue(r) \/ Enter(r) \/ Admit(r) \/ BlockOver(r) \/ WindowTurn(r)
         \/ TooMany(r) \/ BackoffOver(r)
         \/ Answered(r) \/ Fails(r) \/ FailsBy429(r) \/ End(r)
         \/ CancelQueued(r) \/ Cancel(r) \/ Abandon(r) \/ Collected(r)

ProviderSpec == Init /\ [][ProviderNext]_vars

-----------------------------------------------------------------------------
(* Properties. *)

\* Every variable holds values of its type.
ProviderTypeOK ==
    /\ TypeOK
    /\ stage \in [Caller -> Stages]
    /\ free \in Nat
    /\ line \in Seq(Caller)
    /\ woken \subseteq Caller
    /\ attempt \in [Caller -> 0 .. MaxRetries]
    /\ alarm \in [Caller -> Nat]
    /\ blockedUntil \in Nat

(* "At most N provider streams may be open simultaneously" (class comment),
   although a slot is handed on before its new owner runs (concurrency_slot).*)
ConcurrencyBound == Cardinality(Holders) <= MaxConcurrency

(* Every slot is free, handed to a waiter or held by a request: whatever way a
   request ends - answered, failed, cancelled in the line, handed a slot or
   not, cancelled at any wait inside, abandoned - it gives back its slot, once
   (the try and finally of concurrency_slot).                               *)
SlotsReturned ==
    free + Cardinality(woken) + Cardinality(Holders) = MaxConcurrency

(* Nobody is left asleep beside a free slot: a request waits only while all
   slots are taken or a waiter before it is about to run and will wake it
   (concurrency_slot over asyncio's first-come-first-served semaphore).     *)
NoIdleSlot ==
    free > 0 /\ Asleep(line, woken) # {} => \E r \in woken : stage[r] = "queued"

(* A request that got a 429 is not sent again before its own delay is over,
   even if others set the block to an earlier time (execute_with_retry).    *)
RetryAfterBackoff ==
    [][\A r \in Caller : stage[r] # "calling" /\ stage'[r] = "calling"
         => now >= alarm[r]]_vars

(* "... blocks all requests when a rate limit error is encountered" (class
   comment): no request is sent while the block is set.                     *)
BlockRespected ==
    [][\A r \in Caller : stage[r] # "calling" /\ stage'[r] = "calling"
         => now >= blockedUntil]_vars

(* "Default 60s cooldown" (error_mapping.py:73), "pauses all requests when a 429
   is hit" (class comment): a block, once set, is not cut short.            *)
BlockNotShortened == [][blockedUntil' >= blockedUntil]_vars
=============================================================================
