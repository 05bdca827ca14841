SPECIFICATION ProviderSpec
CONSTANTS
    Caller = {r1, r2, r3, r4}
    Limit = 2
    Window = 3
    Horizon = 4
    MaxConcurrency = 2
    MaxRetries = 1
    BaseDelay = 1
    MaxDelay = 4
    Jitter = 1
    Cooldown = 3
SYMMETRY Requests
INVARIANTS SlotsReturned NoIdleSlot RateBound NoIdleSleep
PROPERTIES RetryAfterBackoff
CHECK_DEADLOCK FALSE
