SPECIFICATION LiveSpec
CONSTANTS
    Server = {s1}
    Worker = {w1, w2}
    a = a
    b = b
    c = c
    Order <- TwoRules
    MaxBatch = 2
    QueueSize = 1
    Horizon = 3
    MaxRuns = 2
    MaxFaults = 1
    NoRule = norule
    NoTick = notick
INVARIANTS
    OncePerDay
PROPERTY RunsDaily
