SPECIFICATION Spec
CONSTANTS
    c1 = c1
    t1 = t1
    Client = {c1}
    Row = {t1}
    Post = {1}
    QueueMax = 2
    MaxEvents = 3
    MaxSays = 2
INVARIANTS
    TypeOK
    InStep
PROPERTIES
    NewsArrives
    Leaves
CHECK_DEADLOCK FALSE
