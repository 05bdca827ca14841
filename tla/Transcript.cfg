SPECIFICATION Spec
CONSTANTS
    t1 = t1
    t2 = t2
    r1 = r1
    idT1 = idT1
    idT2 = idT2
    idR1 = idR1
    Call = {t1, t2, r1}
    Task = {t1, t2}
    UsedId <- Ids1
    ResultId <- Results1
    NoId = NoId
    Alike = {}
    TaskLike = {idT2}
    Parallel = FALSE
    None = None
    Index = {0, 1}
    MaxEvents = 2
    MaxBeforeStop = 1
    Delta = 3
    Limit = 6
    TailMax = 5
    Ellipsis = 1
    Marker = 1
    Gap = 1
    StatusWidth = 1
    MinBudget = 1
INVARIANTS
    Faithful
    Fits
    
CHECK_DEADLOCK FALSE
