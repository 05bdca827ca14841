SPECIFICATION PatientSpec
CONSTANTS
    Task = {t1, t2}
    MaxStops = 1
INVARIANTS
    NothingLeft
    Reachable
PROPERTIES
    CancelledDies
CHECK_DEADLOCK FALSE
