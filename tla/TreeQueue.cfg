SPECIFICATION PatientSpec
CONSTANTS
    Node = {r, a, b}
    Root = r
    NoNode = none
SYMMETRY Replies
INVARIANTS
    TypeOK QueueGuarded
    SingleRunner ParentBeforeChild CancelledStaysCancelled
PROPERTIES
    ErrorNeverStarts FifoSafe
CHECK_DEADLOCK FALSE
