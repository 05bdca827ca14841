SPECIFICATION CarefulSpec
CONSTANTS
    Node = {r, a, b}
    Root = r
    NoNode = none
INVARIANTS BusyHasTask
PROPERTIES FifoLive
VIEW NoHistory
CHECK_DEADLOCK FALSE
