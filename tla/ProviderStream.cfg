SPECIFICATION Spec
CONSTANTS
    Streams <- Answers
    MaxHeld = 3
INVARIANTS
    Protocol
    CutsDoNotMatter
    CallsOnce
    ArgsArrive
CHECK_DEADLOCK FALSE
