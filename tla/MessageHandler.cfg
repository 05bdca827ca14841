SPECIFICATION Spec
CONSTANTS
    Message = {m1, m2, m3, m4}
    Voice = {m4}
    None = None
    Backend = "file"
    MaxInputs = 4
SYMMETRY Symmetry
INVARIANTS
    RefusedOnlyWhenGone
    Restores
    ClearedIsGone
    ActiveIsServed
    FinishedIsKept
CHECK_DEADLOCK FALSE
