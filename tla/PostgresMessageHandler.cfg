SPECIFICATION StoredSpec
CONSTANTS
    Message = {m1, m2}
    Voice = {}
    None = None
    Backend = "postgres"
    MaxInputs = 4
INVARIANTS
    RefusedOnlyWhenGone
CHECK_DEADLOCK FALSE
