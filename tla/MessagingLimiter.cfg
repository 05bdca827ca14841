SPECIFICATION LiveSpec
CONSTANTS
    other = other
    k1 = k1
    k2 = k2
    Call = {c1, c2, other}
    Key = {k1, k2}
    KeyOf <- Edits
    NoCall = NoCall
    MaxRetries = 1
INVARIANTS NoSendInPause LatestShown
PROPERTIES Answered
CHECK_DEADLOCK FALSE
