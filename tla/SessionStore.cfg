SPECIFICATION LiveSpec
CONSTANTS
    Timer = {t1, t2, t3}
    MainThread = main
    NoTimer = none
    MaxVersion = 3
INVARIANTS SavedWhenQuiet
PROPERTY EventuallySaved
CHECK_DEADLOCK FALSE
