SPECIFICATION MCSpec
CONSTANTS
    Reader = {r1, r2, r3}
    Size = 5
    Cap = 2
    Callers = {d1, d2}
    Cleanups = {f1, f2}
    MaxStatus = 2
CHECK_DEADLOCK FALSE
INVARIANTS WholeInput OpenUntilDone
PROPERTIES ReadersFinish HandleEnds
