SPECIFICATION MCSpec
CONSTANTS
    Sources = {s1, s2}
    Terminals = {t1, t2}
    MaxReloads = 2
    MaxLogs = 2
    Readers = {r1}
    Writers = {w1, w2}
    MaxBytes = 2
    MaxSets = 3
CHECK_DEADLOCK FALSE
INVARIANTS OneSource InOrder StreamsClosed
PROPERTIES LogsKept PrinterLive ForwarderLive
