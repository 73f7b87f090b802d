SPECIFICATION FairSpec
CONSTANTS
    p1 = p1
    p2 = p2
    session = session
    None = None
    Start = {p1, p2}
    Rollback = {p2}
    Owner = {session}
    Reattached = {p1}
INVARIANT RunningCancellable
PROPERTY DoneEndsProcesses
CHECK_DEADLOCK FALSE
