SPECIFICATION MCSpec
CONSTANTS
    Build = {b1, b2, b3, b4}
    SessionID = {b1, b2, s}
    IDs <- MCIDs
    Invoke = {i1}
    Watched = {b1}
    Interruptible = {b1}
    MaxStatus = 1
    Own = {b1, b2}
    SharedBuild = {b2, b3, b4}
    SharedID = s
    None = None
CHECK_DEADLOCK FALSE
INVARIANTS ResultsHeld ProcessesBelong OneBuildPerSession
PROPERTY OwnBuildsReturn
