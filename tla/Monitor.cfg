SPECIFICATION MonitorFairSpec
CONSTANTS
    Commands = {c1}
    MaxToggles = 3
CHECK_DEADLOCK FALSE
INVARIANT KeyboardServed
PROPERTY MonitorLive
