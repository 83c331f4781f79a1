SPECIFICATION Spec
CONSTANTS
    StallTimeout = 2
    FirstTimeout = 3
    MaxFrameAge = 3
    WatchdogSec = 4
    TimeoutStart = 5
    MaxCalls = 2
INVARIANTS
    NoSilentStandstill
PROPERTIES
    FramesOrRestart
