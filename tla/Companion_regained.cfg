SPECIFICATION Spec
CONSTANTS
    NoMode = NoMode
    Modes <- MCModes
    RetryAfter = 1
    MaxAttempts = 2
    ReacquireAfter = 2
    SearchTimeout = 2
    TakeoffTimeout = 2
    HoldAfter = 1
    CarryMax = 1
    SwapFrames = 1
    DropFrames = 2
    RtlAfter = 1
    StopRepeats = 2
    Scenarios <- StickScenarios
INVARIANT
    NeverGuidedAfterStop
