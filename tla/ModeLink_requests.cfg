SPECIFICATION FairSpec
CONSTANTS
    LOITER = LOITER
    GUIDED = GUIDED
    BRAKE = BRAKE
    NoMode = NoMode
    Modes <- MCModes
    RetryAfter = 2
    MaxAttempts = 3
    MaxRequests = 2
    MaxInFlight = 2
    MaxLosses = 1
    MaxSwitches = 1
    Refusals = TRUE
    QuietLink = FALSE
    Prompt = FALSE
PROPERTIES
    KeepsThePromise
    RequestResolved
