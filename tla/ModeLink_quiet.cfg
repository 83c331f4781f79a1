SPECIFICATION FairSpec
CONSTANTS
    LOITER = LOITER
    GUIDED = GUIDED
    BRAKE = BRAKE
    NoMode = NoMode
    Modes <- MCModes
    RetryAfter = 2
    MaxAttempts = 3
    MaxRequests = 2
    MaxInFlight = 3
    MaxLosses = 2
    MaxSwitches = 1
    Refusals = FALSE
    QuietLink = TRUE
    Prompt = TRUE
INVARIANT DropsOnlyForThePilot
PROPERTY LossesMasked
