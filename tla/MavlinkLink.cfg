SPECIFICATION LinkSpec
CONSTANTS
    MaxCommands = 2
    MaxLosses = 1
    PromptFrames = TRUE
    SilenceAfter = 2
    MaxDelay = 3
    PositionMaxAge = 1
    StreamStale = 2
    StreamRetry = 2
    MaxEvents = 2
INVARIANTS
    AnswersUnlessLost
    AltitudeIsRecent
PROPERTIES
    TelemetryResumes
    EveryRequestAnswered
CHECK_DEADLOCK FALSE
