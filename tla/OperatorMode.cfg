SPECIFICATION Spec
CONSTANT
    MaxInFlight = 2
INVARIANT FliesTheLastWish
PROPERTY EndedSweepIsShown
