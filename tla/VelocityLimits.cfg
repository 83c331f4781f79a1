SPECIFICATION Spec
CONSTANTS
    Kinds = {"FOLLOWING", "ORBITING", "GRID_SEARCH"}
    SpeedCeiling = 2
    MinSpeed = 1
    MaxReverse = 1
    SearchSpeed = 2
    TeachSpeed = 1
    Accel = 1
    MaxControlDt = 1
    Altitudes = {2, 3, 4}
    NoAltitude = NoAltitude
    Floor = 2
    Ceiling = 4
    SliderSpeeds = {0, 3}
INVARIANTS
    WithinTheCap
    NeverThroughTheLimits
PROPERTIES
    SpeedsUpGradually
