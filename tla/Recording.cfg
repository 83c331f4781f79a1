SPECIFICATION Spec
CONSTANTS
    Writers = {w1, w2}
    NoWriter = NoWriter
    Commands = {c1, c2}
INVARIANTS
    FilesAreWhole
    SkippedOnlyForAStop
    RecordingIsReported
