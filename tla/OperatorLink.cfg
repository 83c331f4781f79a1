SPECIFICATION GroundSpec
CONSTANTS
    Sockets = {s1, s2}
    NoSocket = NoSocket
    QueueMax = 1
INVARIANTS
    DisconnectIsFinal
    BeatsOnAnOpenSocket
PROPERTIES
    SilentAppIsNoticed
    MuteClientGoes
