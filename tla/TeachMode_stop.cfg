SPECIFICATION Spec
SYMMETRY Alike
CONSTANTS
    Detected = {a, b}
    Taught = {m, n}
    Nobody = Nobody
    ReacquireAfter = 1
    HoldAfter = 1
    SwapFrames = 1
    DropFrames = 2
    MaxObjects = 1
INVARIANTS
    StopForgetsTheTarget
