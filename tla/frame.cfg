SPECIFICATION Spec
CONSTANTS
    Nil = Nil
    Writers = {w1, w2}
    Payloads <- SmallPayloads
    Noise <- LineNoise
    MaxSize = 2
    MaxFrames = 3
    MaxNoise = 1
SYMMETRY Perms
INVARIANTS
    FrameTypeOK
    Framed
    FramesArrive
CHECK_DEADLOCK FALSE
