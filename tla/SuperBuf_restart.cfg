SPECIFICATION SbSpec
CONSTANTS
    Stream = {m, s}
    Meta = m
    NBuf = 2
    MaxFrame = 2
    Metas <- MetasAll
    Attrs <- AttrsTwo
    Modes = {"BURST", "CONTINUOUS"}
    FutureOffset = 1
    MaxCmds = 0
    MaxStarts = 2
INVARIANTS SbLoopsEnd
CHECK_DEADLOCK FALSE
