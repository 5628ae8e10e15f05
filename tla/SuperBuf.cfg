SPECIFICATION SbSpec
CONSTANTS
    Stream = {m, s}
    Meta = m
    NBuf = 2
    MaxFrame = 2
    Metas <- MetasNear
    Attrs <- AttrsTwo
    Modes = {"BURST"}
    FutureOffset = 1
    MaxCmds = 0
    MaxStarts = 1
INVARIANTS
    SbTypeOK SbLoopsEnd QueueAccounted SnapshotEnds SuperBufsInOrder
CHECK_DEADLOCK FALSE
