SPECIFICATION MsSpec
CONSTANTS
    Buf = {b1, b2}
    NoBuf = NoBuf
    InitReg = {b1, b2}
    Bundled = FALSE
    Linked = FALSE
    HasCb = TRUE
    MaxPipe = 0
    MaxSkip = 0
    MsMayFail = FALSE
INVARIANTS NoFrameAfterStop
CHECK_DEADLOCK FALSE
