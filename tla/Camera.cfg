SPECIFICATION FairSpec
CONSTANTS
    Buf = {b1, b2}
    NoBuf = NoBuf
    InitReg = {b1}
    Bundled = TRUE
    Linked = TRUE
    HasCb = TRUE
    MaxPipe = 0
    MaxSkip = 1
    MsMayFail = TRUE
    User = {t1, t2}
    Free = Free
    MaxOpens = 2
    McMayFail = TRUE
    TimeOuts = FALSE
    Note = {1, 2, 3}
    Kind <- KindOf
    Sender = {t1, t2}
    MaxModes = 2
    MaxExpected = 2
    NoNote = NoNote
    CbMayFail = TRUE
    MaxJobs = 2
    MaxChannels = 3
    InfoMayFail = FALSE
    DwMayFail = TRUE
    Pic = {1, 2}
    NoPic = NoPic
    PpModes = {"reproc", "jpeg", "raw", "zsl_raw", "reproc_raw"}
    NReproc = 1
    MaxRuns = 2
    PpMayFail = TRUE
    Job = {j1, j2}
    NoJpeg = NoJpeg
    Burst = FALSE
    MaxSessions = 2
    MjMayFail = TRUE
INVARIANTS
    CameraTypeOK BuffersOwned OpenCameraLives NotesHandledOnce
    NoJobOnDeletedChannel DeferredInOrder PicsAccounted ReprocInOrder
    SessionOfOneJob
PROPERTIES
    CameraCallsEnd SilentAfterAbort
CHECK_DEADLOCK FALSE
