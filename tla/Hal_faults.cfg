SPECIFICATION Spec
CONSTANTS
    MayFail <- FailureKinds
    JpegFormats = {TRUE}
    RestartPreview = TRUE
    LiveChannel = "VIDEO"
    MaxPics = 1
    Caller = {c1}
    Calls <- AllCalls
    ParamValues <- ModeParams
    MaxResults = 0
    MaxEvents = 0
INVARIANTS
    VideoIffRecording PrepareWillEnd NotifierAnswered
CHECK_DEADLOCK FALSE
