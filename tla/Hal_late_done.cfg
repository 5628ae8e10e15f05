SPECIFICATION Spec
CONSTANTS
    MayFail = {}
    JpegFormats = {TRUE}
    RestartPreview = FALSE
    LiveChannel = "SNAPSHOT"
    MaxPics = 3
    Caller = {c1}
    Calls <- NoLongshot
    ParamValues <- HintParams
    MaxResults = 0
    MaxEvents = 1
INVARIANTS DoneIsForThisPicture
