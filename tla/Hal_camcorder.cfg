SPECIFICATION FairSpec
CONSTANTS
    MayFail = {}
    JpegFormats = {TRUE, FALSE}
    RestartPreview = FALSE
    LiveChannel = "SNAPSHOT"
    MaxPics = 3
    Caller = {c1}
    Calls <- NoLongshot
    ParamValues <- HintParams
    MaxResults = 0
    MaxEvents = 1
INVARIANTS
    ChannelsFollowState LiveSnapshotOnlyInVideo StopCaptureIsForThisPicture
PROPERTIES
    CallsAndPicturesEnd
CHECK_DEADLOCK FALSE
